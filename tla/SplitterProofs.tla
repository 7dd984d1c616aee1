--------------------------- MODULE SplitterProofs ---------------------------
(***************************************************************************)
(* Proofs about the splitter of Computations, for any text, window and     *)
(* separators: chunks fit, nothing is lost, and a marker resolves wherever *)
(* the cuts fall.                                                          *)
(*                                                                         *)
(* Induction is that of SumProofs.  Folds over sequences and the recursion *)
(* over separators are unfolded by inductions of their own.  The last      *)
(* sections are of cuts of a text that grows at its end, which             *)
(* NormaliserProofs builds on.                                             *)
(***************************************************************************)
EXTENDS SumProofs

-----------------------------------------------------------------------------
(* Texts: what they say is their word characters.                          *)

\* Without takes no notice of where a sequence is put together.
LEMMA WithoutConcat ==
    ASSUME NEW X, NEW D, NEW s \in Seq(X)
    PROVE  \A t \in Seq(X) : Without(s \o t, D) = Without(s, D) \o Without(t, D)
<1> DEFINE P == { t \in Seq(X) : Without(s \o t, D) = Without(s, D) \o Without(t, D) }
<1>1. Without(s, D) \in Seq(X)
  <2>1. Without(s, D) \in Seq(X \ D)
    BY WithoutElements
  <2>2. X \ D \subseteq X
    OBVIOUS
  <2>3. QED
    BY <2>1, <2>2, SeqMonotonic
<1>2. <<>> \in P
  <2>1. <<>> \in Seq(X) /\ s \o <<>> = s
    BY ConcatEmptySeq
  <2>2. Without(<<>>, D) = <<>>
    <3>1. CASE X = {}
      <4>1. PICK none : none = <<>>
        OBVIOUS
      <4>2. none \in Seq(X) /\ none \in Seq({0}) /\ 0 \in {0}
        BY <4>1
      <4>3. QED
        BY <4>1, <4>2, WithoutAppend
    <3>2. CASE X # {}
      <4>1. PICK x : x \in X
        BY <3>2
      <4>2. QED
        BY <4>1, WithoutAppend
    <3>3. QED
      BY <3>1, <3>2
  <2>3. Without(s, D) \o <<>> = Without(s, D)
    BY <1>1, ConcatEmptySeq
  <2>4. QED
    BY <2>1, <2>2, <2>3
<1>3. ASSUME NEW t \in Seq(X), NEW x \in X, t \in P PROVE Append(t, x) \in P
  <2>1. PICK u : u = s \o t
    OBVIOUS
  <2>2. u \in Seq(X) /\ Append(t, x) \in Seq(X)
    BY <2>1, ConcatProperties, AppendProperties
  <2>3. s \o Append(t, x) = Append(u, x)
    <3>1. Append(t, x) = t \o <<x>> /\ Append(u, x) = u \o <<x>>
      BY <2>2, AppendIsConcat
    <3>2. <<x>> \in Seq(X)
      OBVIOUS
    <3>3. (s \o t) \o <<x>> = s \o (t \o <<x>>)
      BY <3>2, ConcatAssociative
    <3>4. QED
      BY <2>1, <3>1, <3>3
  <2>4. PICK a : a = Without(s, D)
    OBVIOUS
  <2>5. PICK b : b = Without(t, D)
    OBVIOUS
  <2>6. a \in Seq(X) /\ b \in Seq(X)
    <3>1. b \in Seq(X \ D)
      BY <2>5, WithoutElements
    <3>2. X \ D \subseteq X
      OBVIOUS
    <3>3. QED
      BY <1>1, <2>4, <3>1, <3>2, SeqMonotonic
  <2>7. Without(u, D) = a \o b
    BY <1>3, <2>1, <2>4, <2>5
  <2>8. Without(Append(u, x), D) = IF x \in D THEN a \o b ELSE Append(a \o b, x)
    <3>1. Without(Append(u, x), D) = IF x \in D THEN Without(u, D) ELSE Append(Without(u, D), x)
      BY <2>2, WithoutAppend
    <3>2. QED
      BY <2>7, <3>1, Zenon
  <2>9. Without(Append(t, x), D) = IF x \in D THEN b ELSE Append(b, x)
    BY <2>5, WithoutAppend
  <2>10. Append(a \o b, x) = a \o Append(b, x)
    <3>1. <<x>> \in Seq(X) /\ a \o b \in Seq(X)
      BY <2>6, ConcatProperties
    <3>2. Append(a \o b, x) = (a \o b) \o <<x>> /\ Append(b, x) = b \o <<x>>
      BY <2>6, <3>1, AppendIsConcat
    <3>3. PICK one : one = <<x>>
      OBVIOUS
    <3>4. (a \o b) \o one = a \o (b \o one)
      BY <2>6, <3>1, <3>3, ConcatAssociative
    <3>5. QED
      BY <3>2, <3>3, <3>4
  <2>11. Without(s \o Append(t, x), D) = a \o Without(Append(t, x), D)
    BY <2>3, <2>8, <2>9, <2>10
  <2>12. QED
    BY <2>2, <2>4, <2>11
<1>4. QED
  <2> HIDE DEF P
  <2>1. Seq(X) \subseteq P
    BY <1>2, <1>3, SequenceInduction
  <2>2. QED
    BY <2>1 DEF P

\* What all is dropped of, and what nothing is dropped of.
LEMMA WithoutAll ==
    ASSUME NEW X, NEW s \in Seq(X), NEW D
    PROVE  /\ Without(s, D) \in Seq(X)
           /\ Without(s, D) = <<>> <=> ToSet(s) \subseteq D
           /\ Len(Without(s, D)) \in Nat
<1>1. Without(s, D) \in Seq(X \ D) /\ ToSet(Without(s, D)) = ToSet(s) \ D
  BY WithoutElements
<1>2. PICK w : w = Without(s, D)
  OBVIOUS
<1>3. w \in Seq(X)
  <2>1. X \ D \subseteq X
    OBVIOUS
  <2>2. QED
    BY <1>1, <1>2, <2>1, SeqMonotonic
<1>4. w = <<>> <=> ToSet(w) = {}
  <2>1. w # <<>> => ToSet(w) # {}
    BY <1>3, ElementsAreFinite
  <2>2. w = <<>> => ToSet(w) = {}
    <3>1. PICK none : none = <<>>
      OBVIOUS
    <3>2. DOMAIN none = {}
      BY <3>1
    <3>3. ToSet(none) = {}
      BY <3>2 DEF ToSet
    <3>4. QED
      BY <3>1, <3>3
  <2>3. QED
    BY <2>1, <2>2
<1>5. QED
  BY <1>1, <1>2, <1>3, <1>4

\* No more is left than there was.
LEMMA WithoutIsShorter ==
    ASSUME NEW X, NEW D
    PROVE  \A s \in Seq(X) : Len(Without(s, D)) <= Len(s)
<1> DEFINE P == { s \in Seq(X) : Len(Without(s, D)) <= Len(s) }
<1>1. <<>> \in P
  <2>1. PICK none : none = <<>>
    OBVIOUS
  <2>2. none \in Seq(X) /\ DOMAIN none = {} /\ Len(none) = 0
    BY <2>1
  <2>3. ToSet(none) \subseteq D
    BY <2>2 DEF ToSet
  <2>4. Without(none, D) = none
    BY <2>1, <2>2, <2>3, WithoutAll
  <2>5. QED
    BY <2>1, <2>2, <2>4
<1>2. ASSUME NEW s \in Seq(X), NEW x \in X, s \in P PROVE Append(s, x) \in P
  <2>1. PICK a : a = Without(s, D)
    OBVIOUS
  <2>2. a \in Seq(X) /\ Len(a) <= Len(s) /\ Len(a) \in Nat /\ Len(s) \in Nat
    BY <1>2, <2>1, WithoutAll, LenProperties
  <2>3. Without(Append(s, x), D) = IF x \in D THEN a ELSE Append(a, x)
    BY <2>1, WithoutAppend
  <2>4. Len(Append(a, x)) = Len(a) + 1 /\ Len(Append(s, x)) = Len(s) + 1
    BY <2>2, AppendProperties
  <2>5. Append(s, x) \in Seq(X)
    BY AppendProperties
  <2>6. QED
    BY <2>2, <2>3, <2>4, <2>5
<1>3. QED
  <2> HIDE DEF P
  <2>1. Seq(X) \subseteq P
    BY <1>1, <1>2, SequenceInduction
  <2>2. QED
    BY <2>1 DEF P

\* The recursion by which a sequence of sequences is flattened.
Flattening(s, g, n) == g = [i \in 1..n |-> IF i = 1 THEN s[i] ELSE g[i - 1] \o s[i]]

LEMMA FlatteningExists ==
    ASSUME NEW s
    PROVE  \A n \in Nat : \E g : Flattening(s, g, n)
<1> DEFINE N == { n \in Nat : \E g : Flattening(s, g, n) }
<1>1. 0 \in N
  <2>1. PICK none : none = 1..0
    OBVIOUS
  <2>2. none = {}
    BY <2>1
  <2>3. PICK g : g = [i \in none |-> <<>>]
    OBVIOUS
  <2>4. g = [i \in none |-> IF i = 1 THEN s[i] ELSE g[i - 1] \o s[i]]
    BY <2>2, <2>3
  <2>5. QED
    BY <2>1, <2>4 DEF Flattening
<1>2. ASSUME NEW n \in Nat, n \in N PROVE n + 1 \in N
  <2>1. PICK g : Flattening(s, g, n)
    BY <1>2
  <2>2. PICK last : last = IF n + 1 = 1 THEN s[n + 1] ELSE g[n] \o s[n + 1]
    OBVIOUS
  <2>3. PICK h : h = [i \in 1..(n + 1) |-> IF i = n + 1 THEN last ELSE g[i]]
    OBVIOUS
  <2>4. ASSUME NEW i \in 1..(n + 1)
        PROVE  h[i] = IF i = 1 THEN s[i] ELSE h[i - 1] \o s[i]
    <3>1. CASE i = n + 1
      <4>1. h[i] = last
        BY <2>3, <3>1
      <4>2. CASE n + 1 = 1
        BY <2>2, <3>1, <4>1, <4>2
      <4>3. CASE n + 1 # 1
        <5>1. n \in 1..(n + 1) /\ n # n + 1 /\ i - 1 = n
          BY <3>1, <4>3
        <5>2. h[n] = g[n]
          BY <2>3, <5>1
        <5>3. h[i] = g[n] \o s[i]
          BY <2>2, <3>1, <4>1, <4>3
        <5>4. h[i - 1] = g[n] /\ i # 1
          BY <3>1, <4>3, <5>1, <5>2
        <5>5. QED
          BY <5>3, <5>4
      <4>4. QED
        BY <4>2, <4>3
    <3>2. CASE i # n + 1
      <4>1. i \in 1..n /\ h[i] = g[i]
        BY <2>3, <3>2
      <4>2. g[i] = IF i = 1 THEN s[i] ELSE g[i - 1] \o s[i]
        BY <2>1, <4>1 DEF Flattening
      <4>3. i # 1 => h[i - 1] = g[i - 1]
        <5>1. i # 1 => i - 1 \in 1..(n + 1) /\ i - 1 # n + 1
          BY <4>1
        <5>2. QED
          BY <2>3, <5>1
      <4>4. CASE i = 1
        BY <4>1, <4>2, <4>4
      <4>5. CASE i # 1
        <5>1. h[i] = g[i - 1] \o s[i]
          BY <4>1, <4>2, <4>5
        <5>2. QED
          BY <4>3, <4>5, <5>1
      <4>6. QED
        BY <4>4, <4>5
    <3>3. QED
      BY <3>1, <3>2
  <2>5. h = [i \in 1..(n + 1) |-> IF i = 1 THEN s[i] ELSE h[i - 1] \o s[i]]
    BY <2>3, <2>4
  <2>6. Flattening(s, h, n + 1)
    BY <2>5 DEF Flattening
  <2>7. n + 1 \in Nat
    OBVIOUS
  <2>8. QED
    BY <2>6, <2>7
<1>3. QED
  <2> HIDE DEF N
  <2>1. \A n \in Nat : n \in N
    BY <1>1, <1>2, NaturalInduction
  <2>2. QED
    BY <2>1 DEF N

\* Where a sequence goes on as another, so does what it is flattened to.
LEMMA FlatteningAgrees ==
    ASSUME NEW s, NEW t, NEW g, NEW h, NEW n \in Nat, NEW m \in Nat, n <= m,
           Flattening(s, g, n), Flattening(t, h, m), \A i \in 1..n : s[i] = t[i]
    PROVE  \A i \in 1..n : g[i] = h[i]
<1> DEFINE N == { k \in Nat : k \in 1..n => g[k] = h[k] }
<1>1. 0 \in N
  OBVIOUS
<1>2. ASSUME NEW k \in Nat, k \in N PROVE k + 1 \in N
  <2> SUFFICES ASSUME k + 1 \in 1..n PROVE g[k + 1] = h[k + 1]
    OBVIOUS
  <2>1. PICK i : i = k + 1
    OBVIOUS
  <2>2. i \in 1..n /\ i \in 1..m /\ s[i] = t[i]
    BY <2>1
  <2>3. /\ g[i] = IF i = 1 THEN s[i] ELSE g[i - 1] \o s[i]
        /\ h[i] = IF i = 1 THEN t[i] ELSE h[i - 1] \o t[i]
    BY <2>2 DEF Flattening
  <2>4. i # 1 => g[i - 1] = h[i - 1]
    <3>1. i # 1 => k \in 1..n /\ i - 1 = k
      BY <2>1, <2>2
    <3>2. QED
      BY <1>2, <3>1
  <2>5. g[i] = h[i]
    BY <2>2, <2>3, <2>4
  <2>6. QED
    BY <2>1, <2>5
<1>3. QED
  <2> HIDE DEF N
  <2>1. \A k \in Nat : k \in N
    BY <1>1, <1>2, NaturalInduction
  <2>2. QED
    BY <2>1 DEF N

LEMMA FlattenUnfold ==
    ASSUME NEW s, Len(s) # 0
    PROVE  FlattenSeq(s) = (CHOOSE g : Flattening(s, g, Len(s)))[Len(s)]
BY DEF FlattenSeq, Flattening

\* Flattening a sequence at a time.
LEMMA FlattenAppend ==
    ASSUME NEW X, NEW ss \in Seq(Seq(X)), NEW s \in Seq(X), FlattenSeq(ss) \in Seq(X)
    PROVE  FlattenSeq(Append(ss, s)) = FlattenSeq(ss) \o s
<1>1. PICK n : n = Len(ss)
  OBVIOUS
<1>2. PICK tt : tt = Append(ss, s)
  OBVIOUS
<1>3. /\ n \in Nat /\ Len(tt) = n + 1 /\ tt[n + 1] = s /\ \A i \in 1..n : ss[i] = tt[i]
      /\ Len(tt) # 0
  BY <1>1, <1>2, AppendProperties, LenProperties
<1>4. PICK h : h = CHOOSE g : Flattening(tt, g, n + 1)
  OBVIOUS
<1>5. Flattening(tt, h, n + 1) /\ FlattenSeq(tt) = h[n + 1]
  <2>1. n + 1 \in Nat
    BY <1>3
  <2>2. \E g : Flattening(tt, g, n + 1)
    BY <2>1, FlatteningExists
  <2>3. QED
    BY <1>3, <1>4, <2>2, FlattenUnfold
<1>6. h[n + 1] = IF n + 1 = 1 THEN tt[n + 1] ELSE h[n] \o tt[n + 1]
  <2>1. n + 1 \in 1..(n + 1) /\ (n + 1) - 1 = n
    BY <1>3
  <2>2. QED
    BY <1>5, <2>1 DEF Flattening
<1>7. CASE n = 0
  <2>1. ss = <<>>
    BY <1>1, <1>7, EmptySeq
  <2>2. FlattenSeq(ss) = ss
    BY <1>1, <1>7 DEF FlattenSeq
  <2>3. <<>> \o s = s
    BY ConcatEmptySeq
  <2>4. FlattenSeq(tt) = s
    BY <1>3, <1>5, <1>6, <1>7
  <2>5. QED
    BY <1>2, <2>1, <2>2, <2>3, <2>4
<1>8. CASE n # 0
  <2>1. PICK g : g = CHOOSE f : Flattening(ss, f, n)
    OBVIOUS
  <2>2. Flattening(ss, g, n) /\ FlattenSeq(ss) = g[n]
    <3>1. \E f : Flattening(ss, f, n)
      BY <1>3, FlatteningExists
    <3>2. QED
      BY <1>1, <1>8, <2>1, <3>1, FlattenUnfold
  <2>3. g[n] = h[n]
    <3>1. n + 1 \in Nat /\ n <= n + 1 /\ n \in 1..n
      BY <1>3, <1>8
    <3>2. QED
      BY <1>3, <1>5, <2>2, <3>1, FlatteningAgrees
  <2>4. FlattenSeq(tt) = h[n] \o s
    BY <1>3, <1>5, <1>6, <1>8
  <2>5. QED
    BY <1>2, <2>2, <2>3, <2>4
<1>9. QED
  BY <1>7, <1>8

LEMMA FlattenType ==
    ASSUME NEW X
    PROVE  /\ FlattenSeq(<<>>) = <<>>
           /\ \A ss \in Seq(Seq(X)) : FlattenSeq(ss) \in Seq(X)
<1> DEFINE P == { ss \in Seq(Seq(X)) : FlattenSeq(ss) \in Seq(X) }
<1>1. FlattenSeq(<<>>) = <<>>
  <2>1. PICK none : none = <<>>
    OBVIOUS
  <2>2. Len(none) = 0
    BY <2>1
  <2>3. FlattenSeq(none) = none
    BY <2>2 DEF FlattenSeq
  <2>4. QED
    BY <2>1, <2>3
<1>2. <<>> \in P
  <2>1. <<>> \in Seq(Seq(X)) /\ <<>> \in Seq(X)
    BY EmptySeq
  <2>2. QED
    BY <1>1, <2>1
<1>3. ASSUME NEW ss \in Seq(Seq(X)), NEW s \in Seq(X), ss \in P PROVE Append(ss, s) \in P
  <2>1. PICK f : f = FlattenSeq(ss)
    OBVIOUS
  <2>2. f \in Seq(X)
    BY <1>3, <2>1
  <2>3. FlattenSeq(Append(ss, s)) = f \o s
    BY <2>1, <2>2, FlattenAppend
  <2>4. f \o s \in Seq(X) /\ Append(ss, s) \in Seq(Seq(X))
    BY <2>2, ConcatProperties, AppendProperties
  <2>5. QED
    BY <2>3, <2>4
<1>4. QED
  <2> HIDE DEF P
  <2>1. Seq(Seq(X)) \subseteq P
    BY <1>2, <1>3, SequenceInduction
  <2>2. QED
    BY <1>1, <2>1 DEF P

\* A text's words: those of its parts, and none where there is no word character.
LEMMA WordsAre ==
    ASSUME NEW s \in Seq(Characters)
    PROVE  /\ WordsOf(s) \in Seq(Characters) /\ Len(WordsOf(s)) \in Nat
           /\ Len(WordsOf(s)) <= Len(s)
           /\ WordsOf(s) = <<>> <=> ToSet(s) \subseteq Characters \ WordChars
           /\ \A t \in Seq(Characters) : WordsOf(s \o t) = WordsOf(s) \o WordsOf(t)
<1>1. PICK others : others = Characters \ WordChars
  OBVIOUS
<1>2. \A t \in Seq(Characters) : WordsOf(t) = Without(t, others)
  BY <1>1 DEF WordsOf
<1>3. /\ Without(s, others) \in Seq(Characters) /\ Len(Without(s, others)) \in Nat
      /\ Without(s, others) = <<>> <=> ToSet(s) \subseteq others
  BY WithoutAll
<1>4. Len(Without(s, others)) <= Len(s)
  BY WithoutIsShorter
<1>5. ASSUME NEW t \in Seq(Characters)
      PROVE  Without(s \o t, others) = Without(s, others) \o Without(t, others)
  BY WithoutConcat
<1>6. \A t \in Seq(Characters) : s \o t \in Seq(Characters)
  BY ConcatProperties
<1>7. QED
  BY <1>1, <1>2, <1>3, <1>4, <1>5, <1>6

\* What some texts say, one after the other.
Said(texts) == FlattenSeq([i \in DOMAIN texts |-> WordsOf(texts[i])])

LEMMA SaidAre ==
    ASSUME NEW texts \in Seq(Seq(Characters))
    PROVE  /\ [i \in DOMAIN texts |-> WordsOf(texts[i])] \in Seq(Seq(Characters))
           /\ Said(texts) \in Seq(Characters)
           /\ \A t \in Seq(Characters) : Said(Append(texts, t)) = Said(texts) \o WordsOf(t)
<1>1. PICK words : words = [i \in DOMAIN texts |-> WordsOf(texts[i])]
  OBVIOUS
<1>2. PICK n : n = Len(texts)
  OBVIOUS
<1>3. n \in Nat /\ DOMAIN texts = 1..n /\ \A i \in 1..n : texts[i] \in Seq(Characters)
  BY <1>2, LenProperties, ElementOfSeq
<1>4. words \in Seq(Seq(Characters)) /\ Len(words) = n
  <2>1. \A i \in 1..n : words[i] \in Seq(Characters)
    BY <1>1, <1>3, WordsAre
  <2>2. words \in [1..n -> Seq(Characters)]
    BY <1>1, <1>3, <2>1
  <2>3. QED
    BY <1>3, <2>2
<1>5. Said(texts) = FlattenSeq(words)
  BY <1>1 DEF Said
<1>6. FlattenSeq(words) \in Seq(Characters)
  BY <1>4, FlattenType
<1>7. ASSUME NEW t \in Seq(Characters)
      PROVE  Said(Append(texts, t)) = Said(texts) \o WordsOf(t)
  <2>1. PICK w : w = WordsOf(t)
    OBVIOUS
  <2>2. w \in Seq(Characters)
    BY <2>1, WordsAre
  <2>3. PICK more : more = Append(texts, t)
    OBVIOUS
  <2>4. /\ more \in Seq(Seq(Characters)) /\ Len(more) = n + 1 /\ more[n + 1] = t
        /\ \A i \in 1..n : more[i] = texts[i]
    BY <1>2, <2>3, AppendProperties
  <2>5. PICK longer : longer = [i \in DOMAIN more |-> WordsOf(more[i])]
    OBVIOUS
  <2>6. longer = Append(words, w)
    <3>1. DOMAIN more = 1..(n + 1)
      BY <2>4, LenProperties
    <3>2. /\ Append(words, w) \in Seq(Seq(Characters)) /\ Len(Append(words, w)) = n + 1
          /\ Append(words, w)[n + 1] = w
          /\ \A i \in 1..n : Append(words, w)[i] = words[i]
      BY <1>4, <2>2, AppendProperties
    <3>3. DOMAIN Append(words, w) = 1..(n + 1)
      BY <3>2, LenProperties
    <3>4. ASSUME NEW i \in 1..(n + 1) PROVE longer[i] = Append(words, w)[i]
      <4>1. CASE i = n + 1
        BY <2>1, <2>4, <2>5, <3>1, <3>2, <4>1
      <4>2. CASE i # n + 1
        <5>1. i \in 1..n
          BY <1>3, <4>2
        <5>2. longer[i] = WordsOf(more[i]) /\ words[i] = WordsOf(texts[i])
          BY <1>1, <1>3, <2>5, <3>1, <5>1
        <5>3. QED
          BY <2>4, <3>2, <5>1, <5>2
      <4>3. QED
        BY <4>1, <4>2
    <3>5. longer \in Seq(Seq(Characters)) /\ Len(longer) = n + 1
      <4>1. \A i \in 1..(n + 1) : longer[i] \in Seq(Characters)
        BY <3>2, <3>4, ElementOfSeq
      <4>2. longer \in [1..(n + 1) -> Seq(Characters)] /\ n + 1 \in Nat
        BY <1>3, <2>5, <3>1, <4>1
      <4>3. QED
        BY <4>2
    <3>6. QED
      BY <3>2, <3>4, <3>5, SeqEqual
  <2>7. FlattenSeq(longer) = FlattenSeq(words) \o w
    BY <1>4, <1>6, <2>2, <2>6, FlattenAppend
  <2>8. Said(more) = FlattenSeq(longer)
    BY <2>5 DEF Said
  <2>9. QED
    BY <1>5, <2>1, <2>3, <2>7, <2>8
<1>8. QED
  BY <1>1, <1>4, <1>5, <1>6, <1>7

LEMMA NothingSaid == Said(<<>>) = <<>>
<1>1. PICK none : none = <<>>
  OBVIOUS
<1>2. DOMAIN none = {}
  BY <1>1
<1>3. [i \in DOMAIN none |-> WordsOf(none[i])] = <<>>
  BY <1>2
<1>4. QED
  BY <1>1, <1>3, FlattenType DEF Said

LEMMA SaidConcat ==
    ASSUME NEW r \in Seq(Seq(Characters))
    PROVE  \A s \in Seq(Seq(Characters)) : Said(r \o s) = Said(r) \o Said(s)
<1> DEFINE P == { s \in Seq(Seq(Characters)) : Said(r \o s) = Said(r) \o Said(s) }
<1>1. <<>> \in P
  <2>1. PICK said : said = Said(r)
    OBVIOUS
  <2>2. said \in Seq(Characters)
    BY <2>1, SaidAre
  <2>3. said \o <<>> = said /\ r \o <<>> = r
    BY <2>2, ConcatEmptySeq
  <2>4. <<>> \in Seq(Seq(Characters))
    BY EmptySeq
  <2>5. QED
    BY <2>1, <2>3, <2>4, NothingSaid
<1>2. ASSUME NEW s \in Seq(Seq(Characters)), NEW t \in Seq(Characters), s \in P
      PROVE  Append(s, t) \in P
  <2>1. PICK u : u = r \o s
    OBVIOUS
  <2>2. u \in Seq(Seq(Characters)) /\ Append(s, t) \in Seq(Seq(Characters))
    BY <2>1, ConcatProperties, AppendProperties
  <2>3. r \o Append(s, t) = Append(u, t)
    <3>1. PICK one : one = <<t>>
      OBVIOUS
    <3>2. one \in Seq(Seq(Characters))
      BY <3>1
    <3>3. Append(s, t) = s \o one /\ Append(u, t) = u \o one
      BY <2>2, <3>1, AppendIsConcat
    <3>4. (r \o s) \o one = r \o (s \o one)
      BY <3>2, ConcatAssociative, SMTT(30)
    <3>5. QED
      BY <2>1, <3>3, <3>4
  <2>4. PICK a, b, w : a = Said(r) /\ b = Said(s) /\ w = WordsOf(t)
    OBVIOUS
  <2>5. a \in Seq(Characters) /\ b \in Seq(Characters) /\ w \in Seq(Characters)
    BY <2>4, SaidAre, WordsAre
  <2>6. Said(u) = a \o b
    BY <1>2, <2>1, <2>4
  <2>7. Said(Append(u, t)) = Said(u) \o w /\ Said(Append(s, t)) = b \o w
    BY <2>2, <2>4, SaidAre
  <2>8. (a \o b) \o w = a \o (b \o w)
    BY <2>5, ConcatAssociative, SMTT(30)
  <2>9. Said(r \o Append(s, t)) = a \o Said(Append(s, t))
    BY <2>3, <2>6, <2>7, <2>8
  <2>10. QED
    BY <2>2, <2>4, <2>9
<1>3. QED
  <2> HIDE DEF P
  <2>1. Seq(Seq(Characters)) \subseteq P
    BY <1>1, <1>2, SequenceInduction
  <2>2. QED
    BY <2>1 DEF P

\* One text.
LEMMA SaidAlone ==
    ASSUME NEW t \in Seq(Characters)
    PROVE  << t >> \in Seq(Seq(Characters)) /\ Said(<< t >>) = WordsOf(t)
<1>1. PICK none : none = <<>>
  OBVIOUS
<1>2. none \in Seq(Seq(Characters)) /\ none \in Seq(Characters)
  BY <1>1, EmptySeq
<1>3. Append(none, t) = << t >>
  BY <1>1
<1>4. Said(Append(none, t)) = Said(none) \o WordsOf(t)
  BY <1>2, SaidAre
<1>5. PICK w : w = WordsOf(t)
  OBVIOUS
<1>6. w \in Seq(Characters)
  BY <1>5, WordsAre
<1>7. none \o w = w
  BY <1>1, <1>6, ConcatEmptySeq
<1>8. << t >> \in Seq(Seq(Characters))
  BY <1>2, <1>3, AppendProperties
<1>9. QED
  BY <1>1, <1>3, <1>4, <1>5, <1>7, <1>8, NothingSaid

\* White space is no part of a word, and a blank text says nothing.
LEMMA WhitespaceIsSeparate ==
    /\ Whitespace \subseteq Characters \ WordChars
    /\ Seq(Whitespace) \subseteq Seq(Characters)
    /\ \A t \in Seq(Whitespace) : WordsOf(t) = <<>>
<1>1. Whitespace \subseteq Characters \ WordChars
  <2> SUFFICES ASSUME NEW c \in Whitespace PROVE c \in Characters \ WordChars
    OBVIOUS
  <2>1. PICK one : one = << c >>
    OBVIOUS
  <2>2. one \in ToSet(Separators)
    BY <2>1, SeparatorsAssumption
  <2>3. one \in Seq(Characters \ WordChars)
    BY <2>2, SeparatorsAssumption, ElementsAreFinite
  <2>4. 1 \in 1..Len(one) /\ one[1] = c
    BY <2>1
  <2>5. QED
    BY <2>3, <2>4, ElementOfSeq
<1>2. Whitespace \subseteq Characters
  BY <1>1
<1>3. Seq(Whitespace) \subseteq Seq(Characters)
  BY <1>2, SeqMonotonic
<1>4. ASSUME NEW t \in Seq(Whitespace) PROVE WordsOf(t) = <<>>
  <2>1. t \in Seq(Characters)
    BY <1>3
  <2>2. ToSet(t) \in SUBSET Whitespace
    BY ElementsAreFinite
  <2>3. QED
    BY <1>1, <2>1, <2>2, WordsAre
<1>5. QED
  BY <1>1, <1>3, <1>4

\* Blank texts can be left out.
LEMMA SaidNonBlank ==
    \A texts \in Seq(Seq(Characters)) : Said(NonBlank(texts)) = Said(texts)
<1> DEFINE P == { texts \in Seq(Seq(Characters)) : Said(NonBlank(texts)) = Said(texts) }
<1>1. <<>> \in P
  <2>1. PICK none : none = <<>>
    OBVIOUS
  <2>2. none \in Seq(Seq(Characters))
    BY <2>1, EmptySeq
  <2>3. ToSet(none) \subseteq Seq(Whitespace)
    <3>1. DOMAIN none = {}
      BY <2>1
    <3>2. QED
      BY <3>1 DEF ToSet
  <2>4. Without(none, Seq(Whitespace)) = <<>>
    BY <2>2, <2>3, WithoutAll
  <2>5. QED
    BY <2>1, <2>2, <2>4 DEF NonBlank
<1>2. ASSUME NEW texts \in Seq(Seq(Characters)), NEW t \in Seq(Characters), texts \in P
      PROVE  Append(texts, t) \in P
  <2>1. Append(texts, t) \in Seq(Seq(Characters))
    BY AppendProperties
  <2>2. PICK kept : kept = NonBlank(texts)
    OBVIOUS
  <2>3. kept \in Seq(Seq(Characters))
    BY <2>2, WithoutAll DEF NonBlank
  <2>4. NonBlank(Append(texts, t)) = IF t \in Seq(Whitespace) THEN kept ELSE Append(kept, t)
    BY <2>2, WithoutAppend DEF NonBlank
  <2>5. Said(kept) = Said(texts)
    BY <1>2, <2>2
  <2>6. PICK said : said = Said(texts)
    OBVIOUS
  <2>7. said \in Seq(Characters)
    BY <2>6, SaidAre
  <2>8. Said(Append(texts, t)) = said \o WordsOf(t) /\ Said(Append(kept, t)) = said \o WordsOf(t)
    BY <2>3, <2>5, <2>6, SaidAre
  <2>9. CASE t \in Seq(Whitespace)
    <3>1. WordsOf(t) = <<>>
      BY <2>9, WhitespaceIsSeparate
    <3>2. said \o <<>> = said
      BY <2>7, ConcatEmptySeq
    <3>3. QED
      BY <2>1, <2>4, <2>5, <2>6, <2>8, <2>9, <3>1, <3>2
  <2>10. CASE t \notin Seq(Whitespace)
    BY <2>1, <2>4, <2>8, <2>10
  <2>11. QED
    BY <2>9, <2>10
<1>3. QED
  <2> HIDE DEF P
  <2>1. Seq(Seq(Characters)) \subseteq P
    BY <1>1, <1>2, SequenceInduction
  <2>2. QED
    BY <2>1 DEF P

-----------------------------------------------------------------------------
(* Cutting a text at a separator.                                          *)

\* A part of a text between two places.
LEMMA PartOfText ==
    ASSUME NEW X, NEW s \in Seq(X), NEW i \in Int, NEW j \in Int, 1 <= i, j <= Len(s)
    PROVE  /\ SubSeq(s, i, j) \in Seq(X)
           /\ Len(SubSeq(s, i, j)) = IF i <= j THEN j - i + 1 ELSE 0
           /\ \A k \in 1..(j - i + 1) : SubSeq(s, i, j)[k] = s[i + k - 1]
<1>1. Len(s) \in Nat /\ \A k \in 1..Len(s) : s[k] \in X
  BY LenProperties, ElementOfSeq
<1>2. \A k \in i..j : s[k] \in X
  BY <1>1
<1>3. QED
  BY <1>2, SubSeqProperties

\* What occurs in a part occurs in the text.
LEMMA OccursInPart ==
    ASSUME NEW X, NEW s \in Seq(X), NEW o \in Seq(X), o # <<>>,
           NEW i \in Int, NEW j \in Int, 1 <= i, j <= Len(s),
           NEW x \in Occurrences(o, SubSeq(s, i, j))
    PROVE  /\ x \in Int /\ 1 <= x
           /\ i + x - 1 \in Occurrences(o, s)
           /\ i + x + Len(o) - 2 <= j
<1>1. PICK p : p = SubSeq(s, i, j)
  OBVIOUS
<1>2. PICK l : l = Len(o)
  OBVIOUS
<1>3. l \in Nat \ {0} /\ Len(s) \in Nat
  BY <1>2, EmptySeq, LenProperties
<1>4. p \in Seq(X) /\ Len(p) = IF i <= j THEN j - i + 1 ELSE 0
  BY <1>1, PartOfText
<1>5. x \in 1..(Len(p) - l + 1) /\ SubSeq(p, x, x + l - 1) = o
  BY <1>1, <1>2 DEF Occurrences, OccursAt
<1>6. i <= j /\ Len(p) = j - i + 1
  BY <1>3, <1>4, <1>5
<1>7. /\ x \in 1..(j - i + 1) /\ x + l - 1 \in 1..(j - i + 1)
      /\ i \in 1..Len(s) /\ j \in 1..Len(s)
  BY <1>3, <1>5, <1>6
<1>8. PICK y : y = x + l - 1
  OBVIOUS
<1>9. SubSeq(SubSeq(s, i, j), x, y) = SubSeq(s, i + x - 1, i + y - 1)
  BY <1>7, <1>8, SubSeqOfSubSeq
<1>10. i + y - 1 = (i + x - 1) + l - 1
  BY <1>3, <1>7, <1>8
<1>11. SubSeq(s, i + x - 1, (i + x - 1) + l - 1) = o
  BY <1>1, <1>5, <1>8, <1>9, <1>10
<1>12. i + x - 1 \in 1..(Len(s) - l + 1)
  BY <1>3, <1>7
<1>13. QED
  BY <1>2, <1>3, <1>7, <1>11, <1>12 DEF Occurrences, OccursAt

\* The separators from a place on.
Behind(sep, text, i) == { j \in Occurrences(sep, text) : j >= i }

\* Where the next cut is.
LEMMA NextCut ==
    ASSUME NEW text \in Seq(Characters), NEW sep \in Seq(Characters), sep # <<>>,
           NEW i \in 1..(Len(text) + 1), Behind(sep, text, i) # {}
    PROVE  LET m == Min(Behind(sep, text, i)) IN
              /\ m \in i..Len(text) /\ m + Len(sep) \in (i + 1)..(Len(text) + 1)
              /\ SubSeq(text, m, m + Len(sep) - 1) = sep
              /\ \A j \in Occurrences(sep, text) : j >= i => m <= j
<1>1. PICK all : all = Behind(sep, text, i)
  OBVIOUS
<1>2. PICK n, l : n = Len(text) /\ l = Len(sep)
  OBVIOUS
<1>3. n \in Nat /\ l \in Nat \ {0}
  BY <1>2, EmptySeq, LenProperties
<1>4. all \in SUBSET (1..n) /\ all \in SUBSET Int
  BY <1>1, <1>2, <1>3 DEF Behind, Occurrences
<1>5. IsFiniteSet(all)
  <2>1. IsFiniteSet(1..n)
    BY <1>3, FS_Interval
  <2>2. QED
    BY <1>4, <2>1, FS_Subset
<1>6. PICK m : m = Min(all)
  OBVIOUS
<1>7. m \in all /\ \A j \in all : m <= j
  BY <1>1, <1>4, <1>5, <1>6, LeastInteger
<1>8. m \in Occurrences(sep, text) /\ m >= i
  BY <1>1, <1>7 DEF Behind
<1>9. m \in 1..(n - l + 1) /\ SubSeq(text, m, m + l - 1) = sep
  BY <1>2, <1>8 DEF Occurrences, OccursAt
<1>10. m \in i..n /\ m + l \in (i + 1)..(n + 1)
  BY <1>2, <1>3, <1>8, <1>9
<1>11. \A j \in Occurrences(sep, text) : j >= i => m <= j
  BY <1>1, <1>7 DEF Behind
<1>12. QED
  BY <1>1, <1>2, <1>6, <1>9, <1>10, <1>11

\* The recursion by which SplitAt cuts.
Cut(text, sep, g, i) ==
    IF Behind(sep, text, i) = {} THEN << SubSeq(text, i, Len(text)) >>
    ELSE << SubSeq(text, i, Min(Behind(sep, text, i)) - 1) >>
            \o g[Min(Behind(sep, text, i)) + Len(sep)]

LEMMA SplitAtUnfold ==
    ASSUME NEW text, NEW sep
    PROVE  SplitAt(text, sep)
              = (CHOOSE g : g = [i \in 1..(Len(text) + 1) |-> Cut(text, sep, g, i)])[1]
BY DEF SplitAt, Cut, Behind

LEMMA CuttingExists ==
    ASSUME NEW text \in Seq(Characters), NEW sep \in Seq(Characters), sep # <<>>
    PROVE  \E g : g = [i \in 1..(Len(text) + 1) |-> Cut(text, sep, g, i)]
<1>1. PICK n : n = Len(text)
  OBVIOUS
<1>2. n \in Nat
  BY <1>1, LenProperties
<1> DEFINE Solved(g, k) == g = [i \in (n + 2 - k)..(n + 1) |-> Cut(text, sep, g, i)]
           N == { k \in Nat : k <= n + 1 => \E g : Solved(g, k) }
<1>3. 0 \in N
  <2>1. PICK none : none = (n + 2 - 0)..(n + 1)
    OBVIOUS
  <2>2. none = {}
    BY <1>2, <2>1
  <2>3. PICK g : g = [i \in none |-> <<>>]
    OBVIOUS
  <2>4. g = [i \in none |-> Cut(text, sep, g, i)]
    BY <2>2, <2>3
  <2>5. QED
    BY <2>1, <2>4
<1>4. ASSUME NEW k \in Nat, k \in N PROVE k + 1 \in N
  <2> SUFFICES ASSUME k + 1 <= n + 1 PROVE \E g : Solved(g, k + 1)
    OBVIOUS
  <2>1. PICK g : Solved(g, k)
    BY <1>2, <1>4
  <2>2. PICK a : a = n + 2 - (k + 1)
    OBVIOUS
  <2>3. /\ a \in 1..(n + 1) /\ n + 2 - k = a + 1
        /\ a..(n + 1) = {a} \cup ((a + 1)..(n + 1))
    BY <1>2, <2>2
  <2>4. PICK h : h = [i \in a..(n + 1) |-> IF i = a THEN Cut(text, sep, g, a) ELSE g[i]]
    OBVIOUS
  <2>5. ASSUME NEW i \in a..(n + 1) PROVE Cut(text, sep, h, i) = Cut(text, sep, g, i)
    <3>1. CASE Behind(sep, text, i) = {}
      BY <3>1 DEF Cut
    <3>2. CASE Behind(sep, text, i) # {}
      <4>1. PICK next : next = Min(Behind(sep, text, i)) + Len(sep)
        OBVIOUS
      <4>2. i \in 1..(Len(text) + 1)
        BY <1>1, <1>2, <2>3
      <4>3. next \in (i + 1)..(n + 1)
        BY <1>1, <3>2, <4>1, <4>2, NextCut
      <4>4. next \in a..(n + 1) /\ next # a
        BY <1>2, <2>3, <4>3
      <4>5. h[next] = g[next]
        BY <2>4, <4>4
      <4>6. QED
        BY <3>2, <4>1, <4>5 DEF Cut
    <3>3. QED
      BY <3>1, <3>2
  <2>6. ASSUME NEW i \in a..(n + 1) PROVE h[i] = Cut(text, sep, h, i)
    <3>1. CASE i = a
      BY <2>4, <2>5, <3>1
    <3>2. CASE i # a
      <4>1. i \in (n + 2 - k)..(n + 1)
        BY <2>3, <3>2
      <4>2. g[i] = Cut(text, sep, g, i)
        BY <2>1, <4>1
      <4>3. QED
        BY <2>4, <2>5, <3>2, <4>2
    <3>3. QED
      BY <3>1, <3>2
  <2>7. h = [i \in a..(n + 1) |-> Cut(text, sep, h, i)]
    BY <2>4, <2>6
  <2>8. Solved(h, k + 1)
    BY <2>2, <2>7
  <2>9. QED
    BY <2>8
<1>5. n + 1 \in N
  <2> HIDE DEF N
  <2>1. n + 1 \in Nat
    BY <1>2
  <2>2. QED
    BY <1>3, <1>4, <2>1, NaturalInduction
<1>6. PICK g : Solved(g, n + 1)
  BY <1>2, <1>5
<1>7. n + 2 - (n + 1) = 1
  BY <1>2
<1>8. QED
  BY <1>1, <1>6, <1>7

\* Parts of a text: they lack the separator and what the text lacks.
PartsOf(text, sep) ==
    { p \in Seq(Characters) :
        /\ Occurrences(sep, p) = {}
        /\ \A o \in Seq(Characters) \ {<<>>} :
             Occurrences(o, text) = {} => Occurrences(o, p) = {} }

LEMMA PartLacks ==
    ASSUME NEW text \in Seq(Characters), NEW sep \in Seq(Characters), sep # <<>>,
           NEW i \in Int, NEW j \in Int, 1 <= i, j <= Len(text),
           \A m \in Occurrences(sep, text) : m >= i => m > j
    PROVE  SubSeq(text, i, j) \in PartsOf(text, sep)
<1>1. PICK p : p = SubSeq(text, i, j)
  OBVIOUS
<1>2. p \in Seq(Characters)
  BY <1>1, PartOfText
<1>3. ASSUME NEW o \in Seq(Characters), o # <<>>, NEW x \in Occurrences(o, p)
      PROVE  i + x - 1 \in Occurrences(o, text) /\ i + x - 1 >= i /\ ~ (i + x - 1 > j)
  <2>1. /\ x \in Int /\ 1 <= x /\ i + x - 1 \in Occurrences(o, text)
        /\ i + x + Len(o) - 2 <= j
    BY <1>1, <1>3, OccursInPart
  <2>2. Len(o) \in Nat \ {0}
    BY <1>3, EmptySeq
  <2>3. QED
    BY <2>1, <2>2
<1>4. Occurrences(sep, p) = {}
  <2> SUFFICES ASSUME NEW x \in Occurrences(sep, p) PROVE FALSE
    OBVIOUS
  <2>1. i + x - 1 \in Occurrences(sep, text) /\ i + x - 1 >= i /\ ~ (i + x - 1 > j)
    BY <1>3
  <2>2. QED
    BY <2>1
<1>5. ASSUME NEW o \in Seq(Characters) \ {<<>>}, Occurrences(o, text) = {}
      PROVE  Occurrences(o, p) = {}
  <2> SUFFICES ASSUME NEW x \in Occurrences(o, p) PROVE FALSE
    OBVIOUS
  <2>1. i + x - 1 \in Occurrences(o, text)
    BY <1>3
  <2>2. QED
    BY <1>5, <2>1
<1>6. QED
  BY <1>1, <1>2, <1>4, <1>5 DEF PartsOf

\* Between two cuts is a separator, which says nothing.
LEMMA WordsAroundCut ==
    ASSUME NEW text \in Seq(Characters), NEW i \in Int, NEW m \in Int, NEW b \in Int,
           1 <= i, i <= m, m < b, b <= Len(text) + 1,
           SubSeq(text, m, b - 1) \in Seq(Characters \ WordChars)
    PROVE  WordsOf(SubSeq(text, i, Len(text)))
              = WordsOf(SubSeq(text, i, m - 1)) \o WordsOf(SubSeq(text, b, Len(text)))
<1>1. PICK n : n = Len(text)
  OBVIOUS
<1>2. n \in Nat
  BY <1>1, LenProperties
<1>3. PICK x, y, z, sep :
         /\ x = SubSeq(text, i, m - 1) /\ y = SubSeq(text, m, n)
         /\ z = SubSeq(text, b, n) /\ sep = SubSeq(text, m, b - 1)
  OBVIOUS
<1>4. x \in Seq(Characters) /\ y \in Seq(Characters) /\ z \in Seq(Characters)
  <2>1. m - 1 \in Int /\ m - 1 <= n /\ n <= n /\ 1 <= i /\ 1 <= m /\ 1 <= b
    BY <1>1, <1>2
  <2>2. QED
    BY <1>1, <1>2, <1>3, <2>1, PartOfText
<1>5. SubSeq(text, i, n) = x \o y
  <2>1. i \in 1..(n + 1) /\ m - 1 \in (i - 1)..n /\ n \in (m - 1)..n /\ (m - 1) + 1 = m
    BY <1>1, <1>2
  <2>2. QED
    BY <1>1, <1>3, <2>1, ConcatAdjacentSubSeq
<1>6. y = sep \o z
  <2>1. m \in 1..(n + 1) /\ b - 1 \in (m - 1)..n /\ n \in (b - 1)..n /\ (b - 1) + 1 = b
    BY <1>1, <1>2
  <2>2. QED
    BY <1>1, <1>3, <2>1, ConcatAdjacentSubSeq
<1>7. sep \in Seq(Characters) /\ WordsOf(sep) = <<>>
  <2>1. Characters \ WordChars \subseteq Characters
    OBVIOUS
  <2>2. sep \in Seq(Characters \ WordChars)
    BY <1>3
  <2>3. sep \in Seq(Characters)
    BY <2>1, <2>2, SeqMonotonic
  <2>4. ToSet(sep) \in SUBSET (Characters \ WordChars)
    BY <2>2, ElementsAreFinite
  <2>5. QED
    BY <2>3, <2>4, WordsAre
<1>8. WordsOf(y) = WordsOf(z)
  <2>1. WordsOf(y) = WordsOf(sep) \o WordsOf(z)
    BY <1>4, <1>6, <1>7, WordsAre
  <2>2. WordsOf(z) \in Seq(Characters)
    BY <1>4, WordsAre
  <2>3. QED
    BY <1>7, <2>1, <2>2, ConcatEmptySeq
<1>9. WordsOf(x \o y) = WordsOf(x) \o WordsOf(y)
  BY <1>4, WordsAre
<1>10. QED
  BY <1>1, <1>3, <1>5, <1>8, <1>9

\* A text is cut into parts that lack the separator and together say what it says.
LEMMA SplitAtParts ==
    ASSUME NEW text \in Seq(Characters),
           NEW sep \in Seq(Characters \ WordChars) \ {<<>>}
    PROVE  /\ SplitAt(text, sep) \in Seq(PartsOf(text, sep))
           /\ SplitAt(text, sep) \in Seq(Seq(Characters))
           /\ Said(SplitAt(text, sep)) = WordsOf(text)
<1>1. PICK n : n = Len(text)
  OBVIOUS
<1>2. n \in Nat
  BY <1>1, LenProperties
<1>3. sep \in Seq(Characters) /\ sep # <<>> /\ sep \in Seq(Characters \ WordChars)
  <2>1. Characters \ WordChars \subseteq Characters
    OBVIOUS
  <2>2. QED
    BY <2>1, SeqMonotonic
<1>4. PICK g : g = CHOOSE h : h = [i \in 1..(n + 1) |-> Cut(text, sep, h, i)]
  OBVIOUS
<1>5. g = [i \in 1..(n + 1) |-> Cut(text, sep, g, i)] /\ SplitAt(text, sep) = g[1]
  BY <1>1, <1>3, <1>4, CuttingExists, SplitAtUnfold
<1>6. PICK parts : parts = PartsOf(text, sep)
  OBVIOUS
<1>7. parts \subseteq Seq(Characters) /\ Seq(parts) \subseteq Seq(Seq(Characters))
  <2>1. parts \subseteq Seq(Characters)
    BY <1>6 DEF PartsOf
  <2>2. QED
    BY <2>1, SeqMonotonic
<1> DEFINE Right(i) == g[i] \in Seq(parts) /\ Said(g[i]) = WordsOf(SubSeq(text, i, n))
           N == { k \in Nat : \A i \in 1..(n + 1) : i > n + 1 - k => Right(i) }
<1>8. 0 \in N
  BY <1>2
<1>9. ASSUME NEW k \in Nat, k \in N PROVE k + 1 \in N
  <2> SUFFICES ASSUME NEW i \in 1..(n + 1), i > n + 1 - (k + 1) PROVE Right(i)
    OBVIOUS
  <2>1. CASE i > n + 1 - k
    BY <1>9, <2>1
  <2>2. CASE ~ (i > n + 1 - k)
    <3>1. g[i] = Cut(text, sep, g, i)
      BY <1>5
    <3>2. CASE Behind(sep, text, i) = {}
      <4>1. PICK p : p = SubSeq(text, i, n)
        OBVIOUS
      <4>2. g[i] = << p >>
        BY <1>1, <3>1, <3>2, <4>1 DEF Cut
      <4>3. p \in parts
        <5>1. \A m \in Occurrences(sep, text) : ~ (m >= i)
          BY <3>2 DEF Behind
        <5>2. QED
          BY <1>1, <1>2, <1>3, <1>6, <4>1, <5>1, PartLacks
      <4>4. << p >> \in Seq(parts)
        BY <4>3
      <4>5. Said(<< p >>) = WordsOf(p)
        BY <1>7, <4>3, SaidAlone
      <4>6. QED
        BY <4>1, <4>2, <4>4, <4>5
    <3>3. CASE Behind(sep, text, i) # {}
      <4>1. PICK m : m = Min(Behind(sep, text, i))
        OBVIOUS
      <4>2. PICK b : b = m + Len(sep)
        OBVIOUS
      <4>3. /\ m \in i..n /\ b \in (i + 1)..(n + 1) /\ SubSeq(text, m, b - 1) = sep
            /\ \A j \in Occurrences(sep, text) : j >= i => m <= j
        BY <1>1, <1>3, <3>3, <4>1, <4>2, NextCut
      <4>4. PICK p : p = SubSeq(text, i, m - 1)
        OBVIOUS
      <4>5. g[i] = << p >> \o g[b]
        BY <3>1, <3>3, <4>1, <4>2, <4>4 DEF Cut
      <4>6. p \in parts
        <5>1. m - 1 \in Int /\ m - 1 <= n /\ 1 <= i /\ i \in Int
          BY <1>2, <4>3
        <5>2. \A j \in Occurrences(sep, text) : j >= i => j > m - 1
          <6>1. \A j \in Occurrences(sep, text) : j \in Int
            BY <1>1, <1>2 DEF Occurrences
          <6>2. QED
            BY <4>3, <6>1
        <5>3. QED
          BY <1>1, <1>3, <1>6, <4>4, <5>1, <5>2, PartLacks
      <4>7. Right(b)
        BY <1>2, <1>9, <4>3
      <4>8. << p >> \in Seq(parts) /\ g[i] \in Seq(parts)
        <5>1. << p >> \in Seq(parts)
          BY <4>6
        <5>2. QED
          BY <4>5, <4>7, <5>1, ConcatProperties
      <4>9. Said(g[i]) = WordsOf(p) \o WordsOf(SubSeq(text, b, n))
        <5>1. << p >> \in Seq(Seq(Characters)) /\ Said(<< p >>) = WordsOf(p)
          BY <1>7, <4>6, SaidAlone
        <5>2. g[b] \in Seq(Seq(Characters))
          BY <1>7, <4>7
        <5>3. Said(<< p >> \o g[b]) = Said(<< p >>) \o Said(g[b])
          BY <5>1, <5>2, SaidConcat
        <5>4. QED
          BY <4>5, <4>7, <5>1, <5>3
      <4>10. WordsOf(SubSeq(text, i, n)) = WordsOf(p) \o WordsOf(SubSeq(text, b, n))
        <5>1. /\ i \in Int /\ m \in Int /\ b \in Int /\ 1 <= i /\ i <= m /\ m < b
              /\ b <= Len(text) + 1
          <6>1. Len(sep) \in Nat \ {0}
            BY <1>3, EmptySeq
          <6>2. QED
            BY <1>1, <1>2, <4>2, <4>3, <6>1
        <5>2. SubSeq(text, m, b - 1) \in Seq(Characters \ WordChars)
          BY <1>3, <4>3
        <5>3. WordsOf(SubSeq(text, i, Len(text)))
                 = WordsOf(SubSeq(text, i, m - 1)) \o WordsOf(SubSeq(text, b, Len(text)))
          BY <5>1, <5>2, WordsAroundCut
        <5>4. QED
          BY <1>1, <4>4, <5>3
      <4>11. QED
        BY <4>8, <4>9, <4>10
    <3>4. QED
      BY <3>2, <3>3
  <2>3. QED
    BY <2>1, <2>2
<1>10. Right(1)
  <2>1. n + 1 \in N
    <3> HIDE DEF N
    <3>1. n + 1 \in Nat
      BY <1>2
    <3>2. QED
      BY <1>8, <1>9, <3>1, NaturalInduction
  <2>2. 1 \in 1..(n + 1) /\ 1 > n + 1 - (n + 1)
    BY <1>2
  <2>3. QED
    BY <2>1, <2>2
<1>11. SubSeq(text, 1, n) = text
  BY <1>1, SubSeqFull
<1>12. QED
  <2>1. SplitAt(text, sep) \in Seq(parts) /\ Said(SplitAt(text, sep)) = WordsOf(text)
    BY <1>5, <1>10, <1>11
  <2>2. QED
    BY <1>6, <1>7, <2>1

-----------------------------------------------------------------------------
(* Cutting a text at given places.                                         *)

\* A text cut at ever later places says what it said: the cut ends where the
\* last cut is, and each begins where the one before ends.
LEMMA SaidOfCuts ==
    ASSUME NEW text \in Seq(Characters), NEW cuts \in Seq(Seq(Characters)),
           NEW ends \in [0..Len(cuts) -> 0..Len(text)], ends[0] = 0,
           \A i \in 1..Len(cuts) : /\ ends[i - 1] <= ends[i]
                                   /\ cuts[i] = SubSeq(text, ends[i - 1] + 1, ends[i])
    PROVE  Said(cuts) = WordsOf(SubSeq(text, 1, ends[Len(cuts)]))
<1>1. PICK n, k : n = Len(text) /\ k = Len(cuts)
  OBVIOUS
<1>2. n \in Nat /\ k \in Nat
  BY <1>1, LenProperties
<1> DEFINE Right(j) == Said(SubSeq(cuts, 1, j)) = WordsOf(SubSeq(text, 1, ends[j]))
           N == { j \in Nat : j <= k => Right(j) }
<1>3. 0 \in N
  <2>1. PICK none : none = <<>>
    OBVIOUS
  <2>2. SubSeq(cuts, 1, 0) = none
    BY <2>1, SubSeqEmpty
  <2>3. SubSeq(text, 1, 0) = none
    BY <2>1, SubSeqEmpty
  <2>4. none \in Seq(Characters) /\ DOMAIN none = {}
    BY <2>1
  <2>5. WordsOf(none) = <<>>
    BY <2>4, WordsAre DEF ToSet
  <2>6. QED
    BY <2>1, <2>2, <2>3, <2>5, NothingSaid
<1>4. ASSUME NEW j \in Nat, j \in N PROVE j + 1 \in N
  <2> SUFFICES ASSUME j + 1 <= k PROVE Right(j + 1)
    OBVIOUS
  <2>1. PICK a, b : a = ends[j] /\ b = ends[j + 1]
    OBVIOUS
  <2>2. a \in 0..n /\ b \in 0..n /\ a <= b /\ cuts[j + 1] = SubSeq(text, a + 1, b)
    <3>1. j \in 0..k /\ j + 1 \in 1..k /\ j + 1 \in 0..k /\ (j + 1) - 1 = j
      BY <1>2
    <3>2. QED
      BY <1>1, <2>1, <3>1
  <2>3. PICK old, new, part :
           old = SubSeq(text, 1, a) /\ new = SubSeq(text, 1, b) /\ part = SubSeq(text, a + 1, b)
    OBVIOUS
  <2>4. new = old \o part
    <3>1. 1 \in 1..(n + 1) /\ a \in (1 - 1)..n /\ b \in a..n
      BY <1>2, <2>2
    <3>2. QED
      BY <1>1, <2>3, <3>1, ConcatAdjacentSubSeq
  <2>5. old \in Seq(Characters) /\ part \in Seq(Characters)
    BY <1>1, <2>2, <2>3, PartOfText
  <2>6. WordsOf(new) = WordsOf(old) \o WordsOf(part)
    BY <2>4, <2>5, WordsAre
  <2>7. SubSeq(cuts, 1, j + 1) = SubSeq(cuts, 1, j) \o << part >>
    <3>1. 1 \in 1..k /\ j + 1 \in 1..k /\ (j + 1) - 1 = j
      BY <1>2
    <3>2. SubSeq(cuts, 1, j + 1) = SubSeq(cuts, 1, (j + 1) - 1) \o << cuts[j + 1] >>
      BY <1>1, <3>1, SubSeqRecursiveSecond
    <3>3. QED
      BY <2>2, <2>3, <3>1, <3>2
  <2>8. SubSeq(cuts, 1, j) \in Seq(Seq(Characters))
    BY <1>1, <1>2, PartOfText
  <2>9. Said(SubSeq(cuts, 1, j) \o << part >>) = Said(SubSeq(cuts, 1, j)) \o Said(<< part >>)
    <3>1. << part >> \in Seq(Seq(Characters))
      BY <2>5, SaidAlone
    <3>2. QED
      BY <2>8, <3>1, SaidConcat
  <2>10. Said(<< part >>) = WordsOf(part)
    BY <2>5, SaidAlone
  <2>11. Said(SubSeq(cuts, 1, j)) = WordsOf(old)
    BY <1>2, <1>4, <2>1, <2>3
  <2>12. QED
    BY <2>1, <2>3, <2>6, <2>7, <2>9, <2>10, <2>11
<1>5. k \in N
  <2> HIDE DEF N
  <2>1. QED
    BY <1>2, <1>3, <1>4, NaturalInduction
<1>6. SubSeq(cuts, 1, k) = cuts
  BY <1>1, SubSeqFull
<1>7. Right(k)
  <2>1. k <= k
    BY <1>2
  <2>2. QED
    BY <1>5, <2>1
<1>8. QED
  BY <1>1, <1>6, <1>7

\* Where the cuts are when every `size` characters are one.
Ends(n, size) == [i \in 0..((n + size - 1) \div size) |-> IF i * size <= n THEN i * size ELSE n]

LEMMA EndsAre ==
    ASSUME NEW n \in Nat, NEW size \in Nat \ {0}
    PROVE  LET k == (n + size - 1) \div size
               ends == Ends(n, size)
           IN /\ k \in Nat /\ ends \in [0..k -> 0..n] /\ ends[0] = 0 /\ ends[k] = n
              /\ \A i \in 1..k :
                   /\ ends[i - 1] = (i - 1) * size
                   /\ ends[i - 1] + 1 <= ends[i] /\ ends[i] - ends[i - 1] <= size
                   /\ ends[i] = Min({i * size, n})
<1>1. PICK k, ends : k = (n + size - 1) \div size /\ ends = Ends(n, size)
  OBVIOUS
<1>2. k \in Nat /\ k * size <= n + size - 1 /\ n + size - 1 < k * size + size
  <2>1. n + size - 1 \in Nat
    OBVIOUS
  <2>2. PICK a, q : a = n + size - 1 /\ q = a \div size
    OBVIOUS
  <2>3. q \in Nat /\ size * q <= a /\ a < size * q + size
    BY <2>1, <2>2, Quotient
  <2>4. size * q = q * size
    BY <2>3
  <2>5. QED
    BY <1>1, <2>1, <2>2, <2>3, <2>4
<1>3. ends = [i \in 0..k |-> IF i * size <= n THEN i * size ELSE n]
  BY <1>1 DEF Ends
<1>4. ASSUME NEW i \in 0..k PROVE i * size \in Nat /\ ends[i] \in 0..n
  <2>1. i * size \in Nat
    OBVIOUS
  <2>2. PICK p : p = i * size
    OBVIOUS
  <2>3. ends[i] = IF p <= n THEN p ELSE n
    BY <1>3, <2>2
  <2>4. QED
    BY <2>1, <2>2, <2>3
<1>5. ends \in [0..k -> 0..n]
  BY <1>3, <1>4
<1>6. ends[0] = 0
  BY <1>2, <1>3
<1>7. ends[k] = n
  <2>1. PICK p \in Nat : p = k * size
    BY <1>2
  <2>2. n <= p
    BY <1>2, <2>1
  <2>3. ends[k] = IF p <= n THEN p ELSE n
    BY <1>2, <1>3, <2>1
  <2>4. QED
    BY <2>2, <2>3
<1>8. ASSUME NEW i \in 1..k
      PROVE  /\ ends[i - 1] = (i - 1) * size
             /\ ends[i - 1] + 1 <= ends[i] /\ ends[i] - ends[i - 1] <= size
             /\ ends[i] = Min({i * size, n})
  <2>1. i \in 0..k /\ i - 1 \in 0..k
    BY <1>2
  <2>2. PICK p \in Nat, q \in Nat : p = (i - 1) * size /\ q = i * size
    BY <2>1
  <2>3. q = p + size
    BY <2>2
  <2>4. p < n
    <3>1. i \in Int /\ k \in Int /\ i <= k
      BY <1>2
    <3>2. i * size <= k * size
      BY <3>1, ProductGrows
    <3>3. PICK r \in Nat : r = k * size
      BY <1>2
    <3>4. r <= n + size - 1 /\ q <= r
      BY <1>2, <2>2, <3>2, <3>3
    <3>5. QED
      BY <2>3, <3>4
  <2>5. ends[i - 1] = IF p <= n THEN p ELSE n
    BY <1>3, <2>1, <2>2
  <2>6. ends[i] = IF q <= n THEN q ELSE n
    BY <1>3, <2>1, <2>2
  <2>7. Min({q, n}) = IF q <= n THEN q ELSE n
    <3>1. {q, n} \in SUBSET Int
      OBVIOUS
    <3>2. CASE q <= n
      <4>1. q \in {q, n} /\ \A x \in {q, n} : q <= x
        BY <3>2
      <4>2. QED
        BY <3>1, <3>2, <4>1, MinIs
    <3>3. CASE ~ (q <= n)
      <4>1. n \in {q, n} /\ \A x \in {q, n} : n <= x
        BY <3>3
      <4>2. QED
        BY <3>1, <3>3, <4>1, MinIs
    <3>4. QED
      BY <3>2, <3>3
  <2>8. QED
    BY <2>2, <2>3, <2>4, <2>5, <2>6, <2>7
<1>9. QED
  BY <1>1, <1>2, <1>5, <1>6, <1>7, <1>8

\* The cuts of a text, none of them empty nor longer than the window.
LEMMA HardCutParts ==
    ASSUME NEW text \in Seq(Characters), NEW size \in Nat \ {0}
    PROVE  LET cuts == HardCut(text, size) IN
              /\ cuts \in Seq(Seq(Characters))
              /\ \A i \in DOMAIN cuts : /\ Len(cuts[i]) \in 1..size
                                        /\ ToSet(cuts[i]) \subseteq ToSet(text)
              /\ Said(cuts) = WordsOf(text)
<1>1. PICK n : n = Len(text)
  OBVIOUS
<1>2. n \in Nat
  BY <1>1, LenProperties
<1>3. PICK k, ends : k = (n + size - 1) \div size /\ ends = Ends(n, size)
  OBVIOUS
<1>4. /\ k \in Nat /\ ends \in [0..k -> 0..n] /\ ends[0] = 0 /\ ends[k] = n
      /\ \A i \in 1..k :
           /\ ends[i - 1] = (i - 1) * size
           /\ ends[i - 1] + 1 <= ends[i] /\ ends[i] - ends[i - 1] <= size
           /\ ends[i] = Min({i * size, n})
  BY <1>2, <1>3, EndsAre
<1>5. PICK cuts : cuts = HardCut(text, size)
  OBVIOUS
<1>6. cuts = [i \in 1..k |-> SubSeq(text, (i - 1) * size + 1, Min({i * size, n}))]
  BY <1>1, <1>3, <1>5 DEF HardCut
<1>7. ASSUME NEW i \in 1..k
      PROVE  /\ cuts[i] = SubSeq(text, ends[i - 1] + 1, ends[i])
             /\ cuts[i] \in Seq(Characters) /\ Len(cuts[i]) \in 1..size
             /\ ToSet(cuts[i]) \subseteq ToSet(text)
  <2>1. PICK a, b : a = ends[i - 1] /\ b = ends[i]
    OBVIOUS
  <2>2. a = (i - 1) * size /\ a + 1 <= b /\ b - a <= size /\ b = Min({i * size, n})
    BY <1>4, <2>1
  <2>3. a \in 0..n /\ b \in 0..n
    <3>1. i - 1 \in 0..k /\ i \in 0..k
      BY <1>4
    <3>2. QED
      BY <1>4, <2>1, <3>1
  <2>4. PICK c : c = SubSeq(text, a + 1, b)
    OBVIOUS
  <2>5. cuts[i] = c
    BY <1>6, <2>2, <2>4
  <2>6. /\ c \in Seq(Characters) /\ Len(c) = IF a + 1 <= b THEN b - (a + 1) + 1 ELSE 0
        /\ \A j \in 1..(b - (a + 1) + 1) : c[j] = text[(a + 1) + j - 1]
    BY <1>1, <1>2, <2>3, <2>4, PartOfText
  <2>7. Len(c) = b - a /\ Len(c) \in 1..size
    BY <2>2, <2>3, <2>6
  <2>8. ASSUME NEW j \in DOMAIN c PROVE c[j] \in ToSet(text)
    <3>1. j \in 1..(b - a)
      BY <2>6, <2>7, LenProperties
    <3>2. c[j] = text[(a + 1) + j - 1] /\ (a + 1) + j - 1 \in 1..n
      BY <1>2, <2>3, <2>6, <3>1
    <3>3. DOMAIN text = 1..n
      BY <1>1, LenProperties
    <3>4. QED
      BY <3>2, <3>3 DEF ToSet
  <2>9. ToSet(c) \subseteq ToSet(text)
    BY <2>8 DEF ToSet
  <2>10. QED
    BY <2>1, <2>4, <2>5, <2>6, <2>7, <2>9
<1>8. cuts \in Seq(Seq(Characters)) /\ Len(cuts) = k /\ DOMAIN cuts = 1..k
  <2>1. cuts \in [1..k -> Seq(Characters)]
    BY <1>6, <1>7
  <2>2. QED
    BY <1>4, <2>1
<1>9. Said(cuts) = WordsOf(text)
  <2>1. ends \in [0..Len(cuts) -> 0..Len(text)]
    BY <1>1, <1>4, <1>8
  <2>2. \A i \in 1..Len(cuts) : /\ ends[i - 1] <= ends[i]
                                /\ cuts[i] = SubSeq(text, ends[i - 1] + 1, ends[i])
    <3> SUFFICES ASSUME NEW i \in 1..k
                 PROVE  /\ ends[i - 1] <= ends[i]
                        /\ cuts[i] = SubSeq(text, ends[i - 1] + 1, ends[i])
      BY <1>8
    <3>1. i - 1 \in 0..k /\ i \in 0..k
      BY <1>4
    <3>2. ends[i - 1] \in 0..n /\ ends[i] \in 0..n /\ ends[i - 1] + 1 <= ends[i]
      BY <1>4, <3>1
    <3>3. QED
      BY <1>2, <1>7, <3>2
  <2>3. Said(cuts) = WordsOf(SubSeq(text, 1, ends[Len(cuts)]))
    BY <1>4, <1>8, <2>1, <2>2, SaidOfCuts
  <2>4. SubSeq(text, 1, n) = text
    BY <1>1, SubSeqFull
  <2>5. QED
    BY <1>4, <1>8, <2>3, <2>4
<1>10. QED
  BY <1>5, <1>7, <1>8, <1>9

-----------------------------------------------------------------------------
(* Folding a sequence.                                                     *)

\* What is folded of `s` at the places `u`, given what is without the last.
Folded(F, base, s, g, u) ==
    IF u = {} THEN base ELSE F[<< g[u \ {Max(u)}], s[Max(u)] >>]

\* The recursion by which a sequence is folded.
Folding(F, base, s, g, U) == g = [u \in U |-> Folded(F, base, s, g, u)]

LEMMA FoldingExists ==
    ASSUME NEW F, NEW base, NEW s, NEW n \in Nat
    PROVE  \E g : Folding(F, base, s, g, SUBSET (1..n))
<1> DEFINE N == { k \in Nat : \E g : Folding(F, base, s, g, SUBSET (1..k)) }
<1>1. 0 \in N
  <2>1. PICK U : U = SUBSET (1..0)
    OBVIOUS
  <2>2. \A u \in U : u = {}
    BY <2>1
  <2>3. PICK g : g = [u \in U |-> base]
    OBVIOUS
  <2>4. \A u \in U : Folded(F, base, s, g, u) = base
    BY <2>2 DEF Folded
  <2>5. Folding(F, base, s, g, U)
    BY <2>3, <2>4 DEF Folding
  <2>6. QED
    BY <2>1, <2>5
<1>2. ASSUME NEW k \in Nat, k \in N PROVE k + 1 \in N
  <2>1. PICK g : Folding(F, base, s, g, SUBSET (1..k))
    BY <1>2
  <2>2. PICK h : h = [u \in SUBSET (1..(k + 1)) |->
                        IF k + 1 \in u THEN Folded(F, base, s, g, u) ELSE g[u]]
    OBVIOUS
  <2>3. ASSUME NEW u \in SUBSET (1..(k + 1)) PROVE h[u] = Folded(F, base, s, h, u)
    <3>1. CASE u = {}
      BY <2>1, <2>2, <3>1 DEF Folding, Folded
    <3>2. CASE u # {}
      <4>1. PICK m : m = Max(u)
        OBVIOUS
      <4>2. PICK v : v = u \ {m}
        OBVIOUS
      <4>3. /\ v \in SUBSET (1..(k + 1)) /\ m \in 1..(k + 1)
            /\ k + 1 \in u => m = k + 1
        <5>1. k + 1 \in Nat
          OBVIOUS
        <5>2. QED
          BY <3>2, <4>1, <4>2, <5>1, LastPlace
      <4>4. v \in SUBSET (1..k) /\ k + 1 \notin v
        BY <4>2, <4>3
      <4>5. h[v] = g[v]
        BY <2>2, <4>3, <4>4
      <4>6. Folded(F, base, s, h, u) = Folded(F, base, s, g, u)
        BY <4>1, <4>2, <4>5 DEF Folded
      <4>7. CASE k + 1 \in u
        BY <2>2, <4>6, <4>7
      <4>8. CASE k + 1 \notin u
        <5>1. u \in SUBSET (1..k)
          BY <4>8
        <5>2. g[u] = Folded(F, base, s, g, u)
          BY <2>1, <5>1 DEF Folding
        <5>3. QED
          BY <2>2, <4>6, <4>8, <5>2
      <4>9. QED
        BY <4>7, <4>8
    <3>3. QED
      BY <3>1, <3>2
  <2>4. Folding(F, base, s, h, SUBSET (1..(k + 1)))
    BY <2>2, <2>3 DEF Folding
  <2>5. QED
    BY <2>4
<1>3. QED
  <2> HIDE DEF N
  <2>1. n \in N
    BY <1>1, <1>2, NaturalInduction
  <2>2. QED
    BY <2>1 DEF N

\* What a fold comes to is what its steps keep.
LEMMA FoldedType ==
    ASSUME NEW S, NEW X, NEW s \in Seq(X), NEW base \in S, NEW F \in [S \X X -> S]
    PROVE  \E g \in [SUBSET DOMAIN s -> S] : Folding(F, base, s, g, SUBSET DOMAIN s)
<1>1. DOMAIN s = 1..Len(s) /\ Len(s) \in Nat /\ \A i \in DOMAIN s : s[i] \in X
  BY ElementsAreFinite
<1>2. PICK n \in Nat : n = Len(s)
  BY <1>1
<1>3. PICK g : Folding(F, base, s, g, SUBSET (1..n))
  BY FoldingExists
<1> DEFINE P == { u \in SUBSET (1..n) : g[u] \in S }
<1>4. {} \in P
  <2>1. PICK none : none = {}
    OBVIOUS
  <2>2. none \in SUBSET (1..n)
    BY <2>1
  <2>3. g[none] = base
    BY <1>3, <2>1, <2>2 DEF Folding, Folded
  <2>4. QED
    BY <2>1, <2>2, <2>3
<1>5. ASSUME NEW u \in SUBSET (1..n), u # {}, \A x \in u : u \ {x} \in P PROVE u \in P
  <2>1. PICK m : m = Max(u)
    OBVIOUS
  <2>2. m \in u /\ m \in 1..n
    BY <1>5, <2>1, LastPlace
  <2>3. g[u \ {m}] \in S
    BY <1>5, <2>2
  <2>4. s[m] \in X
    BY <1>1, <1>2, <2>2
  <2>5. g[u] = F[<< g[u \ {m}], s[m] >>]
    BY <1>3, <1>5, <2>1 DEF Folding, Folded
  <2>6. << g[u \ {m}], s[m] >> \in S \X X
    BY <2>3, <2>4
  <2>7. QED
    BY <2>5, <2>6
<1>6. SUBSET (1..n) \subseteq P
  <2> HIDE DEF P
  <2>1. PICK all : all = 1..n
    OBVIOUS
  <2>2. IsFiniteSet(all)
    BY <2>1, FS_Interval
  <2>3. \A u \in SUBSET all : u # {} /\ (\A x \in u : u \ {x} \in P) => u \in P
    BY <1>5, <2>1
  <2>4. SUBSET all \subseteq P
    BY <1>4, <2>2, <2>3, SubsetInduction
  <2>5. QED
    BY <2>1, <2>4
<1>7. g \in [SUBSET (1..n) -> S]
  BY <1>3, <1>6 DEF Folding
<1>8. QED
  BY <1>1, <1>2, <1>3, <1>7

\* The places up to one, and those before it.
LEMMA PlacesUpTo ==
    ASSUME NEW k \in Nat
    PROVE  LET u == 1..(k + 1) IN u # {} /\ Max(u) = k + 1 /\ u \ {Max(u)} = 1..k
<1>1. PICK u, m : u = 1..(k + 1) /\ m = k + 1
  OBVIOUS
<1>2. m \in Nat /\ u \in SUBSET (1..m) /\ u # {} /\ m \in u
  BY <1>1
<1>3. Max(u) = m
  BY <1>2, LastPlace
<1>4. u \ {m} = 1..k
  BY <1>1
<1>5. QED
  BY <1>1, <1>2, <1>3, <1>4

-----------------------------------------------------------------------------
(* Gathering parts until the window is full.                               *)

\* The texts that fit the window, and those of them that are not blank.
Windowed(size) == { t \in Seq(Characters) : Len(t) <= size }

Worded(size) == { t \in Windowed(size) : t \notin Seq(Whitespace) }

Empty == [out |-> <<>>, buffer |-> <<>>]

Gatherings(size) == [out : Seq(Windowed(size)), buffer : Windowed(size)]

\* What a state has of the text.
Gathered(s) == Said(s.out) \o WordsOf(s.buffer)

\* A step of the fold: `next` is the split at the separators that are left.
Taken(s, part, sep, size, next) ==
    IF FitsWindow(s.buffer, sep, part, size)
    THEN [s EXCEPT !.buffer = Joined(s.buffer, sep, part)]
    ELSE IF Len(part) > size
    THEN [out |-> Flushed(s, part, size) \o next[part], buffer |-> <<>>]
    ELSE [out |-> Flushed(s, part, size), buffer |-> part]

LEMMA WindowedAre ==
    ASSUME NEW size \in Nat
    PROVE  /\ Windowed(size) \subseteq Seq(Characters)
           /\ Seq(Windowed(size)) \subseteq Seq(Seq(Characters))
           /\ <<>> \in Windowed(size)
<1>1. Windowed(size) \subseteq Seq(Characters)
  BY DEF Windowed
<1>2. Seq(Windowed(size)) \subseteq Seq(Seq(Characters))
  BY <1>1, SeqMonotonic
<1>3. <<>> \in Seq(Characters) /\ Len(<<>>) <= size
  BY EmptySeq
<1>4. QED
  BY <1>1, <1>2, <1>3 DEF Windowed

LEMMA FlushedAre ==
    ASSUME NEW size \in Nat, NEW s \in Gatherings(size), NEW part
    PROVE  /\ Flushed(s, part, size) \in Seq(Windowed(size))
           /\ Said(Flushed(s, part, size)) = Gathered(s)
<1>1. PICK o, b : o = s.out /\ b = s.buffer
  OBVIOUS
<1>2. o \in Seq(Windowed(size)) /\ b \in Windowed(size)
  BY <1>1 DEF Gatherings
<1>3. o \in Seq(Seq(Characters)) /\ b \in Seq(Characters)
  BY <1>2, WindowedAre
<1>4. Said(o) \in Seq(Characters)
  BY <1>3, SaidAre
<1>5. CASE b = <<>>
  <2>1. Flushed(s, part, size) = o
    BY <1>1, <1>5 DEF Flushed
  <2>2. ToSet(b) \subseteq Characters \ WordChars
    <3>1. DOMAIN b = {}
      BY <1>5
    <3>2. QED
      BY <3>1 DEF ToSet
  <2>3. WordsOf(b) = <<>>
    BY <1>3, <2>2, WordsAre
  <2>4. Said(o) \o <<>> = Said(o)
    BY <1>4, ConcatEmptySeq
  <2>5. QED
    BY <1>1, <1>2, <2>1, <2>3, <2>4 DEF Gathered
<1>6. CASE b # <<>>
  <2>1. Flushed(s, part, size) = Append(o, b)
    BY <1>1, <1>6 DEF Flushed
  <2>2. Append(o, b) \in Seq(Windowed(size))
    BY <1>2, AppendProperties
  <2>3. Said(Append(o, b)) = Said(o) \o WordsOf(b)
    BY <1>3, SaidAre
  <2>4. QED
    BY <1>1, <2>1, <2>2, <2>3 DEF Gathered
<1>7. QED
  BY <1>5, <1>6

\* Joining says no more than what is joined.
LEMMA JoinedAre ==
    ASSUME NEW b \in Seq(Characters), NEW part \in Seq(Characters),
           NEW sep \in Seq(Characters \ WordChars) \ {<<>>}
    PROVE  /\ Joined(b, sep, part) \in Seq(Characters)
           /\ WordsOf(Joined(b, sep, part)) = WordsOf(b) \o WordsOf(part)
<1>1. sep \in Seq(Characters) /\ WordsOf(sep) = <<>>
  <2>1. Characters \ WordChars \subseteq Characters
    OBVIOUS
  <2>2. sep \in Seq(Characters)
    BY <2>1, SeqMonotonic
  <2>3. ToSet(sep) \in SUBSET (Characters \ WordChars)
    BY ElementsAreFinite
  <2>4. QED
    BY <2>2, <2>3, WordsAre
<1>2. PICK v, w : v = WordsOf(b) /\ w = WordsOf(part)
  OBVIOUS
<1>3. v \in Seq(Characters) /\ w \in Seq(Characters)
  BY <1>2, WordsAre
<1>4. CASE b = <<>>
  <2>1. v = <<>>
    <3>1. DOMAIN b = {}
      BY <1>4
    <3>2. ToSet(b) \subseteq Characters \ WordChars
      BY <3>1 DEF ToSet
    <3>3. QED
      BY <1>2, <3>2, WordsAre
  <2>2. <<>> \o w = w
    BY <1>3, ConcatEmptySeq
  <2>3. QED
    BY <1>2, <1>4, <2>1, <2>2 DEF Joined
<1>5. CASE b # <<>>
  <2>1. PICK c : c = b \o sep
    OBVIOUS
  <2>2. c \in Seq(Characters) /\ c \o part \in Seq(Characters)
    BY <1>1, <2>1, ConcatProperties
  <2>3. WordsOf(c) = v \o <<>>
    <3>1. WordsOf(b \o sep) = WordsOf(b) \o WordsOf(sep)
      BY <1>1, WordsAre
    <3>2. QED
      BY <1>1, <1>2, <2>1, <3>1
  <2>4. v \o <<>> = v
    BY <1>3, ConcatEmptySeq
  <2>5. WordsOf(c \o part) = WordsOf(c) \o w
    BY <1>2, <2>2, WordsAre
  <2>6. Joined(b, sep, part) = c \o part
    BY <1>5, <2>1 DEF Joined
  <2>7. QED
    BY <1>2, <2>2, <2>3, <2>4, <2>5, <2>6
<1>6. QED
  BY <1>4, <1>5

\* A part that is too long is split into texts that fit and say what it says.
FitsWhenSplit(part, size, next) ==
    Len(part) > size => /\ next[part] \in Seq(Windowed(size))
                        /\ Said(next[part]) = WordsOf(part)

\* The state after a part has what the one before had, and the part.
GathersTo(s, part, after) == Gathered(after) = Gathered(s) \o WordsOf(part)

\* A step takes the whole part, and keeps to the window.
LEMMA TakenIs ==
    ASSUME NEW size \in Nat, NEW s \in Gatherings(size), NEW part \in Seq(Characters),
           NEW sep \in Seq(Characters \ WordChars) \ {<<>>}, NEW next,
           FitsWhenSplit(part, size, next)
    PROVE  /\ Taken(s, part, sep, size, next) \in Gatherings(size)
           /\ GathersTo(s, part, Taken(s, part, sep, size, next))
<1>1. PICK o, b, w : o = s.out /\ b = s.buffer /\ w = WordsOf(part)
  OBVIOUS
<1>2. s = [out |-> o, buffer |-> b] /\ o \in Seq(Windowed(size)) /\ b \in Windowed(size)
  BY <1>1 DEF Gatherings
<1>3. o \in Seq(Seq(Characters)) /\ b \in Seq(Characters) /\ <<>> \in Windowed(size)
  BY <1>2, WindowedAre
<1>4. w \in Seq(Characters)
  BY <1>1, WordsAre
<1>5. PICK f : f = Flushed(s, part, size)
  OBVIOUS
<1>6. f \in Seq(Windowed(size)) /\ Said(f) = Gathered(s) /\ f \in Seq(Seq(Characters))
  BY <1>5, FlushedAre, WindowedAre
<1>7. PICK said : said = Said(f)
  OBVIOUS
<1>8. said \in Seq(Characters)
  BY <1>6, <1>7, SaidAre
<1>9. PICK r : r = Taken(s, part, sep, size, next)
  OBVIOUS
<1>10. CASE FitsWindow(s.buffer, sep, part, size)
  <2>1. PICK j : j = Joined(b, sep, part)
    OBVIOUS
  <2>2. j \in Seq(Characters) /\ WordsOf(j) = WordsOf(b) \o w
    BY <1>1, <1>3, <2>1, JoinedAre
  <2>3. Len(j) <= size
    BY <1>1, <1>10, <2>1 DEF FitsWindow
  <2>4. r = [out |-> o, buffer |-> j]
    BY <1>1, <1>2, <1>9, <1>10, <2>1 DEF Taken
  <2>5. r \in Gatherings(size)
    BY <1>2, <2>2, <2>3, <2>4 DEF Gatherings, Windowed
  <2>6. Gathered(r) = Said(o) \o (WordsOf(b) \o w)
    BY <2>2, <2>4 DEF Gathered
  <2>7. PICK v, x : v = WordsOf(b) /\ x = Said(o)
    OBVIOUS
  <2>8. v \in Seq(Characters) /\ x \in Seq(Characters)
    BY <1>3, <2>7, WordsAre, SaidAre
  <2>9. (x \o v) \o w = x \o (v \o w)
    BY <1>4, <2>8, ConcatAssociative, SMTT(30)
  <2>10. Gathered(s) = x \o v
    BY <1>1, <2>7 DEF Gathered
  <2>11. QED
    BY <1>1, <1>9, <2>5, <2>6, <2>7, <2>9, <2>10 DEF GathersTo
<1>11. CASE ~ FitsWindow(s.buffer, sep, part, size) /\ Len(part) > size
  <2>1. PICK more : more = next[part]
    OBVIOUS
  <2>2. more \in Seq(Windowed(size)) /\ Said(more) = w /\ more \in Seq(Seq(Characters))
    BY <1>1, <1>11, <2>1, WindowedAre DEF FitsWhenSplit
  <2>3. PICK none : none = <<>>
    OBVIOUS
  <2>4. r = [out |-> f \o more, buffer |-> none]
    BY <1>5, <1>9, <1>11, <2>1, <2>3 DEF Taken
  <2>5. f \o more \in Seq(Windowed(size))
    BY <1>6, <2>2, ConcatProperties
  <2>6. r \in Gatherings(size)
    BY <1>3, <2>3, <2>4, <2>5 DEF Gatherings
  <2>7. Said(f \o more) = said \o w
    BY <1>6, <1>7, <2>2, SaidConcat
  <2>8. WordsOf(none) = <<>>
    <3>1. none \in Seq(Whitespace)
      BY <2>3
    <3>2. QED
      BY <3>1, WhitespaceIsSeparate
  <2>9. said \o w \in Seq(Characters)
    BY <1>4, <1>8, ConcatProperties
  <2>10. (said \o w) \o <<>> = said \o w
    BY <2>9, ConcatEmptySeq
  <2>11. Gathered(r) = said \o w
    BY <2>4, <2>7, <2>8, <2>10 DEF Gathered
  <2>12. QED
    BY <1>1, <1>6, <1>7, <1>9, <2>6, <2>11 DEF GathersTo
<1>12. CASE ~ FitsWindow(s.buffer, sep, part, size) /\ ~ (Len(part) > size)
  <2>1. r = [out |-> f, buffer |-> part]
    BY <1>5, <1>9, <1>12 DEF Taken
  <2>2. Len(part) <= size
    BY <1>12, LenProperties
  <2>3. r \in Gatherings(size)
    BY <1>6, <2>1, <2>2 DEF Gatherings, Windowed
  <2>4. Gathered(r) = said \o w
    BY <1>1, <1>7, <2>1 DEF Gathered
  <2>5. QED
    BY <1>1, <1>6, <1>7, <1>9, <2>3, <2>4 DEF GathersTo
<1>13. QED
  BY <1>10, <1>11, <1>12

\* The recursion of that fold.
Gathering(parts, sep, size, next, h) ==
    h = [u \in SUBSET DOMAIN parts |->
            IF u = {} THEN Empty
            ELSE Taken(h[u \ {Max(u)}], parts[Max(u)], sep, size, next)]

LEMMA GatheringExists ==
    ASSUME NEW size \in Nat, NEW parts \in Seq(Seq(Characters)),
           NEW sep \in Seq(Characters \ WordChars) \ {<<>>}, NEW next,
           \A part \in ToSet(parts) : FitsWhenSplit(part, size, next)
    PROVE  \E h : Gathering(parts, sep, size, next, h)
<1>1. PICK S, X : S = Gatherings(size) /\ X = ToSet(parts)
  OBVIOUS
<1>2. /\ DOMAIN parts = 1..Len(parts) /\ Len(parts) \in Nat
      /\ \A i \in DOMAIN parts : parts[i] \in Seq(Characters) /\ parts[i] \in X
      /\ X \subseteq Seq(Characters)
  BY <1>1, ElementsAreFinite DEF ToSet
<1>3. PICK F : F = [x \in S \X X |-> Taken(x[1], x[2], sep, size, next)]
  OBVIOUS
<1>4. F \in [S \X X -> S]
  <2>1. ASSUME NEW x \in S \X X PROVE Taken(x[1], x[2], sep, size, next) \in S
    <3>1. PICK s, part : s = x[1] /\ part = x[2]
      OBVIOUS
    <3>2. s \in Gatherings(size) /\ part \in ToSet(parts) /\ part \in Seq(Characters)
      BY <1>1, <1>2, <3>1
    <3>3. Taken(s, part, sep, size, next) \in Gatherings(size)
      BY <3>2, TakenIs
    <3>4. QED
      BY <1>1, <3>1, <3>3
  <2>2. QED
    BY <1>3, <2>1
<1>5. Empty \in S
  <2>1. PICK none : none = <<>>
    OBVIOUS
  <2>2. none \in Seq(Windowed(size)) /\ none \in Windowed(size)
    BY <2>1, WindowedAre, EmptySeq
  <2>3. QED
    BY <1>1, <2>1, <2>2 DEF Empty, Gatherings
<1>6. parts \in Seq(X)
  <2>1. parts \in [1..Len(parts) -> Seq(Characters)]
    BY LenProperties
  <2>2. PICK n \in Nat : n = Len(parts)
    BY <1>2
  <2>3. parts \in [1..n -> X]
    BY <1>2, <2>1, <2>2
  <2>4. QED
    BY <2>3
<1>7. PICK g \in [SUBSET DOMAIN parts -> S] : Folding(F, Empty, parts, g, SUBSET DOMAIN parts)
  BY <1>4, <1>5, <1>6, FoldedType
<1>8. ASSUME NEW u \in SUBSET DOMAIN parts
      PROVE  g[u] = IF u = {} THEN Empty
                    ELSE Taken(g[u \ {Max(u)}], parts[Max(u)], sep, size, next)
  <2>1. g[u] = Folded(F, Empty, parts, g, u)
    BY <1>7 DEF Folding
  <2>2. CASE u = {}
    BY <2>1, <2>2 DEF Folded
  <2>3. CASE u # {}
    <3>1. PICK m : m = Max(u)
      OBVIOUS
    <3>2. m \in u /\ u \ {m} \in SUBSET DOMAIN parts
      BY <1>2, <2>3, <3>1, LastPlace
    <3>3. PICK s, part : s = g[u \ {m}] /\ part = parts[m]
      OBVIOUS
    <3>4. s \in S /\ part \in X
      BY <1>2, <1>7, <3>2, <3>3
    <3>5. PICK x : x = << s, part >>
      OBVIOUS
    <3>6. x \in S \X X /\ x[1] = s /\ x[2] = part
      BY <3>4, <3>5
    <3>7. F[x] = Taken(s, part, sep, size, next)
      BY <1>3, <3>6
    <3>8. g[u] = F[x]
      BY <2>1, <2>3, <3>1, <3>3, <3>5 DEF Folded
    <3>9. QED
      BY <2>3, <3>1, <3>3, <3>7, <3>8
  <2>4. QED
    BY <2>2, <2>3
<1>9. Gathering(parts, sep, size, next, g)
  BY <1>7, <1>8 DEF Gathering
<1>10. QED
  BY <1>9

\* All that is gathered.
GatheredAll(parts, sep, size, next) ==
    (CHOOSE h : Gathering(parts, sep, size, next, h))[DOMAIN parts]

LEMMA GatheredAre ==
    ASSUME NEW size \in Nat, NEW parts \in Seq(Seq(Characters)),
           NEW sep \in Seq(Characters \ WordChars) \ {<<>>}, NEW next,
           \A part \in ToSet(parts) : FitsWhenSplit(part, size, next)
    PROVE  /\ GatheredAll(parts, sep, size, next) \in Gatherings(size)
           /\ Gathered(GatheredAll(parts, sep, size, next)) = Said(parts)
<1>1. PICK n : n = Len(parts)
  OBVIOUS
<1>2. /\ DOMAIN parts = 1..n /\ n \in Nat
      /\ \A i \in 1..n : parts[i] \in Seq(Characters) /\ parts[i] \in ToSet(parts)
  BY <1>1, ElementsAreFinite DEF ToSet
<1>3. PICK h : h = CHOOSE g : Gathering(parts, sep, size, next, g)
  OBVIOUS
<1>4. Gathering(parts, sep, size, next, h)
  BY <1>3, GatheringExists
<1> DEFINE Right(k) == /\ h[1..k] \in Gatherings(size)
                       /\ Gathered(h[1..k]) = Said(SubSeq(parts, 1, k))
           N == { k \in Nat : k <= n => Right(k) }
<1>5. 0 \in N
  <2>1. PICK none, nowhere : none = <<>> /\ nowhere = 1..0
    OBVIOUS
  <2>2. nowhere = {} /\ nowhere \in SUBSET DOMAIN parts
    BY <2>1
  <2>3. h[nowhere] = [out |-> none, buffer |-> none]
    BY <1>4, <2>1, <2>2 DEF Gathering, Empty
  <2>4. none \in Seq(Windowed(size)) /\ none \in Windowed(size)
    BY <2>1, WindowedAre, EmptySeq
  <2>5. h[nowhere] \in Gatherings(size)
    BY <2>3, <2>4 DEF Gatherings
  <2>6. SubSeq(parts, 1, 0) = none
    BY <2>1, SubSeqEmpty
  <2>7. Said(none) = none /\ WordsOf(none) = none
    <3>1. none \in Seq(Whitespace)
      BY <2>1
    <3>2. QED
      BY <2>1, <3>1, NothingSaid, WhitespaceIsSeparate
  <2>8. none \o none = none
    BY <2>1
  <2>9. Gathered(h[nowhere]) = none
    BY <2>3, <2>7, <2>8 DEF Gathered
  <2>10. QED
    BY <2>1, <2>5, <2>6, <2>7, <2>9
<1>6. ASSUME NEW k \in Nat, k \in N PROVE k + 1 \in N
  <2> SUFFICES ASSUME k + 1 <= n PROVE Right(k + 1)
    OBVIOUS
  <2>1. PICK u, s, part : u = 1..(k + 1) /\ s = h[1..k] /\ part = parts[k + 1]
    OBVIOUS
  <2>2. u # {} /\ Max(u) = k + 1 /\ u \ {Max(u)} = 1..k
    BY <2>1, PlacesUpTo
  <2>3. u \in SUBSET DOMAIN parts
    BY <1>2, <2>1
  <2>4. h[u] = Taken(s, part, sep, size, next)
    BY <1>4, <2>1, <2>2, <2>3 DEF Gathering
  <2>5. k + 1 \in 1..n /\ k <= n
    BY <1>2
  <2>6. part \in Seq(Characters) /\ part \in ToSet(parts)
    BY <1>2, <2>1, <2>5
  <2>7. s \in Gatherings(size) /\ Gathered(s) = Said(SubSeq(parts, 1, k))
    BY <1>6, <2>1, <2>5
  <2>8. h[u] \in Gatherings(size) /\ Gathered(h[u]) = Gathered(s) \o WordsOf(part)
    <3>1. FitsWhenSplit(part, size, next)
      BY <2>6
    <3>2. h[u] \in Gatherings(size) /\ GathersTo(s, part, h[u])
      BY <2>4, <2>6, <2>7, <3>1, TakenIs
    <3>3. QED
      BY <3>2 DEF GathersTo
  <2>9. SubSeq(parts, 1, k + 1) = SubSeq(parts, 1, k) \o << part >>
    <3>1. 1 \in 1..n /\ (k + 1) - 1 = k /\ k + 1 \in 1..n
      BY <1>2, <2>5
    <3>2. SubSeq(parts, 1, k + 1) = SubSeq(parts, 1, (k + 1) - 1) \o << parts[k + 1] >>
      BY <1>1, <3>1, SubSeqRecursiveSecond
    <3>3. QED
      BY <2>1, <3>1, <3>2
  <2>10. PICK front, one : front = SubSeq(parts, 1, k) /\ one = << part >>
    OBVIOUS
  <2>11. front \in Seq(Seq(Characters))
    BY <1>1, <1>2, <2>5, <2>10, PartOfText
  <2>12. one \in Seq(Seq(Characters)) /\ Said(one) = WordsOf(part)
    BY <2>6, <2>10, SaidAlone
  <2>13. Said(front \o one) = Said(front) \o Said(one)
    BY <2>11, <2>12, SaidConcat
  <2>14. QED
    BY <2>1, <2>7, <2>8, <2>9, <2>10, <2>12, <2>13
<1>7. n \in N
  <2> HIDE DEF N
  <2>1. QED
    BY <1>2, <1>5, <1>6, NaturalInduction
<1>8. Right(n)
  <2>1. n <= n
    BY <1>2
  <2>2. QED
    BY <1>7, <2>1
<1>9. SubSeq(parts, 1, n) = parts
  BY <1>1, SubSeqFull
<1>10. GatheredAll(parts, sep, size, next) = h[1..n]
  BY <1>2, <1>3 DEF GatheredAll
<1>11. QED
  BY <1>8, <1>9, <1>10

-----------------------------------------------------------------------------
(* Where pieces lie in their text.                                         *)

\* The part is what the text has from `x` to `y`; with `y` before `x`, nothing.
Spans(part, text, x, y) ==
    /\ part \in Seq(Characters)
    /\ x \in 1..(Len(text) + 1) /\ y \in (x - 1)..Len(text)
    /\ Len(part) = y - x + 1
    /\ \A r \in 1..Len(part) : part[r] = text[x + r - 1]

\* The pieces are what the text has from `a[i]` to `b[i]`, in order and apart, and
\* leave no word character out up to `e`.
PlacedAt(text, e, pieces, a, b) ==
    /\ pieces \in Seq(Seq(Characters))
    /\ a \in [1..Len(pieces) -> Int] /\ b \in [1..Len(pieces) -> Int]
    /\ \A i \in 1..Len(pieces) : a[i] <= b[i] /\ b[i] <= e /\ Spans(pieces[i], text, a[i], b[i])
    /\ \A i, j \in 1..Len(pieces) : i < j => b[i] + 1 < a[j]
    /\ \A p \in 1..e : text[p] \in WordChars =>
          \E i \in 1..Len(pieces) : a[i] <= p /\ p <= b[i]

Lie(text, e, pieces) == \E a, b : PlacedAt(text, e, pieces, a, b)

\* Between the two places is no word character.
Wordless(text, x, y) == \A p \in x..y : text[p] \notin WordChars

LEMMA SpansPart ==
    ASSUME NEW text \in Seq(Characters), NEW part, NEW x, NEW y, Spans(part, text, x, y),
           NEW t, NEW c, NEW d, Spans(t, part, c, d)
    PROVE  Spans(t, text, x - 1 + c, x - 1 + d)
<1>1. PICK n \in Nat : n = Len(text)
  BY LenProperties
<1>2. /\ x \in 1..(n + 1) /\ y \in (x - 1)..n /\ Len(part) = y - x + 1
      /\ \A r \in 1..(y - x + 1) : part[r] = text[x + r - 1]
  BY <1>1 DEF Spans
<1>3. /\ t \in Seq(Characters) /\ c \in 1..(y - x + 2) /\ d \in (c - 1)..(y - x + 1)
      /\ Len(t) = d - c + 1
      /\ \A r \in 1..(d - c + 1) : t[r] = part[c + r - 1]
  BY <1>2 DEF Spans
<1>4. ASSUME NEW r \in 1..(d - c + 1) PROVE t[r] = text[(x - 1 + c) + r - 1]
  <2>1. c + r - 1 \in 1..(y - x + 1) /\ x + (c + r - 1) - 1 = (x - 1 + c) + r - 1
    BY <1>2, <1>3
  <2>2. part[c + r - 1] = text[x + (c + r - 1) - 1]
    BY <1>2, <2>1
  <2>3. QED
    BY <1>3, <2>1, <2>2
<1>5. /\ x - 1 + c \in 1..(n + 1) /\ x - 1 + d \in (x - 1 + c - 1)..n
      /\ (x - 1 + d) - (x - 1 + c) + 1 = d - c + 1
  BY <1>1, <1>2, <1>3
<1>6. PICK first, last : first = x - 1 + c /\ last = x - 1 + d
  OBVIOUS
<1>7. /\ first \in 1..(n + 1) /\ last \in (first - 1)..n
      /\ Len(t) = last - first + 1
      /\ \A r \in 1..Len(t) : t[r] = text[first + r - 1]
  <2>1. Len(t) = d - c + 1
    BY <1>3
  <2>2. \A r \in 1..Len(t) : t[r] = text[first + r - 1]
    BY <1>4, <1>6, <2>1
  <2>3. QED
    BY <1>5, <1>6, <2>1, <2>2
<1>8. Spans(t, text, first, last)
  BY <1>1, <1>3, <1>7 DEF Spans
<1>9. QED
  BY <1>6, <1>8

\* What lies in a part lies in the text behind what lies before the part.
LEMMA LieConcat ==
    ASSUME NEW text \in Seq(Characters), NEW e \in Nat, NEW x, NEW y, NEW part,
           NEW first, NEW rest, Lie(text, e, first),
           Spans(part, text, x, y), Lie(part, Len(part), rest),
           e < x, Wordless(text, e + 1, x - 1),
           first = <<>> \/ rest = <<>> \/ e + 1 < x
    PROVE  Lie(text, y, first \o rest)
<1>1. PICK a, b : PlacedAt(text, e, first, a, b)
  BY DEF Lie
<1>2. PICK c, d : PlacedAt(part, Len(part), rest, c, d)
  BY DEF Lie
<1>3. PICK l \in Nat, n \in Nat, m \in Nat : l = Len(text) /\ n = Len(first) /\ m = Len(rest)
  <2>1. first \in Seq(Seq(Characters)) /\ rest \in Seq(Seq(Characters))
    BY <1>1, <1>2 DEF PlacedAt
  <2>2. Len(text) \in Nat /\ Len(first) \in Nat /\ Len(rest) \in Nat
    BY <2>1, LenProperties
  <2>3. QED
    BY <2>2
<1>4. PICK all : all = first \o rest
  OBVIOUS
<1>5. /\ all \in Seq(Seq(Characters)) /\ Len(all) = n + m
      /\ \A i \in 1..n : all[i] = first[i]
      /\ \A i \in (n + 1)..(n + m) : all[i] = rest[i - n]
  <2>1. first \in Seq(Seq(Characters)) /\ rest \in Seq(Seq(Characters))
    BY <1>1, <1>2 DEF PlacedAt
  <2>2. /\ all \in Seq(Seq(Characters)) /\ Len(all) = Len(first) + Len(rest)
        /\ \A i \in 1..(Len(first) + Len(rest)) :
              all[i] = IF i <= Len(first) THEN first[i] ELSE rest[i - Len(first)]
    BY <1>4, <2>1, ConcatProperties
  <2>3. \A i \in 1..(n + m) : all[i] = IF i <= n THEN first[i] ELSE rest[i - n]
    BY <1>3, <2>2
  <2>4. ASSUME NEW i \in 1..n PROVE all[i] = first[i]
    <3>1. i \in 1..(n + m) /\ i <= n
      OBVIOUS
    <3>2. QED
      BY <2>3, <3>1
  <2>5. ASSUME NEW i \in (n + 1)..(n + m) PROVE all[i] = rest[i - n]
    <3>1. i \in 1..(n + m) /\ ~ (i <= n)
      OBVIOUS
    <3>2. QED
      BY <2>3, <3>1
  <2>6. QED
    BY <1>3, <2>2, <2>4, <2>5
<1>6. /\ x \in 1..(l + 1) /\ y \in (x - 1)..l /\ Len(part) = y - x + 1
      /\ \A r \in 1..(y - x + 1) : part[r] = text[x + r - 1]
  BY <1>3 DEF Spans
<1>7. PICK A, B : /\ A = [i \in 1..(n + m) |-> IF i <= n THEN a[i] ELSE x - 1 + c[i - n]]
                  /\ B = [i \in 1..(n + m) |-> IF i <= n THEN b[i] ELSE x - 1 + d[i - n]]
  OBVIOUS
<1>8. /\ a \in [1..n -> Int] /\ b \in [1..n -> Int]
      /\ \A i \in 1..n : a[i] <= b[i] /\ b[i] <= e /\ Spans(first[i], text, a[i], b[i])
      /\ \A i, j \in 1..n : i < j => b[i] + 1 < a[j]
      /\ \A p \in 1..e : text[p] \in WordChars => \E i \in 1..n : a[i] <= p /\ p <= b[i]
  BY <1>1, <1>3 DEF PlacedAt
<1>9. /\ c \in [1..m -> Int] /\ d \in [1..m -> Int]
      /\ \A i \in 1..m : c[i] <= d[i] /\ d[i] <= y - x + 1 /\ Spans(rest[i], part, c[i], d[i])
      /\ \A i, j \in 1..m : i < j => d[i] + 1 < c[j]
      /\ \A p \in 1..(y - x + 1) : part[p] \in WordChars => \E i \in 1..m : c[i] <= p /\ p <= d[i]
  BY <1>2, <1>3, <1>6 DEF PlacedAt
<1>10. \A i \in 1..m : c[i] >= 1
  BY <1>9 DEF Spans
<1>11. /\ \A i \in 1..n : A[i] = a[i] /\ B[i] = b[i]
       /\ \A i \in (n + 1)..(n + m) : /\ A[i] = x - 1 + c[i - n] /\ B[i] = x - 1 + d[i - n]
                                      /\ i - n \in 1..m
  BY <1>7
<1>12. A \in [1..(n + m) -> Int] /\ B \in [1..(n + m) -> Int]
  <2>1. ASSUME NEW i \in 1..(n + m) PROVE A[i] \in Int /\ B[i] \in Int
    <3>1. CASE i <= n
      BY <1>8, <1>11, <3>1
    <3>2. CASE ~ (i <= n)
      <4>1. i \in (n + 1)..(n + m) /\ i - n \in 1..m
        BY <3>2
      <4>2. c[i - n] \in Int /\ d[i - n] \in Int
        BY <1>9, <4>1
      <4>3. QED
        BY <1>6, <1>11, <4>1, <4>2
    <3>3. QED
      BY <3>1, <3>2
  <2>2. QED
    BY <1>7, <2>1
<1>13. ASSUME NEW i \in 1..(n + m)
       PROVE  A[i] <= B[i] /\ B[i] <= y /\ Spans(all[i], text, A[i], B[i])
  <2>1. CASE i <= n
    <3>1. i \in 1..n
      BY <2>1
    <3>2. a[i] <= b[i] /\ b[i] <= e /\ Spans(first[i], text, a[i], b[i]) /\ b[i] \in Int
      BY <1>8, <3>1
    <3>3. QED
      BY <1>5, <1>6, <1>11, <3>1, <3>2
  <2>2. CASE ~ (i <= n)
    <3>1. i \in (n + 1)..(n + m) /\ i - n \in 1..m
      BY <2>2
    <3>2. PICK t, u, v : t = rest[i - n] /\ u = c[i - n] /\ v = d[i - n]
      OBVIOUS
    <3>3. u \in Int /\ v \in Int /\ u <= v /\ v <= y - x + 1 /\ Spans(t, part, u, v)
      BY <1>9, <3>1, <3>2
    <3>4. Spans(t, text, x - 1 + u, x - 1 + v)
      BY <3>3, SpansPart
    <3>5. all[i] = t /\ A[i] = x - 1 + u /\ B[i] = x - 1 + v
      BY <1>5, <1>11, <3>1, <3>2
    <3>6. x - 1 + u <= x - 1 + v /\ x - 1 + v <= y
      BY <1>6, <3>3
    <3>7. QED
      BY <3>4, <3>5, <3>6
  <2>3. QED
    BY <2>1, <2>2
<1>14. ASSUME NEW i \in 1..(n + m), NEW j \in 1..(n + m), i < j PROVE B[i] + 1 < A[j]
  <2>1. CASE j <= n
    <3>1. i \in 1..n /\ j \in 1..n
      BY <1>14, <2>1
    <3>2. QED
      BY <1>8, <1>11, <1>14, <3>1
  <2>2. CASE i <= n /\ ~ (j <= n)
    <3>1. i \in 1..n /\ j \in (n + 1)..(n + m) /\ j - n \in 1..m
      BY <2>2
    <3>2. e + 1 < x
      <4>1. n # 0 /\ m # 0
        BY <3>1
      <4>2. first # <<>> /\ rest # <<>>
        BY <1>3, <4>1
      <4>3. QED
        BY <4>2
    <3>3. B[i] \in Int /\ B[i] <= e
      BY <1>8, <1>11, <3>1
    <3>4. A[j] = x - 1 + c[j - n] /\ c[j - n] \in Int /\ c[j - n] >= 1
      BY <1>9, <1>10, <1>11, <3>1
    <3>5. QED
      BY <1>6, <3>2, <3>3, <3>4
  <2>3. CASE ~ (i <= n)
    <3>1. /\ i \in (n + 1)..(n + m) /\ j \in (n + 1)..(n + m)
          /\ i - n \in 1..m /\ j - n \in 1..m /\ i - n < j - n
      BY <1>14, <2>3
    <3>2. d[i - n] + 1 < c[j - n] /\ d[i - n] \in Int /\ c[j - n] \in Int
      BY <1>9, <3>1
    <3>3. B[i] = x - 1 + d[i - n] /\ A[j] = x - 1 + c[j - n]
      BY <1>11, <3>1
    <3>4. QED
      BY <1>6, <3>2, <3>3, SMTT(30)
  <2>4. QED
    BY <2>1, <2>2, <2>3
<1>15. ASSUME NEW p \in 1..y, text[p] \in WordChars
       PROVE  \E i \in 1..(n + m) : A[i] <= p /\ p <= B[i]
  <2>1. CASE p <= e
    <3>1. p \in 1..e
      BY <1>6, <2>1
    <3>2. PICK i \in 1..n : a[i] <= p /\ p <= b[i]
      BY <1>8, <1>15, <3>1
    <3>3. i \in 1..(n + m) /\ A[i] <= p /\ p <= B[i]
      BY <1>11, <3>2
    <3>4. QED
      BY <3>3
  <2>2. CASE e < p /\ p < x
    <3>1. p \in (e + 1)..(x - 1)
      BY <1>6, <2>2
    <3>2. QED
      BY <1>15, <3>1 DEF Wordless
  <2>3. CASE x <= p
    <3>1. PICK r : r = p - x + 1
      OBVIOUS
    <3>2. r \in 1..(y - x + 1) /\ x + r - 1 = p
      BY <1>6, <2>3, <3>1
    <3>3. part[r] \in WordChars
      BY <1>6, <1>15, <3>2
    <3>4. PICK k \in 1..m : c[k] <= r /\ r <= d[k]
      BY <1>9, <3>2, <3>3
    <3>5. PICK i : i = n + k
      OBVIOUS
    <3>6. i \in (n + 1)..(n + m) /\ i \in 1..(n + m) /\ i - n = k
      BY <3>4, <3>5
    <3>7. PICK u, v : u = c[k] /\ v = d[k]
      OBVIOUS
    <3>8. /\ A[i] = x - 1 + u /\ B[i] = x - 1 + v
          /\ u \in Int /\ v \in Int /\ u <= r /\ r <= v
      BY <1>9, <1>11, <3>4, <3>6, <3>7
    <3>10. A[i] <= p /\ p <= B[i]
      BY <1>6, <3>1, <3>2, <3>8
    <3>11. QED
      BY <3>6, <3>10
  <2>4. QED
    BY <1>6, <2>1, <2>2, <2>3
<1>16. PlacedAt(text, y, all, A, B)
  BY <1>5, <1>12, <1>13, <1>14, <1>15 DEF PlacedAt
<1>17. QED
  BY <1>4, <1>16 DEF Lie

\* A text lies in itself, and nothing lies anywhere.
LEMMA SpansItself ==
    ASSUME NEW text \in Seq(Characters)
    PROVE  /\ Spans(text, text, 1, Len(text))
           /\ \A x \in 1..(Len(text) + 1) : Spans(<<>>, text, x, x - 1)
<1>1. PICK n \in Nat : n = Len(text)
  BY LenProperties
<1>2. \A r \in 1..n : 1 + r - 1 = r
  OBVIOUS
<1>3. Spans(text, text, 1, n)
  BY <1>1, <1>2 DEF Spans
<1>4. PICK none : none = <<>>
  OBVIOUS
<1>5. none \in Seq(Characters) /\ Len(none) = 0
  BY <1>4
<1>6. ASSUME NEW x \in 1..(n + 1) PROVE Spans(none, text, x, x - 1)
  <2>1. x - 1 \in (x - 1)..n /\ (x - 1) - x + 1 = 0
    OBVIOUS
  <2>2. QED
    BY <1>1, <1>5, <2>1 DEF Spans
<1>7. QED
  BY <1>1, <1>3, <1>4, <1>6

\* A part of a text is where it is cut from.
LEMMA SpansSubSeq ==
    ASSUME NEW text \in Seq(Characters), NEW x \in Int, NEW y \in Int,
           1 <= x, x - 1 <= y, y <= Len(text)
    PROVE  Spans(SubSeq(text, x, y), text, x, y)
<1>0. PICK s : s = SubSeq(text, x, y)
  OBVIOUS
<1>1. PICK n \in Nat : n = Len(text)
  BY LenProperties
<1>2. /\ s \in Seq(Characters) /\ Len(s) = IF x <= y THEN y - x + 1 ELSE 0
      /\ \A r \in 1..(y - x + 1) : s[r] = text[x + r - 1]
  BY <1>0, <1>1, PartOfText
<1>3. Len(s) = y - x + 1 /\ x \in 1..(n + 1) /\ y \in (x - 1)..n
  BY <1>1, <1>2
<1>4. QED
  BY <1>0, <1>1, <1>2, <1>3 DEF Spans

\* Parts side by side are one.
LEMMA SpansTogether ==
    ASSUME NEW text \in Seq(Characters), NEW s, NEW t, NEW x, NEW y, NEW z,
           Spans(s, text, x, y), Spans(t, text, y + 1, z)
    PROVE  Spans(s \o t, text, x, z)
<1>1. PICK n \in Nat : n = Len(text)
  BY LenProperties
<1>2. /\ s \in Seq(Characters) /\ x \in 1..(n + 1) /\ y \in (x - 1)..n
      /\ Len(s) = y - x + 1
      /\ \A r \in 1..(y - x + 1) : s[r] = text[x + r - 1]
  BY <1>1 DEF Spans
<1>3. /\ t \in Seq(Characters) /\ z \in y..n /\ Len(t) = z - y
      /\ \A r \in 1..(z - y) : t[r] = text[y + 1 + r - 1]
  BY <1>1, <1>2 DEF Spans
<1>4. PICK u : u = s \o t
  OBVIOUS
<1>5. /\ u \in Seq(Characters) /\ Len(u) = Len(s) + Len(t)
      /\ \A i \in 1..(Len(s) + Len(t)) : u[i] = IF i <= Len(s) THEN s[i] ELSE t[i - Len(s)]
  BY <1>2, <1>3, <1>4, ConcatProperties
<1>6. PICK a, b : a = y - x + 1 /\ b = z - y
  OBVIOUS
<1>7. a \in Nat /\ b \in Nat /\ a + b = z - x + 1
  BY <1>2, <1>3, <1>6, SMTT(30)
<1>8. Len(u) = a + b /\ \A i \in 1..(a + b) : u[i] = IF i <= a THEN s[i] ELSE t[i - a]
  BY <1>2, <1>3, <1>5, <1>6
<1>9. ASSUME NEW r \in 1..(a + b) PROVE u[r] = text[x + r - 1]
  <2>1. CASE r <= a
    <3>1. r \in 1..(y - x + 1)
      BY <1>6, <1>7, <2>1
    <3>2. QED
      BY <1>2, <1>8, <2>1, <3>1
  <2>2. CASE ~ (r <= a)
    <3>1. r - a \in 1..(z - y) /\ y + 1 + (r - a) - 1 = x + r - 1
      BY <1>2, <1>3, <1>6, <1>7, <2>2
    <3>2. t[r - a] = text[y + 1 + (r - a) - 1]
      BY <1>3, <3>1
    <3>3. QED
      BY <1>8, <2>2, <3>1, <3>2
  <2>3. QED
    BY <2>1, <2>2
<1>10. z \in (x - 1)..n
  BY <1>2, <1>3
<1>11. Spans(u, text, x, z)
  BY <1>1, <1>2, <1>5, <1>7, <1>8, <1>9, <1>10 DEF Spans
<1>12. QED
  BY <1>4, <1>11

\* Nothing lies before the beginning.
LEMMA NothingLies ==
    ASSUME NEW text \in Seq(Characters)
    PROVE  Lie(text, 0, <<>>)
<1>1. PICK none, a : none = <<>> /\ a = [i \in 1..0 |-> 0]
  OBVIOUS
<1>2. none \in Seq(Seq(Characters)) /\ Len(none) = 0 /\ a \in [1..Len(none) -> Int]
  BY <1>1
<1>3. PICK nowhere : nowhere = 1..0
  OBVIOUS
<1>4. nowhere = {}
  BY <1>3
<1>5. PlacedAt(text, 0, none, a, a)
  BY <1>2, <1>3, <1>4 DEF PlacedAt
<1>6. QED
  BY <1>1, <1>5 DEF Lie

LEMMA LiesAlone ==
    ASSUME NEW text \in Seq(Characters), text # <<>>
    PROVE  Lie(text, Len(text), << text >>)
<1>0. PICK one : one = << text >>
  OBVIOUS
<1>1. PICK n \in Nat : n = Len(text)
  BY LenProperties
<1>2. n # 0 /\ one \in Seq(Seq(Characters)) /\ Len(one) = 1 /\ one[1] = text
  BY <1>0, <1>1, EmptySeq
<1>3. PICK a, b : a = [i \in 1..1 |-> 1] /\ b = [i \in 1..1 |-> n]
  OBVIOUS
<1>4. /\ a \in [1..1 -> Int] /\ b \in [1..1 -> Int]
      /\ \A i \in 1..1 : i = 1 /\ a[i] = 1 /\ b[i] = n
  BY <1>3
<1>5. Spans(text, text, 1, n)
  BY <1>1, SpansItself
<1>6. \A i \in 1..1 : a[i] <= b[i] /\ b[i] <= n /\ Spans(one[i], text, a[i], b[i])
  BY <1>2, <1>4, <1>5
<1>7. \A i, j \in 1..1 : ~ (i < j)
  OBVIOUS
<1>8. \A p \in 1..n : \E i \in 1..1 : a[i] <= p /\ p <= b[i]
  <2>1. 1 \in 1..1
    OBVIOUS
  <2>2. QED
    BY <1>4, <2>1
<1>9. PlacedAt(text, n, one, a, b)
  BY <1>2, <1>4, <1>6, <1>7, <1>8 DEF PlacedAt
<1>10. QED
  BY <1>0, <1>1, <1>9 DEF Lie

\* What lies in a text up to a place lies in it up to where the next word begins.
LEMMA LieOn ==
    ASSUME NEW text \in Seq(Characters), NEW e \in Nat, NEW f \in Nat,
           NEW pieces, Lie(text, e, pieces),
           e <= f, f <= Len(text), Wordless(text, e + 1, f)
    PROVE  Lie(text, f, pieces)
<1>1. PICK none : none = <<>>
  OBVIOUS
<1>2. none \in Seq(Characters) /\ Len(none) = 0 /\ none = <<>>
  BY <1>1
<1>3. Len(text) \in Nat /\ f + 1 \in 1..(Len(text) + 1) /\ (f + 1) - 1 = f
  BY LenProperties
<1>4. Spans(none, text, f + 1, f)
  BY <1>1, <1>3, SpansItself
<1>5. Lie(none, Len(none), none)
  <2>1. Lie(none, 0, none)
    BY <1>1, <1>2, NothingLies
  <2>2. QED
    BY <1>2, <2>1
<1>6. e < f + 1 /\ Wordless(text, e + 1, (f + 1) - 1)
  BY <1>3
<1>7. Lie(text, f, pieces \o none)
  BY <1>2, <1>4, <1>5, <1>6, LieConcat
<1>8. pieces \in Seq(Seq(Characters))
  BY DEF Lie, PlacedAt
<1>9. pieces \o none = pieces
  BY <1>1, <1>8, ConcatEmptySeq
<1>10. QED
  BY <1>7, <1>9

\* What lies in a text, and a part behind it.
LEMMA LieAppended ==
    ASSUME NEW text \in Seq(Characters), NEW e \in Nat, NEW pieces, Lie(text, e, pieces),
           NEW part, NEW x, NEW y, Spans(part, text, x, y), part # <<>>,
           e < x, Wordless(text, e + 1, x - 1), pieces = <<>> \/ e + 1 < x
    PROVE  Lie(text, y, Append(pieces, part))
<1>1. PICK one : one = << part >>
  OBVIOUS
<1>2. part \in Seq(Characters)
  BY DEF Spans
<1>3. Lie(part, Len(part), one)
  BY <1>1, <1>2, LiesAlone
<1>4. Lie(text, y, pieces \o one)
  BY <1>3, LieConcat
<1>5. pieces \in Seq(Seq(Characters))
  BY DEF Lie, PlacedAt
<1>6. pieces \o one = Append(pieces, part)
  BY <1>1, <1>2, <1>5, AppendIsConcat
<1>7. QED
  BY <1>4, <1>6

-----------------------------------------------------------------------------
(* Where the parts of a cut lie.                                           *)

\* The parts are what the text has from `from` on, with a separator between any
\* two: part `k` is from `c[k]` to `d[k]`.
CutAt(text, sep, from, parts, c, d) ==
    /\ parts \in Seq(Seq(Characters)) /\ parts # <<>>
    /\ c \in [1..Len(parts) -> Int] /\ d \in [1..Len(parts) -> Int]
    /\ c[1] = from /\ d[Len(parts)] = Len(text)
    /\ \A k \in 1..Len(parts) : Spans(parts[k], text, c[k], d[k])
    /\ \A k \in 1..(Len(parts) - 1) : Spans(sep, text, d[k] + 1, c[k + 1] - 1)

\* One part, and the parts of the rest.
LEMMA CutOnce ==
    ASSUME NEW text \in Seq(Characters), NEW sep, NEW part, NEW rest, NEW x, NEW y, NEW z,
           Spans(part, text, x, y), Spans(sep, text, y + 1, z - 1),
           NEW c, NEW d, CutAt(text, sep, z, rest, c, d)
    PROVE  \E a, b : CutAt(text, sep, x, << part >> \o rest, a, b)
<1>1. PICK one, all : one = << part >> /\ all = << part >> \o rest
  OBVIOUS
<1>2. rest \in Seq(Seq(Characters)) /\ rest # <<>> /\ part \in Seq(Characters)
  BY DEF CutAt, Spans
<1>3. PICK n \in Nat : n = Len(rest)
  BY <1>2, LenProperties
<1>4. n # 0
  BY <1>2, <1>3, EmptySeq
<1>5. /\ all \in Seq(Seq(Characters)) /\ Len(all) = n + 1 /\ all[1] = part
      /\ \A k \in 1..n : all[k + 1] = rest[k]
  <2>1. one \in Seq(Seq(Characters)) /\ Len(one) = 1 /\ one[1] = part
    BY <1>1, <1>2
  <2>2. /\ all \in Seq(Seq(Characters)) /\ Len(all) = Len(one) + Len(rest)
        /\ \A i \in 1..(Len(one) + Len(rest)) :
              all[i] = IF i <= Len(one) THEN one[i] ELSE rest[i - Len(one)]
    BY <1>1, <1>2, <2>1, ConcatProperties
  <2>3. /\ Len(all) = n + 1
        /\ \A i \in 1..(n + 1) : all[i] = IF i <= 1 THEN one[i] ELSE rest[i - 1]
    BY <1>3, <2>1, <2>2
  <2>4. all[1] = part
    BY <2>1, <2>3
  <2>5. ASSUME NEW k \in 1..n PROVE all[k + 1] = rest[k]
    <3>1. k + 1 \in 1..(n + 1) /\ ~ (k + 1 <= 1) /\ (k + 1) - 1 = k
      OBVIOUS
    <3>2. QED
      BY <2>3, <3>1
  <2>6. QED
    BY <2>2, <2>3, <2>4, <2>5
<1>6. PICK a, b : /\ a = [k \in 1..(n + 1) |-> IF k = 1 THEN x ELSE c[k - 1]]
                  /\ b = [k \in 1..(n + 1) |-> IF k = 1 THEN y ELSE d[k - 1]]
  OBVIOUS
<1>7. /\ c \in [1..n -> Int] /\ d \in [1..n -> Int] /\ c[1] = z /\ d[n] = Len(text)
      /\ \A k \in 1..n : Spans(rest[k], text, c[k], d[k])
      /\ \A k \in 1..(n - 1) : Spans(sep, text, d[k] + 1, c[k + 1] - 1)
  BY <1>3 DEF CutAt
<1>8. x \in Int /\ y \in Int
  <2>1. Len(text) \in Nat
    BY LenProperties
  <2>2. QED
    BY <2>1 DEF Spans
<1>9. a[1] = x /\ b[1] = y /\ \A k \in 1..n : a[k + 1] = c[k] /\ b[k + 1] = d[k]
  <2>1. ASSUME NEW k \in 1..n PROVE a[k + 1] = c[k] /\ b[k + 1] = d[k]
    <3>1. k + 1 \in 1..(n + 1) /\ k + 1 # 1 /\ (k + 1) - 1 = k
      OBVIOUS
    <3>2. QED
      BY <1>6, <3>1
  <2>2. 1 \in 1..(n + 1)
    OBVIOUS
  <2>3. QED
    BY <1>6, <2>1, <2>2
<1>10. a \in [1..(n + 1) -> Int] /\ b \in [1..(n + 1) -> Int]
  <2>1. ASSUME NEW k \in 1..(n + 1)
        PROVE  /\ (IF k = 1 THEN x ELSE c[k - 1]) \in Int
               /\ (IF k = 1 THEN y ELSE d[k - 1]) \in Int
    <3>1. CASE k = 1
      BY <1>8, <3>1
    <3>2. CASE k # 1
      <4>1. k - 1 \in 1..n
        BY <3>2
      <4>2. c[k - 1] \in Int /\ d[k - 1] \in Int
        BY <1>7, <4>1
      <4>3. QED
        BY <3>2, <4>2
    <3>3. QED
      BY <3>1, <3>2
  <2>2. QED
    BY <1>6, <2>1
<1>11. ASSUME NEW k \in 1..(n + 1) PROVE Spans(all[k], text, a[k], b[k])
  <2>1. CASE k = 1
    BY <1>5, <1>9, <2>1
  <2>2. CASE k # 1
    <3>1. PICK j : j = k - 1
      OBVIOUS
    <3>2. j \in 1..n /\ j + 1 = k
      BY <2>2, <3>1
    <3>3. all[k] = rest[j] /\ a[k] = c[j] /\ b[k] = d[j]
      BY <1>5, <1>9, <3>2
    <3>4. QED
      BY <1>7, <3>2, <3>3
  <2>3. QED
    BY <2>1, <2>2
<1>12. ASSUME NEW k \in 1..n PROVE Spans(sep, text, b[k] + 1, a[k + 1] - 1)
  <2>1. CASE k = 1
    <3>1. a[k + 1] = z /\ b[k] = y
      BY <1>7, <1>9, <2>1
    <3>2. QED
      BY <3>1
  <2>2. CASE k # 1
    <3>1. PICK j : j = k - 1
      OBVIOUS
    <3>2. j \in 1..(n - 1) /\ j \in 1..n /\ j + 1 = k
      BY <2>2, <3>1
    <3>3. b[k] = d[j] /\ a[k + 1] = c[j + 1]
      BY <1>9, <3>2
    <3>4. Spans(sep, text, d[j] + 1, c[j + 1] - 1)
      BY <1>7, <3>2
    <3>5. QED
      BY <3>3, <3>4
  <2>3. QED
    BY <2>1, <2>2
<1>13. b[n + 1] = Len(text)
  <2>1. n \in 1..n
    BY <1>4
  <2>2. QED
    BY <1>7, <1>9, <2>1
<1>14. all # <<>>
  BY <1>5
<1>15. PICK m : m = n + 1
  OBVIOUS
<1>16. \A k \in 1..(m - 1) : Spans(sep, text, b[k] + 1, a[k + 1] - 1)
  <2>1. m - 1 = n
    BY <1>15
  <2>2. QED
    BY <1>12, <2>1
<1>17. CutAt(text, sep, x, all, a, b)
  BY <1>5, <1>9, <1>10, <1>11, <1>13, <1>14, <1>15, <1>16 DEF CutAt
<1>18. QED
  BY <1>1, <1>17

\* SplitAt cuts a text from its first character to its last.
LEMMA SplitAtPlaces ==
    ASSUME NEW text \in Seq(Characters), NEW sep \in Seq(Characters), sep # <<>>
    PROVE  \E c, d : CutAt(text, sep, 1, SplitAt(text, sep), c, d)
<1>1. PICK n \in Nat : n = Len(text)
  BY LenProperties
<1>2. PICK g : g = CHOOSE h : h = [i \in 1..(n + 1) |-> Cut(text, sep, h, i)]
  OBVIOUS
<1>3. g = [i \in 1..(n + 1) |-> Cut(text, sep, g, i)] /\ SplitAt(text, sep) = g[1]
  BY <1>1, <1>2, CuttingExists, SplitAtUnfold
<1> DEFINE Right(i) == \E c, d : CutAt(text, sep, i, g[i], c, d)
           N == { k \in Nat : \A i \in 1..(n + 1) : i > n + 1 - k => Right(i) }
<1>4. 0 \in N
  OBVIOUS
<1>5. ASSUME NEW k \in Nat, k \in N PROVE k + 1 \in N
  <2> SUFFICES ASSUME NEW i \in 1..(n + 1), i > n + 1 - (k + 1) PROVE Right(i)
    OBVIOUS
  <2>1. CASE i > n + 1 - k
    BY <1>5, <2>1
  <2>2. CASE ~ (i > n + 1 - k)
    <3>1. g[i] = Cut(text, sep, g, i)
      BY <1>3
    <3>2. CASE Behind(sep, text, i) = {}
      <4>1. PICK p, one : p = SubSeq(text, i, n) /\ one = << p >>
        OBVIOUS
      <4>2. g[i] = one
        BY <1>1, <3>1, <3>2, <4>1 DEF Cut
      <4>3. Spans(p, text, i, n)
        BY <1>1, <4>1, SpansSubSeq
      <4>4. p \in Seq(Characters)
        BY <4>3 DEF Spans
      <4>5. one \in Seq(Seq(Characters)) /\ one # <<>> /\ Len(one) = 1 /\ one[1] = p
        BY <4>1, <4>4
      <4>6. PICK c, d : c = [j \in 1..1 |-> i] /\ d = [j \in 1..1 |-> n]
        OBVIOUS
      <4>7. /\ c \in [1..1 -> Int] /\ d \in [1..1 -> Int] /\ c[1] = i /\ d[1] = n
            /\ \A j \in 1..1 : j = 1
        BY <4>6
      <4>8. PICK nowhere : nowhere = 1..(1 - 1)
        OBVIOUS
      <4>9. nowhere = {}
        BY <4>8
      <4>10. \A j \in 1..1 : Spans(one[j], text, c[j], d[j])
        BY <4>3, <4>5, <4>7
      <4>11. CutAt(text, sep, i, one, c, d)
        BY <1>1, <4>5, <4>7, <4>8, <4>9, <4>10 DEF CutAt
      <4>12. QED
        BY <4>2, <4>11
    <3>3. CASE Behind(sep, text, i) # {}
      <4>1. PICK m : m = Min(Behind(sep, text, i))
        OBVIOUS
      <4>2. PICK b : b = m + Len(sep)
        OBVIOUS
      <4>3. m \in i..n /\ b \in (i + 1)..(n + 1) /\ SubSeq(text, m, b - 1) = sep
        BY <1>1, <3>3, <4>1, <4>2, NextCut
      <4>4. PICK p : p = SubSeq(text, i, m - 1)
        OBVIOUS
      <4>5. g[i] = << p >> \o g[b]
        BY <3>1, <3>3, <4>1, <4>2, <4>4 DEF Cut
      <4>6. Len(sep) \in Nat \ {0}
        BY EmptySeq, LenProperties
      <4>7. Spans(p, text, i, m - 1)
        BY <1>1, <4>3, <4>4, SpansSubSeq
      <4>8. Spans(sep, text, (m - 1) + 1, b - 1)
        <5>1. /\ m \in Int /\ b - 1 \in Int /\ 1 <= m /\ m - 1 <= b - 1 /\ b - 1 <= n
              /\ (m - 1) + 1 = m
          BY <4>2, <4>3, <4>6
        <5>2. QED
          BY <1>1, <4>3, <5>1, SpansSubSeq
      <4>9. PICK c, d : CutAt(text, sep, b, g[b], c, d)
        <5>1. b \in 1..(n + 1) /\ b > n + 1 - k
          BY <2>2, <4>3
        <5>2. QED
          BY <1>5, <5>1
      <4>10. \E u, v : CutAt(text, sep, i, << p >> \o g[b], u, v)
        BY <4>7, <4>8, <4>9, CutOnce
      <4>11. QED
        BY <4>5, <4>10
    <3>4. QED
      BY <3>2, <3>3
  <2>3. QED
    BY <2>1, <2>2
<1>6. Right(1)
  <2>1. n + 1 \in N
    <3> HIDE DEF N
    <3>1. QED
      BY <1>4, <1>5, NaturalInduction
  <2>2. 1 \in 1..(n + 1) /\ 1 > n + 1 - (n + 1)
    OBVIOUS
  <2>3. QED
    BY <2>1, <2>2
<1>7. QED
  BY <1>3, <1>6

\* Between two pieces, before the first and after the last is no word character.
LEMMA GapIsWordless ==
    ASSUME NEW text, NEW e, NEW pieces, NEW a, NEW b, PlacedAt(text, e, pieces, a, b),
           NEW k \in 0..Len(pieces), NEW p \in 1..e,
           k # 0 => b[k] < p, k # Len(pieces) => p < a[k + 1]
    PROVE  text[p] \notin WordChars
<1> SUFFICES ASSUME text[p] \in WordChars PROVE FALSE
  OBVIOUS
<1>1. PICK n : n = Len(pieces)
  OBVIOUS
<1>2. n \in Nat
  BY <1>1, LenProperties DEF PlacedAt
<1>3. PICK i \in 1..n : a[i] <= p /\ p <= b[i]
  BY <1>1 DEF PlacedAt
<1>4. /\ a \in [1..n -> Int] /\ b \in [1..n -> Int]
      /\ \A j \in 1..n : a[j] <= b[j]
      /\ \A j, l \in 1..n : j < l => b[j] + 1 < a[l]
  BY <1>1 DEF PlacedAt
<1>5. CASE i <= k
  <2>1. k \in 1..n /\ k # 0
    BY <1>1, <1>2, <1>3, <1>5
  <2>2. PICK u, v, w : u = b[i] /\ v = a[k] /\ w = b[k]
    OBVIOUS
  <2>3. u \in Int /\ v \in Int /\ w \in Int /\ v <= w /\ (i < k => u + 1 < v) /\ p <= u /\ w < p
    BY <1>3, <1>4, <2>1, <2>2
  <2>4. i = k => u = w
    BY <2>2
  <2>5. QED
    BY <1>2, <1>3, <1>5, <2>1, <2>3, <2>4
<1>6. CASE ~ (i <= k)
  <2>1. k # n /\ k + 1 \in 1..n /\ (i = k + 1 \/ k + 1 < i)
    BY <1>1, <1>2, <1>3, <1>6
  <2>2. PICK u, v, w : u = a[k + 1] /\ v = b[k + 1] /\ w = a[i]
    OBVIOUS
  <2>3. u \in Int /\ v \in Int /\ w \in Int /\ u <= v /\ (k + 1 < i => v + 1 < w) /\ w <= p /\ p < u
    BY <1>1, <1>3, <1>4, <2>1, <2>2
  <2>4. i = k + 1 => w = u
    BY <2>2
  <2>5. QED
    BY <1>2, <1>3, <2>1, <2>3, <2>4
<1>7. QED
  BY <1>2, <1>3, <1>5, <1>6

\* Blank pieces can be left out.
LEMMA NonBlankLies ==
    ASSUME NEW text \in Seq(Characters), NEW e \in Nat, e <= Len(text),
           NEW pieces, Lie(text, e, pieces)
    PROVE  Lie(text, e, NonBlank(pieces))
<1>1. PICK a, b : PlacedAt(text, e, pieces, a, b)
  BY DEF Lie
<1>2. pieces \in Seq(Seq(Characters))
  BY <1>1 DEF PlacedAt
<1>3. PICK n \in Nat : n = Len(pieces)
  BY <1>2, LenProperties
<1>4. /\ \A i \in 1..n : /\ a[i] \in Int /\ b[i] \in Int /\ a[i] <= b[i] /\ b[i] <= e
                         /\ Spans(pieces[i], text, a[i], b[i])
      /\ \A i, j \in 1..n : i < j => b[i] + 1 < a[j]
  BY <1>1, <1>3 DEF PlacedAt
<1>5. PICK l \in Nat : l = Len(text)
  BY LenProperties
<1>6. \A i \in 1..n : 1 <= a[i]
  BY <1>4, <1>5 DEF Spans
<1> DEFINE end(k) == IF k = 0 THEN 0 ELSE b[k]
           Right(k) == Lie(text, end(k), NonBlank(SubSeq(pieces, 1, k)))
           N == { k \in Nat : k <= n => Right(k) }
<1>7. 0 \in N
  <2>1. PICK none : none = <<>>
    OBVIOUS
  <2>2. SubSeq(pieces, 1, 0) = none
    BY <2>1, SubSeqEmpty
  <2>3. NonBlank(none) = none
    BY <1>2, <2>1, WithoutAppend DEF NonBlank
  <2>4. Lie(text, 0, none)
    BY <2>1, NothingLies
  <2>5. QED
    BY <2>2, <2>3, <2>4
<1>8. ASSUME NEW k \in Nat, k \in N PROVE k + 1 \in N
  <2> SUFFICES ASSUME k + 1 <= n PROVE Right(k + 1)
    OBVIOUS
  <2>1. PICK piece, x, y, f, old, kept :
          /\ piece = pieces[k + 1] /\ x = a[k + 1] /\ y = b[k + 1] /\ f = end(k)
          /\ old = SubSeq(pieces, 1, k) /\ kept = NonBlank(old)
    OBVIOUS
  <2>2. k + 1 \in 1..n /\ k <= n /\ k + 1 # 0
    OBVIOUS
  <2>3. Lie(text, f, kept)
    BY <1>8, <2>1, <2>2
  <2>4. /\ x \in Int /\ y \in Int /\ 1 <= x /\ x <= y /\ y <= e /\ y <= l
        /\ Spans(piece, text, x, y)
    BY <1>4, <1>5, <1>6, <2>1, <2>2
  <2>5. f \in Nat /\ f < x /\ (k = 0 \/ f + 1 < x)
    <3>1. CASE k = 0
      BY <2>1, <2>4, <3>1
    <3>2. CASE k # 0
      <4>1. k \in 1..n /\ k < k + 1
        BY <2>2, <3>2
      <4>2. f = b[k]
        BY <2>1, <3>2
      <4>3. PICK u : u = a[k]
        OBVIOUS
      <4>4. u \in Int /\ f \in Int /\ 1 <= u /\ u <= f /\ f + 1 < x
        BY <1>4, <1>6, <2>1, <2>2, <4>1, <4>2, <4>3
      <4>5. QED
        BY <2>4, <4>4
    <3>3. QED
      BY <3>1, <3>2
  <2>6. Wordless(text, f + 1, x - 1)
    <3> SUFFICES ASSUME NEW p \in (f + 1)..(x - 1) PROVE text[p] \notin WordChars
      BY DEF Wordless
    <3>1. k \in 0..Len(pieces) /\ p \in 1..e /\ f < p /\ p < x
      BY <1>3, <2>2, <2>4, <2>5
    <3>2. (k # 0 => b[k] < p) /\ (k # Len(pieces) => p < a[k + 1])
      BY <2>1, <3>1
    <3>3. QED
      BY <1>1, <3>1, <3>2, GapIsWordless
  <2>7. SubSeq(pieces, 1, k + 1) = Append(old, piece)
    <3>1. 1 \in 1..n /\ (k + 1) - 1 = k
      BY <2>2
    <3>2. SubSeq(pieces, 1, k + 1) = SubSeq(pieces, 1, (k + 1) - 1) \o << pieces[k + 1] >>
      BY <1>2, <1>3, <2>2, <3>1, SubSeqRecursiveSecond
    <3>3. old \in Seq(Seq(Characters)) /\ piece \in Seq(Characters)
      BY <1>2, <1>3, <2>1, <2>2, <2>4, PartOfText DEF Spans
    <3>4. Append(old, piece) = old \o << piece >>
      BY <3>3, AppendIsConcat
    <3>5. QED
      BY <2>1, <3>1, <3>2, <3>4
  <2>8. old \in Seq(Seq(Characters)) /\ piece \in Seq(Characters)
    BY <1>2, <1>3, <2>1, <2>2, <2>4, PartOfText DEF Spans
  <2>9. NonBlank(Append(old, piece)) = IF piece \in Seq(Whitespace) THEN kept ELSE Append(kept, piece)
    <3>1. PICK D : D = Seq(Whitespace)
      OBVIOUS
    <3>2. Without(Append(old, piece), D)
             = IF piece \in D THEN Without(old, D) ELSE Append(Without(old, D), piece)
      BY <2>8, WithoutAppend
    <3>3. kept = Without(old, D)
      BY <2>1, <3>1 DEF NonBlank
    <3>4. QED
      BY <3>1, <3>2, <3>3 DEF NonBlank
  <2>10. end(k + 1) = y
    BY <2>1, <2>2
  <2>11. CASE piece \in Seq(Whitespace)
    <3>1. Wordless(text, f + 1, y)
      <4> SUFFICES ASSUME NEW p \in (f + 1)..y PROVE text[p] \notin WordChars
        BY DEF Wordless
      <4>1. CASE p < x
        <5>1. p \in (f + 1)..(x - 1)
          BY <2>4, <2>5, <4>1
        <5>2. QED
          BY <2>6, <5>1 DEF Wordless
      <4>2. CASE ~ (p < x)
        <5>1. PICK r : r = p - x + 1
          OBVIOUS
        <5>2. r \in 1..(y - x + 1) /\ x + r - 1 = p
          BY <2>4, <2>5, <4>2, <5>1
        <5>3. Len(piece) = y - x + 1 /\ \A i \in 1..Len(piece) : piece[i] = text[x + i - 1]
          BY <2>4 DEF Spans
        <5>4. piece[r] = text[p] /\ r \in 1..Len(piece)
          BY <5>2, <5>3
        <5>5. piece[r] \in Whitespace
          BY <2>11, <5>4, ElementOfSeq
        <5>6. QED
          BY <5>4, <5>5, WhitespaceIsSeparate
      <4>3. QED
        BY <4>1, <4>2
    <3>2. y \in Nat /\ f <= y
      BY <2>4, <2>5
    <3>3. Lie(text, y, kept)
      BY <1>5, <2>3, <2>4, <2>5, <3>1, <3>2, LieOn
    <3>4. QED
      BY <2>7, <2>9, <2>10, <2>11, <3>3
  <2>12. CASE piece \notin Seq(Whitespace)
    <3>1. piece # <<>>
      <4>1. Len(piece) = y - x + 1
        BY <2>4 DEF Spans
      <4>2. QED
        BY <2>4, <4>1
    <3>2. kept = <<>> \/ f + 1 < x
      <4>1. CASE k = 0
        <5>1. PICK none : none = <<>>
          OBVIOUS
        <5>2. old = none
          BY <2>1, <4>1, <5>1, SubSeqEmpty
        <5>3. NonBlank(none) = none
          BY <1>2, <5>1, WithoutAppend DEF NonBlank
        <5>4. QED
          BY <2>1, <5>1, <5>2, <5>3
      <4>2. QED
        BY <2>5, <4>1
    <3>3. Lie(text, y, Append(kept, piece))
      BY <2>3, <2>4, <2>5, <2>6, <3>1, <3>2, LieAppended
    <3>4. QED
      BY <2>7, <2>9, <2>10, <2>12, <3>3
  <2>13. QED
    BY <2>11, <2>12
<1>9. Right(n)
  <2>1. n \in N
    <3> HIDE DEF N
    <3>1. QED
      BY <1>7, <1>8, NaturalInduction
  <2>2. n <= n
    OBVIOUS
  <2>3. QED
    BY <2>1, <2>2
<1>10. SubSeq(pieces, 1, n) = pieces
  BY <1>2, <1>3, SubSeqFull
<1>11. PICK f, kept : f = end(n) /\ kept = NonBlank(pieces)
  OBVIOUS
<1>12. f \in Nat /\ f <= e
  <2>1. CASE n = 0
    BY <1>11, <2>1
  <2>2. CASE n # 0
    <3>1. n \in 1..n /\ f = b[n]
      BY <1>11, <2>2
    <3>2. QED
      BY <1>4, <1>6, <3>1
  <2>3. QED
    BY <2>1, <2>2
<1>13. Wordless(text, f + 1, e)
  <2> SUFFICES ASSUME NEW p \in (f + 1)..e PROVE text[p] \notin WordChars
    BY DEF Wordless
  <2>1. n \in 0..Len(pieces) /\ p \in 1..e /\ f < p
    BY <1>3, <1>12
  <2>2. n # 0 => b[n] < p
    BY <1>11, <2>1
  <2>3. QED
    BY <1>1, <1>3, <2>1, <2>2, GapIsWordless
<1>14. Lie(text, f, kept)
  BY <1>9, <1>10, <1>11
<1>15. Lie(text, e, kept)
  BY <1>5, <1>12, <1>13, <1>14, LieOn
<1>16. QED
  BY <1>11, <1>15

\* What is gathered up to `f`: what is out lies before the buffer, the buffer is
\* what the text has up to `f`, and no word is between them.
Held(text, s, f) ==
    \E e \in Nat : \E x \in Int :
        /\ Lie(text, e, s.out) /\ Spans(s.buffer, text, x, f)
        /\ e < x /\ Wordless(text, e + 1, x - 1)
        /\ s.out = <<>> \/ s.buffer = <<>> \/ e + 1 < x

LEMMA FlushedLies ==
    ASSUME NEW text \in Seq(Characters), NEW s, NEW f, Held(text, s, f), NEW part, NEW size
    PROVE  f \in Nat /\ f <= Len(text) /\ Lie(text, f, Flushed(s, part, size))
<1>1. PICK e \in Nat, x \in Int :
        /\ Lie(text, e, s.out) /\ Spans(s.buffer, text, x, f)
        /\ e < x /\ Wordless(text, e + 1, x - 1)
        /\ s.out = <<>> \/ s.buffer = <<>> \/ e + 1 < x
  BY DEF Held
<1>2. PICK n \in Nat : n = Len(text)
  BY LenProperties
<1>3. /\ x \in 1..(n + 1) /\ f \in (x - 1)..n /\ Len(s.buffer) = f - x + 1
      /\ f \in Nat /\ f <= Len(text)
  BY <1>1, <1>2 DEF Spans
<1>4. CASE s.buffer = <<>>
  <2>1. f = x - 1
    <3>1. Len(s.buffer) = 0
      BY <1>4
    <3>2. QED
      BY <1>3, <3>1
  <2>2. e <= f /\ f <= Len(text) /\ Wordless(text, e + 1, f)
    BY <1>1, <1>3, <2>1
  <2>3. Lie(text, f, s.out)
    BY <1>1, <1>3, <2>2, LieOn
  <2>4. QED
    BY <1>3, <1>4, <2>3 DEF Flushed
<1>5. CASE s.buffer # <<>>
  <2>1. Lie(text, f, Append(s.out, s.buffer))
    BY <1>1, <1>5, LieAppended
  <2>2. QED
    BY <1>3, <1>5, <2>1 DEF Flushed
<1>6. QED
  BY <1>4, <1>5

\* A step of the fold holds on to where things lie: the part follows a separator
\* or is the first.
LEMMA TakenLies ==
    ASSUME NEW text \in Seq(Characters), NEW size \in Nat, NEW s \in Gatherings(size),
           NEW f, Held(text, s, f), NEW part, NEW c, NEW d, Spans(part, text, c, d),
           NEW sep \in Seq(Characters \ WordChars) \ {<<>>},
           (s = Empty /\ f = 0 /\ c = 1) \/ Spans(sep, text, f + 1, c - 1),
           NEW next, Len(part) > size => Lie(part, Len(part), next[part])
    PROVE  Held(text, Taken(s, part, sep, size, next), d)
<1>1. PICK e \in Nat, x \in Int :
        /\ Lie(text, e, s.out) /\ Spans(s.buffer, text, x, f)
        /\ e < x /\ Wordless(text, e + 1, x - 1)
        /\ s.out = <<>> \/ s.buffer = <<>> \/ e + 1 < x
  BY DEF Held
<1>2. PICK n \in Nat : n = Len(text)
  BY LenProperties
<1>3. PICK o, b : o = s.out /\ b = s.buffer
  OBVIOUS
<1>4. s = [out |-> o, buffer |-> b] /\ b \in Seq(Characters)
  BY <1>1, <1>3 DEF Gatherings, Spans
<1>5. x \in 1..(n + 1) /\ f \in (x - 1)..n /\ f \in Nat /\ Len(b) = f - x + 1
  BY <1>1, <1>2, <1>3 DEF Spans
<1>6. c \in 1..(n + 1) /\ d \in (c - 1)..n /\ c \in Int /\ d \in Nat /\ part \in Seq(Characters)
  BY <1>2 DEF Spans
<1>7. PICK m \in Nat : m = Len(sep) /\ m # 0
  BY EmptySeq, LenProperties
<1>8. ASSUME Spans(sep, text, f + 1, c - 1)
      PROVE  f + 1 < c /\ Wordless(text, f + 1, c - 1)
  <2>1. /\ m = (c - 1) - (f + 1) + 1
        /\ \A r \in 1..m : sep[r] = text[(f + 1) + r - 1]
    BY <1>7, <1>8 DEF Spans
  <2>2. f + 1 < c
    BY <1>5, <1>6, <1>7, <2>1, SMTT(30)
  <2>3. ASSUME NEW p \in (f + 1)..(c - 1) PROVE text[p] \notin WordChars
    <3>1. PICK r : r = p - f
      OBVIOUS
    <3>2. r \in 1..m /\ (f + 1) + r - 1 = p
      BY <1>5, <1>6, <2>1, <3>1
    <3>3. sep[r] = text[p]
      BY <2>1, <3>2
    <3>4. sep[r] \in Characters \ WordChars
      BY <1>7, <3>2, ElementOfSeq
    <3>5. QED
      BY <3>3, <3>4
  <2>4. QED
    BY <2>2, <2>3 DEF Wordless
<1>9. f < c /\ Wordless(text, f + 1, c - 1) /\ (s = Empty \/ f + 1 < c)
  <2>1. CASE s = Empty /\ f = 0 /\ c = 1
    <3>1. \A p \in (f + 1)..(c - 1) : FALSE
      BY <2>1
    <3>2. f < c
      BY <2>1
    <3>3. QED
      BY <2>1, <3>1, <3>2 DEF Wordless
  <2>2. CASE Spans(sep, text, f + 1, c - 1)
    BY <1>5, <1>6, <1>8, <2>2
  <2>3. QED
    BY <2>1, <2>2
<1>10. PICK out : out = Flushed(s, part, size)
  OBVIOUS
<1>11. Lie(text, f, out)
  BY <1>10, FlushedLies
<1>12. out = <<>> \/ f + 1 < c
  <2>1. s = Empty => out = <<>>
    BY <1>10 DEF Empty, Flushed
  <2>2. QED
    BY <1>9, <2>1
<1>13. PICK r : r = Taken(s, part, sep, size, next)
  OBVIOUS
<1>14. CASE FitsWindow(s.buffer, sep, part, size)
  <2>1. r = [out |-> o, buffer |-> Joined(b, sep, part)]
    BY <1>3, <1>4, <1>13, <1>14 DEF Taken
  <2>2. CASE b = <<>>
    <3>1. r.out = o /\ r.buffer = part
      BY <2>1, <2>2 DEF Joined
    <3>2. f = x - 1
      <4>1. Len(b) = 0
        BY <2>2
      <4>2. QED
        BY <1>5, <4>1
    <3>3. Wordless(text, e + 1, c - 1)
      <4> SUFFICES ASSUME NEW p \in (e + 1)..(c - 1) PROVE text[p] \notin WordChars
        BY DEF Wordless
      <4>1. CASE p <= f
        <5>1. p \in (e + 1)..(x - 1)
          BY <3>2, <4>1
        <5>2. QED
          BY <1>1, <5>1 DEF Wordless
      <4>2. CASE ~ (p <= f)
        <5>1. p \in (f + 1)..(c - 1)
          BY <1>5, <1>6, <4>2
        <5>2. QED
          BY <1>9, <5>1 DEF Wordless
      <4>3. QED
        BY <4>1, <4>2
    <3>4. e < c
      BY <1>1, <1>5, <1>6, <1>9, <3>2
    <3>5. o = <<>> \/ e + 1 < c
      <4>1. s = Empty => o = <<>>
        BY <1>3 DEF Empty
      <4>2. f + 1 < c => e + 1 < c
        BY <1>1, <1>5, <1>6, <3>2
      <4>3. QED
        BY <1>9, <4>1, <4>2
    <3>6. Held(text, r, d)
      BY <1>1, <1>3, <1>6, <3>1, <3>3, <3>4, <3>5 DEF Held
    <3>7. QED
      BY <1>13, <3>6
  <2>3. CASE b # <<>>
    <3>1. Spans(sep, text, f + 1, c - 1)
      <4>1. s # Empty
        BY <1>3, <2>3 DEF Empty
      <4>2. QED
        BY <4>1
    <3>2. PICK j : j = b \o sep
      OBVIOUS
    <3>3. Spans(j, text, x, c - 1)
      BY <1>1, <1>3, <3>1, <3>2, SpansTogether
    <3>4. Spans(j \o part, text, x, d)
      <4>1. (c - 1) + 1 = c
        BY <1>6
      <4>2. Spans(part, text, (c - 1) + 1, d)
        BY <4>1
      <4>3. QED
        BY <3>3, <4>2, SpansTogether
    <3>5. r.out = o /\ r.buffer = j \o part
      BY <2>1, <2>3, <3>2 DEF Joined
    <3>6. o = <<>> \/ e + 1 < x
      BY <1>1, <1>3, <2>3
    <3>7. Held(text, r, d)
      BY <1>1, <1>3, <3>4, <3>5, <3>6 DEF Held
    <3>8. QED
      BY <1>13, <3>7
  <2>4. QED
    BY <2>2, <2>3
<1>15. CASE ~ FitsWindow(s.buffer, sep, part, size) /\ Len(part) > size
  <2>1. PICK more, none : more = next[part] /\ none = <<>>
    OBVIOUS
  <2>2. r.out = out \o more /\ r.buffer = none
    BY <1>10, <1>13, <1>15, <2>1 DEF Taken
  <2>3. Lie(part, Len(part), more)
    BY <1>15, <2>1
  <2>4. Lie(text, d, out \o more)
    <3>1. out = <<>> \/ more = <<>> \/ f + 1 < c
      BY <1>12
    <3>2. QED
      BY <1>5, <1>9, <1>11, <2>3, <3>1, LieConcat
  <2>5. /\ d + 1 \in Int /\ d < d + 1 /\ d + 1 \in 1..(Len(text) + 1) /\ (d + 1) - 1 = d
        /\ \A p \in (d + 1)..((d + 1) - 1) : FALSE
    BY <1>2, <1>6
  <2>6. Spans(none, text, d + 1, d)
    <3>1. Spans(none, text, d + 1, (d + 1) - 1)
      BY <2>1, <2>5, SpansItself
    <3>2. QED
      BY <2>5, <3>1
  <2>7. Wordless(text, d + 1, (d + 1) - 1)
    BY <2>5 DEF Wordless
  <2>8. PICK y \in Int : y = d + 1
    BY <2>5
  <2>9. Lie(text, d, r.out) /\ Spans(r.buffer, text, y, d) /\ d < y /\ Wordless(text, d + 1, y - 1)
    BY <2>2, <2>4, <2>5, <2>6, <2>7, <2>8
  <2>10. Held(text, r, d)
    BY <1>6, <2>1, <2>2, <2>9 DEF Held
  <2>11. QED
    BY <1>13, <2>10
<1>16. CASE ~ FitsWindow(s.buffer, sep, part, size) /\ ~ (Len(part) > size)
  <2>1. r.out = out /\ r.buffer = part
    BY <1>10, <1>13, <1>16 DEF Taken
  <2>2. Held(text, r, d)
    BY <1>5, <1>6, <1>9, <1>11, <1>12, <2>1 DEF Held
  <2>3. QED
    BY <1>13, <2>2
<1>17. QED
  BY <1>14, <1>15, <1>16

\* What the fold gathers lies in the text it is gathered from.
LEMMA GatheredLie ==
    ASSUME NEW text \in Seq(Characters), NEW size \in Nat,
           NEW sep \in Seq(Characters \ WordChars) \ {<<>>},
           NEW parts, NEW c, NEW d, CutAt(text, sep, 1, parts, c, d), NEW next,
           \A part \in ToSet(parts) : FitsWhenSplit(part, size, next),
           \A part \in ToSet(parts) : Len(part) > size => Lie(part, Len(part), next[part])
    PROVE  Lie(text, Len(text), Flushed(GatheredAll(parts, sep, size, next), <<>>, size))
<1>1. PICK n : n = Len(parts)
  OBVIOUS
<1>2. /\ parts \in Seq(Seq(Characters)) /\ DOMAIN parts = 1..n /\ n \in Nat /\ n # 0
      /\ \A i \in 1..n : parts[i] \in Seq(Characters) /\ parts[i] \in ToSet(parts)
  <2>1. parts \in Seq(Seq(Characters)) /\ parts # <<>>
    BY DEF CutAt
  <2>2. n \in Nat /\ n # 0
    BY <1>1, <2>1, EmptySeq, LenProperties
  <2>3. QED
    BY <1>1, <2>1, <2>2, ElementsAreFinite DEF ToSet
<1>3. /\ c[1] = 1 /\ d[n] = Len(text)
      /\ \A k \in 1..n : Spans(parts[k], text, c[k], d[k])
      /\ \A k \in 1..(n - 1) : Spans(sep, text, d[k] + 1, c[k + 1] - 1)
  BY <1>1 DEF CutAt
<1>4. PICK h : h = CHOOSE g : Gathering(parts, sep, size, next, g)
  OBVIOUS
<1>5. Gathering(parts, sep, size, next, h)
  BY <1>2, <1>4, GatheringExists
<1> DEFINE Right(k) == /\ h[1..k] \in Gatherings(size) /\ (k = 0 => h[1..k] = Empty)
                       /\ Held(text, h[1..k], IF k = 0 THEN 0 ELSE d[k])
           N == { k \in Nat : k <= n => Right(k) }
<1>6. 0 \in N
  <2>1. PICK none, nowhere : none = <<>> /\ nowhere = 1..0
    OBVIOUS
  <2>2. nowhere = {} /\ nowhere \in SUBSET DOMAIN parts
    BY <2>1
  <2>3. h[nowhere] = Empty
    BY <1>5, <2>2 DEF Gathering
  <2>4. Empty = [out |-> none, buffer |-> none]
    BY <2>1 DEF Empty
  <2>5. none \in Seq(Windowed(size)) /\ none \in Windowed(size)
    BY <2>1, WindowedAre, EmptySeq
  <2>6. Empty \in Gatherings(size)
    BY <2>4, <2>5 DEF Gatherings
  <2>7. Held(text, Empty, 0)
    <3>1. Lie(text, 0, none)
      BY <2>1, NothingLies
    <3>2. 1 \in 1..(Len(text) + 1) /\ 1 - 1 = 0
      BY LenProperties
    <3>3. Spans(none, text, 1, 0)
      BY <2>1, <3>2, SpansItself
    <3>4. \A p \in (0 + 1)..(1 - 1) : FALSE
      OBVIOUS
    <3>5. Wordless(text, 0 + 1, 1 - 1)
      BY <3>4 DEF Wordless
    <3>6. 0 \in Nat /\ 1 \in Int /\ 0 < 1
      OBVIOUS
    <3>7. Empty.out = none /\ Empty.buffer = none
      BY <2>4
    <3>8. QED
      BY <2>1, <3>1, <3>3, <3>5, <3>6, <3>7 DEF Held
  <2>8. QED
    BY <2>1, <2>3, <2>6, <2>7
<1>7. ASSUME NEW k \in Nat, k \in N PROVE k + 1 \in N
  <2> SUFFICES ASSUME k + 1 <= n PROVE Right(k + 1)
    OBVIOUS
  <2>1. PICK u, s, part, f, x, y :
          /\ u = 1..(k + 1) /\ s = h[1..k] /\ part = parts[k + 1]
          /\ f = IF k = 0 THEN 0 ELSE d[k]
          /\ x = c[k + 1] /\ y = d[k + 1]
    OBVIOUS
  <2>2. u # {} /\ Max(u) = k + 1 /\ u \ {Max(u)} = 1..k
    BY <2>1, PlacesUpTo
  <2>3. u \in SUBSET DOMAIN parts
    BY <1>2, <2>1
  <2>4. h[u] = Taken(s, part, sep, size, next)
    BY <1>5, <2>1, <2>2, <2>3 DEF Gathering
  <2>5. k + 1 \in 1..n /\ k <= n /\ k + 1 # 0
    BY <1>2
  <2>6. part \in Seq(Characters) /\ part \in ToSet(parts)
    BY <1>2, <2>1, <2>5
  <2>7. s \in Gatherings(size) /\ (k = 0 => s = Empty) /\ Held(text, s, f)
    BY <1>7, <2>1, <2>5
  <2>8. h[u] \in Gatherings(size)
    <3>1. FitsWhenSplit(part, size, next)
      BY <2>6
    <3>2. QED
      BY <2>4, <2>6, <2>7, <3>1, TakenIs
  <2>9. Spans(part, text, x, y)
    BY <1>3, <2>1, <2>5
  <2>10. (s = Empty /\ f = 0 /\ x = 1) \/ Spans(sep, text, f + 1, x - 1)
    <3>1. CASE k = 0
      <4>1. k + 1 = 1
        BY <3>1
      <4>2. QED
        BY <1>3, <2>1, <2>7, <3>1, <4>1
    <3>2. CASE k # 0
      <4>1. k \in 1..(n - 1)
        BY <1>2, <2>5, <3>2
      <4>2. Spans(sep, text, d[k] + 1, c[k + 1] - 1)
        BY <1>3, <4>1
      <4>3. QED
        BY <2>1, <3>2, <4>2
    <3>3. QED
      BY <3>1, <3>2
  <2>11. Len(part) > size => Lie(part, Len(part), next[part])
    BY <2>6
  <2>12. Held(text, h[u], y)
    BY <2>4, <2>7, <2>9, <2>10, <2>11, TakenLies
  <2>13. QED
    BY <2>1, <2>5, <2>8, <2>12
<1>8. Right(n)
  <2>1. n \in N
    <3> HIDE DEF N
    <3>1. QED
      BY <1>2, <1>6, <1>7, NaturalInduction
  <2>2. n <= n
    BY <1>2
  <2>3. QED
    BY <2>1, <2>2
<1>9. PICK s, none : s = h[1..n] /\ none = <<>>
  OBVIOUS
<1>10. Held(text, s, Len(text))
  BY <1>2, <1>3, <1>8, <1>9
<1>11. Lie(text, Len(text), Flushed(s, none, size))
  BY <1>10, FlushedLies
<1>12. GatheredAll(parts, sep, size, next) = s
  BY <1>2, <1>4, <1>9 DEF GatheredAll
<1>13. QED
  BY <1>9, <1>11, <1>12

-----------------------------------------------------------------------------
(* Splitting at the largest unit there is.                                 *)

Usable(k, piece) == { i \in k..Len(Separators) : Occurrences(Separators[i], piece) # {} }

\* The split of a piece at the separators from `k` on, given those from the next on.
SplitPiece(size, g, k, piece) ==
    IF Len(piece) <= size THEN IF piece = <<>> THEN <<>> ELSE << piece >>
    ELSE IF Usable(k, piece) = {} THEN HardCut(piece, size)
    ELSE NonBlank(Flushed(GatheredAll(SplitAt(piece, Separators[Min(Usable(k, piece))]),
                                      Separators[Min(Usable(k, piece))], size,
                                      g[Min(Usable(k, piece)) + 1]),
                          <<>>, size))

\* The recursion of that split.
Splitting(size, g) ==
    g = [k \in 1..(Len(Separators) + 1) |->
            [piece \in Seq(Characters) |-> SplitPiece(size, g, k, piece)]]

LEMMA SplitRecursiveUnfold ==
    ASSUME NEW text, NEW size
    PROVE  SplitRecursive(text, size, Separators) = (CHOOSE g : Splitting(size, g))[1][text]
BY DEF SplitRecursive, Splitting, SplitPiece, Usable, GatheredAll, Gathering, Taken, Empty,
       FoldLeft, MapThenFoldSet

LEMMA SeparatorsAre ==
    /\ Len(Separators) \in Nat /\ DOMAIN Separators = 1..Len(Separators)
    /\ \A i \in 1..Len(Separators) :
         /\ Separators[i] \in Seq(Characters \ WordChars) \ {<<>>}
         /\ Separators[i] \in Seq(Characters) \ {<<>>}
<1>1. /\ Len(Separators) \in Nat /\ DOMAIN Separators = 1..Len(Separators)
      /\ \A i \in DOMAIN Separators : Separators[i] \in Seq(Characters \ WordChars) \ {<<>>}
  BY SeparatorsAssumption, ElementsAreFinite
<1>2. ASSUME NEW i \in 1..Len(Separators) PROVE Separators[i] \in Seq(Characters) \ {<<>>}
  <2>1. Characters \ WordChars \subseteq Characters
    OBVIOUS
  <2>2. PICK sep : sep = Separators[i]
    OBVIOUS
  <2>3. sep \in Seq(Characters \ WordChars) /\ sep # <<>>
    BY <1>1, <2>2
  <2>4. sep \in Seq(Characters)
    BY <2>1, <2>3, SeqMonotonic
  <2>5. QED
    BY <2>2, <2>3, <2>4
<1>3. QED
  BY <1>1, <1>2

\* The separator a piece is split at: the first that occurs.
LEMMA FirstUsable ==
    ASSUME NEW k \in 1..(Len(Separators) + 1), NEW piece, Usable(k, piece) # {}
    PROVE  LET m == Min(Usable(k, piece)) IN
              /\ m \in k..Len(Separators) /\ Occurrences(Separators[m], piece) # {}
              /\ \A i \in k..Len(Separators) :
                    i < m => Occurrences(Separators[i], piece) = {}
<1>1. PICK n, all : n = Len(Separators) /\ all = Usable(k, piece)
  OBVIOUS
<1>2. n \in Nat
  BY <1>1, SeparatorsAre
<1>3. all = { i \in k..n : Occurrences(Separators[i], piece) # {} }
  BY <1>1 DEF Usable
<1>4. all \in SUBSET (1..n) /\ all \in SUBSET Int
  BY <1>1, <1>2, <1>3
<1>5. IsFiniteSet(all)
  <2>1. IsFiniteSet(1..n)
    BY <1>2, FS_Interval
  <2>2. QED
    BY <1>4, <2>1, FS_Subset
<1>6. PICK m : m = Min(all)
  OBVIOUS
<1>7. m \in all /\ \A i \in all : m <= i
  BY <1>1, <1>4, <1>5, <1>6, LeastInteger
<1>8. ASSUME NEW i \in k..n, i < m PROVE Occurrences(Separators[i], piece) = {}
  <2>1. ~ (m <= i)
    BY <1>1, <1>2, <1>4, <1>7, <1>8
  <2>2. i \notin all
    BY <1>7, <2>1
  <2>3. QED
    BY <1>3, <2>2
<1>9. QED
  BY <1>1, <1>3, <1>6, <1>7, <1>8

LEMMA SplittingExists ==
    ASSUME NEW size
    PROVE  \E g : Splitting(size, g)
<1>1. PICK n : n = Len(Separators)
  OBVIOUS
<1>2. n \in Nat
  BY <1>1, SeparatorsAre
<1> DEFINE Row(g, i) == [piece \in Seq(Characters) |-> SplitPiece(size, g, i, piece)]
           Solved(g, k) == g = [i \in (n + 2 - k)..(n + 1) |-> Row(g, i)]
           N == { k \in Nat : k <= n + 1 => \E g : Solved(g, k) }
<1>3. 0 \in N
  <2>1. PICK none : none = (n + 2 - 0)..(n + 1)
    OBVIOUS
  <2>2. none = {}
    BY <1>2, <2>1
  <2>3. PICK g : g = [i \in none |-> <<>>]
    OBVIOUS
  <2>4. g = [i \in none |-> Row(g, i)]
    BY <2>2, <2>3
  <2>5. QED
    BY <2>1, <2>4
<1>4. ASSUME NEW k \in Nat, k \in N PROVE k + 1 \in N
  <2> SUFFICES ASSUME k + 1 <= n + 1 PROVE \E g : Solved(g, k + 1)
    OBVIOUS
  <2>1. PICK g : Solved(g, k)
    BY <1>2, <1>4
  <2>2. PICK a : a = n + 2 - (k + 1)
    OBVIOUS
  <2>3. /\ a \in 1..(n + 1) /\ n + 2 - k = a + 1
        /\ a..(n + 1) = {a} \cup ((a + 1)..(n + 1))
    BY <1>2, <2>2
  <2>4. PICK h : h = [i \in a..(n + 1) |-> IF i = a THEN Row(g, a) ELSE g[i]]
    OBVIOUS
  <2>5. ASSUME NEW i \in a..(n + 1) PROVE Row(h, i) = Row(g, i)
    <3>1. ASSUME NEW piece \in Seq(Characters)
          PROVE  SplitPiece(size, h, i, piece) = SplitPiece(size, g, i, piece)
      <4>1. CASE Usable(i, piece) = {}
        BY <4>1 DEF SplitPiece
      <4>2. CASE Usable(i, piece) # {}
        <5>1. PICK m : m = Min(Usable(i, piece))
          OBVIOUS
        <5>2. i \in 1..(Len(Separators) + 1)
          BY <1>1, <1>2, <2>3
        <5>3. m \in i..n
          BY <1>1, <4>2, <5>1, <5>2, FirstUsable
        <5>4. m + 1 \in a..(n + 1) /\ m + 1 # a
          BY <1>2, <2>3, <5>3
        <5>5. h[m + 1] = g[m + 1]
          BY <2>4, <5>4
        <5>6. QED
          BY <4>2, <5>1, <5>5 DEF SplitPiece
      <4>3. QED
        BY <4>1, <4>2
    <3>2. QED
      BY <3>1
  <2>6. ASSUME NEW i \in a..(n + 1) PROVE h[i] = Row(h, i)
    <3> HIDE DEF Row
    <3>1. CASE i = a
      BY <2>4, <2>5, <3>1
    <3>2. CASE i # a
      <4>1. i \in (n + 2 - k)..(n + 1)
        BY <2>3, <3>2
      <4>2. g[i] = Row(g, i)
        BY <2>1, <4>1
      <4>3. QED
        BY <2>4, <2>5, <3>2, <4>2
    <3>3. QED
      BY <3>1, <3>2
  <2>7. h = [i \in a..(n + 1) |-> Row(h, i)]
    <3> HIDE DEF Row
    <3>1. QED
      BY <2>4, <2>6
  <2>8. Solved(h, k + 1)
    BY <2>2, <2>7
  <2>9. QED
    BY <2>8
<1>5. n + 1 \in N
  <2> HIDE DEF N
  <2>1. n + 1 \in Nat
    BY <1>2
  <2>2. QED
    BY <1>3, <1>4, <2>1, NaturalInduction
<1>6. PICK g : Solved(g, n + 1)
  BY <1>2, <1>5
<1>7. n + 2 - (n + 1) = 1
  BY <1>2
<1>8. g = [i \in 1..(n + 1) |-> Row(g, i)]
  BY <1>6, <1>7
<1>9. QED
  BY <1>1, <1>8 DEF Splitting

\* None of the separators before `k` occurs in the piece.
Lacking(k, piece) ==
    \A i \in 1..Len(Separators) : i < k => Occurrences(Separators[i], piece) = {}

\* A split fits, and says what the piece says; none of it is blank unless it is
\* the piece itself; and where no word has to be cut, it lies in the piece.
SplitsWell(size, piece, r) ==
    /\ r \in Seq(Windowed(size)) /\ Said(r) = WordsOf(piece)
    /\ Len(piece) > size \/ piece \notin Seq(Whitespace) \ {<<>>} => r \in Seq(Worded(size))
    /\ NoWordIsCut(piece, size) => Lie(piece, Len(piece), r)

LEMMA ShortPiece ==
    ASSUME NEW size \in Nat, NEW piece \in Seq(Characters), Len(piece) <= size
    PROVE  SplitsWell(size, piece, IF piece = <<>> THEN <<>> ELSE << piece >>)
<1>1. Len(piece) \in Nat /\ ~ (Len(piece) > size)
  BY LenProperties
<1>2. CASE piece = <<>>
  <2>1. PICK none : none = <<>>
    OBVIOUS
  <2>2. /\ none \in Seq(Windowed(size)) /\ none \in Seq(Whitespace)
        /\ none \in Seq(Worded(size))
    BY <2>1
  <2>3. Said(none) = none /\ WordsOf(piece) = none
    BY <1>2, <2>1, <2>2, NothingSaid, WhitespaceIsSeparate
  <2>4. SplitsWell(size, piece, none)
    <3>1. Len(piece) = 0
      BY <1>2
    <3>2. Lie(piece, Len(piece), none)
      BY <2>1, <3>1, NothingLies
    <3>3. QED
      BY <1>1, <2>2, <2>3, <3>2 DEF SplitsWell
  <2>5. QED
    BY <1>2, <2>1, <2>4
<1>3. CASE piece # <<>>
  <2>1. PICK one : one = << piece >>
    OBVIOUS
  <2>2. piece \in Windowed(size)
    BY DEF Windowed
  <2>3. one \in Seq(Windowed(size))
    BY <2>1, <2>2
  <2>4. Said(one) = WordsOf(piece)
    BY <2>1, SaidAlone
  <2>5. ASSUME piece \notin Seq(Whitespace) \ {<<>>} PROVE one \in Seq(Worded(size))
    <3>1. piece \in Worded(size)
      BY <1>3, <2>2, <2>5 DEF Worded
    <3>2. QED
      BY <2>1, <3>1
  <2>6. SplitsWell(size, piece, one)
    <3>1. Lie(piece, Len(piece), one)
      BY <1>3, <2>1, LiesAlone
    <3>2. QED
      BY <1>1, <2>3, <2>4, <2>5, <3>1 DEF SplitsWell
  <2>7. QED
    BY <1>3, <2>1, <2>6
<1>4. QED
  BY <1>2, <1>3

\* A text that has no separator has no white space.
LEMMA NoSeparatorNoSpace ==
    ASSUME NEW piece \in Seq(Characters), Lacking(Len(Separators) + 1, piece)
    PROVE  ToSet(piece) \cap Whitespace = {}
<1> SUFFICES ASSUME NEW c \in Whitespace, c \in ToSet(piece) PROVE FALSE
  OBVIOUS
<1>1. PICK one : one = << c >>
  OBVIOUS
<1>2. one \in ToSet(Separators)
  BY <1>1, SeparatorsAssumption
<1>3. PICK j \in 1..Len(Separators) : Separators[j] = one
  BY <1>2, SeparatorsAre DEF ToSet
<1>4. PICK i \in DOMAIN piece : piece[i] = c
  BY DEF ToSet
<1>5. PICK n : n = Len(piece)
  OBVIOUS
<1>6. n \in Nat /\ i \in 1..n /\ Len(one) = 1
  BY <1>1, <1>5, LenProperties
<1>7. SubSeq(piece, i, i) = one
  <2>1. PICK s : s = SubSeq(piece, i, i)
    OBVIOUS
  <2>2. /\ s \in Seq(Characters) /\ Len(s) = 1 /\ s[1] = piece[i]
    <3>1. PICK e \in Int : e = i
      BY <1>6
    <3>2. i \in Int /\ 1 <= i /\ e <= Len(piece)
      BY <1>5, <1>6, <3>1
    <3>3. s = SubSeq(piece, i, e)
      BY <2>1, <3>1
    <3>4. /\ s \in Seq(Characters) /\ Len(s) = IF i <= e THEN e - i + 1 ELSE 0
          /\ \A k \in 1..(e - i + 1) : s[k] = piece[i + k - 1]
      BY <3>2, <3>3, PartOfText, SMTT(30)
    <3>5. i <= e /\ e - i + 1 = 1 /\ i + 1 - 1 = i
      BY <1>6, <3>1
    <3>6. s[1] = piece[i + 1 - 1]
      BY <3>4, <3>5
    <3>7. QED
      BY <3>4, <3>5, <3>6
  <2>3. one \in Seq(Characters) /\ one[1] = c
    <3>1. Whitespace \subseteq Characters
      BY WhitespaceIsSeparate
    <3>2. QED
      BY <1>1, <3>1
  <2>4. \A k \in 1..Len(s) : s[k] = one[k]
    BY <1>4, <2>2, <2>3
  <2>5. s = one
    BY <1>6, <2>2, <2>3, <2>4, SeqEqual
  <2>6. QED
    BY <2>1, <2>5
<1>8. i \in Occurrences(one, piece)
  <2>1. i + Len(one) - 1 = i /\ i \in 1..(n - Len(one) + 1)
    BY <1>6
  <2>2. QED
    BY <1>5, <1>7, <2>1 DEF Occurrences, OccursAt
<1>9. j < Len(Separators) + 1
  BY SeparatorsAre
<1>10. QED
  BY <1>3, <1>8, <1>9 DEF Lacking

LEMMA CutPiece ==
    ASSUME NEW size \in Nat \ {0}, NEW piece \in Seq(Characters), Len(piece) > size,
           Lacking(Len(Separators) + 1, piece)
    PROVE  SplitsWell(size, piece, HardCut(piece, size))
<1>1. PICK cuts : cuts = HardCut(piece, size)
  OBVIOUS
<1>2. /\ cuts \in Seq(Seq(Characters)) /\ Said(cuts) = WordsOf(piece)
      /\ \A i \in DOMAIN cuts : /\ Len(cuts[i]) \in 1..size
                                /\ ToSet(cuts[i]) \subseteq ToSet(piece)
  BY <1>1, HardCutParts
<1>3. PICK n \in Nat : n = Len(cuts)
  BY <1>2, LenProperties
<1>4. cuts \in [1..n -> Seq(Characters)] /\ DOMAIN cuts = 1..n
  BY <1>2, <1>3, LenProperties
<1>5. ASSUME NEW i \in 1..n PROVE cuts[i] \in Worded(size)
  <2>1. PICK c : c = cuts[i]
    OBVIOUS
  <2>2. c \in Seq(Characters) /\ Len(c) \in 1..size /\ ToSet(c) \subseteq ToSet(piece)
    BY <1>2, <1>4, <2>1
  <2>3. c \notin Seq(Whitespace)
    <3> SUFFICES ASSUME c \in Seq(Whitespace) PROVE FALSE
      OBVIOUS
    <3>1. 1 \in DOMAIN c /\ c[1] \in Whitespace
      BY <2>2
    <3>2. c[1] \in ToSet(c)
      BY <3>1 DEF ToSet
    <3>3. QED
      BY <2>2, <3>1, <3>2, NoSeparatorNoSpace
  <2>4. Len(c) <= size
    BY <2>2
  <2>5. QED
    BY <2>1, <2>2, <2>3, <2>4 DEF Worded, Windowed
<1>6. cuts \in Seq(Worded(size))
  <2>1. cuts \in [1..n -> Worded(size)]
    BY <1>4, <1>5
  <2>2. QED
    BY <2>1
<1>7. Worded(size) \subseteq Windowed(size)
  BY DEF Worded
<1>8. cuts \in Seq(Windowed(size))
  BY <1>6, <1>7, SeqMonotonic
<1>9. ~ NoWordIsCut(piece, size)
  <2> SUFFICES ASSUME NoWordIsCut(piece, size) PROVE FALSE
    OBVIOUS
  <2>1. PICK l \in Nat : l = Len(piece)
    BY LenProperties
  <2>2. 1 \in 1..(Len(piece) - size)
    BY <2>1
  <2>3. PICK j \in 1..(1 + size) : piece[j] \in Whitespace
    BY <2>2 DEF NoWordIsCut
  <2>4. j \in DOMAIN piece
    BY <2>1, <2>3
  <2>5. piece[j] \in ToSet(piece)
    BY <2>4 DEF ToSet
  <2>6. QED
    BY <2>3, <2>5, NoSeparatorNoSpace
<1>10. QED
  BY <1>1, <1>2, <1>6, <1>8, <1>9 DEF SplitsWell

\* What a piece lacks and the separator it is cut at, its parts lack.
LEMMA PartsAreLacking ==
    ASSUME NEW piece \in Seq(Characters), NEW k \in 1..(Len(Separators) + 1),
           Lacking(k, piece), Usable(k, piece) # {}
    PROVE  LET m == Min(Usable(k, piece)) IN
              /\ m \in k..Len(Separators)
              /\ \A part \in PartsOf(piece, Separators[m]) : Lacking(m + 1, part)
<1>1. PICK m : m = Min(Usable(k, piece))
  OBVIOUS
<1>2. /\ m \in k..Len(Separators)
      /\ \A i \in k..Len(Separators) : i < m => Occurrences(Separators[i], piece) = {}
  BY <1>1, FirstUsable
<1>3. PICK n \in Nat : n = Len(Separators)
  BY SeparatorsAre
<1>4. ASSUME NEW part \in PartsOf(piece, Separators[m]), NEW i \in 1..n, i < m + 1
      PROVE  Occurrences(Separators[i], part) = {}
  <2>1. /\ Occurrences(Separators[m], part) = {}
        /\ \A o \in Seq(Characters) \ {<<>>} :
             Occurrences(o, piece) = {} => Occurrences(o, part) = {}
    BY DEF PartsOf
  <2>2. CASE i = m
    BY <2>1, <2>2
  <2>3. CASE i # m
    <3>1. i < m /\ i \in 1..Len(Separators)
      BY <1>2, <1>3, <1>4, <2>3
    <3>2. Occurrences(Separators[i], piece) = {}
      <4>1. CASE i < k
        BY <3>1, <4>1 DEF Lacking
      <4>2. CASE ~ (i < k)
        <5>1. i \in k..Len(Separators)
          BY <1>3, <4>2
        <5>2. QED
          BY <1>2, <3>1, <5>1
      <4>3. QED
        BY <4>1, <4>2
    <3>3. Separators[i] \in Seq(Characters) \ {<<>>}
      BY <3>1, SeparatorsAre
    <3>4. QED
      BY <2>1, <3>2, <3>3
  <2>4. QED
    BY <2>2, <2>3
<1>5. QED
  BY <1>1, <1>2, <1>3, <1>4 DEF Lacking

\* What need not be cut in a piece need not be in a part of it.
LEMMA PartIsNotCut ==
    ASSUME NEW text \in Seq(Characters), NEW size \in Nat, NoWordIsCut(text, size),
           NEW part, NEW x, NEW y, Spans(part, text, x, y)
    PROVE  NoWordIsCut(part, size)
<1>1. PICK n \in Nat : n = Len(text)
  BY LenProperties
<1>2. /\ x \in 1..(n + 1) /\ y \in (x - 1)..n /\ Len(part) = y - x + 1
      /\ \A r \in 1..(y - x + 1) : part[r] = text[x + r - 1]
  BY <1>1 DEF Spans
<1>3. ASSUME NEW i \in 1..(Len(part) - size)
      PROVE  \E j \in i..(i + size) : part[j] \in Whitespace
  <2>1. PICK k : k = x + i - 1
    OBVIOUS
  <2>2. k \in 1..(n - size) /\ i \in Int
    BY <1>2, <1>3, <2>1
  <2>3. PICK l \in k..(k + size) : text[l] \in Whitespace
    BY <1>1, <2>2 DEF NoWordIsCut
  <2>4. PICK j : j = l - x + 1
    OBVIOUS
  <2>5. j \in i..(i + size) /\ j \in 1..(y - x + 1) /\ x + j - 1 = l
    BY <1>2, <1>3, <2>1, <2>2, <2>3, <2>4
  <2>6. part[j] \in Whitespace
    BY <1>2, <2>3, <2>5
  <2>7. QED
    BY <2>5, <2>6
<1>4. QED
  BY <1>3 DEF NoWordIsCut

\* A piece is split well when its parts are.
LEMMA GatheredPiece ==
    ASSUME NEW size \in Nat \ {0}, NEW piece \in Seq(Characters), Len(piece) > size,
           NEW sep \in Seq(Characters \ WordChars) \ {<<>>}, NEW next,
           \A part \in PartsOf(piece, sep) : SplitsWell(size, part, next[part])
    PROVE  SplitsWell(size, piece,
                      NonBlank(Flushed(GatheredAll(SplitAt(piece, sep), sep, size, next),
                                       <<>>, size)))
<1>1. PICK parts : parts = SplitAt(piece, sep)
  OBVIOUS
<1>2. /\ parts \in Seq(PartsOf(piece, sep)) /\ parts \in Seq(Seq(Characters))
      /\ Said(parts) = WordsOf(piece)
  BY <1>1, SplitAtParts
<1>3. ASSUME NEW part \in ToSet(parts) PROVE FitsWhenSplit(part, size, next)
  <2>1. ToSet(parts) \in SUBSET PartsOf(piece, sep)
    BY <1>2, ElementsAreFinite
  <2>2. part \in PartsOf(piece, sep)
    BY <2>1
  <2>3. SplitsWell(size, part, next[part])
    BY <2>2
  <2>4. QED
    BY <2>3 DEF SplitsWell, FitsWhenSplit
<1>4. PICK s : s = GatheredAll(parts, sep, size, next)
  OBVIOUS
<1>5. size \in Nat
  OBVIOUS
<1>6. s \in Gatherings(size) /\ Gathered(s) = Said(parts)
  BY <1>2, <1>3, <1>4, <1>5, GatheredAre
<1>7. PICK f : f = Flushed(s, <<>>, size)
  OBVIOUS
<1>8. f \in Seq(Windowed(size)) /\ Said(f) = WordsOf(piece)
  <2>1. PICK none : none = <<>>
    OBVIOUS
  <2>2. Flushed(s, none, size) \in Seq(Windowed(size)) /\ Said(Flushed(s, none, size)) = Gathered(s)
    BY <1>5, <1>6, FlushedAre
  <2>3. QED
    BY <1>2, <1>6, <1>7, <2>1, <2>2
<1>9. f \in Seq(Seq(Characters))
  BY <1>5, <1>8, WindowedAre
<1>10. PICK r : r = NonBlank(f)
  OBVIOUS
<1>11. Said(r) = WordsOf(piece)
  BY <1>8, <1>9, <1>10, SaidNonBlank
<1>12. r \in Seq(Windowed(size) \ Seq(Whitespace))
  BY <1>8, <1>10, WithoutElements DEF NonBlank
<1>13. Windowed(size) \ Seq(Whitespace) = Worded(size)
  BY DEF Worded
<1>14. Windowed(size) \ Seq(Whitespace) \subseteq Windowed(size)
  OBVIOUS
<1>15. r \in Seq(Windowed(size))
  BY <1>12, <1>14, SeqMonotonic
<1>16. r \in Seq(Worded(size))
  BY <1>12, <1>13
<1>17. ASSUME NoWordIsCut(piece, size) PROVE Lie(piece, Len(piece), r)
  <2>1. sep \in Seq(Characters) /\ sep # <<>>
    <3>1. Characters \ WordChars \subseteq Characters
      OBVIOUS
    <3>2. QED
      BY <3>1, SeqMonotonic
  <2>2. PICK c, d : CutAt(piece, sep, 1, parts, c, d)
    BY <1>1, <2>1, SplitAtPlaces
  <2>3. ASSUME NEW part \in ToSet(parts), Len(part) > size
        PROVE  Lie(part, Len(part), next[part])
    <3>1. PICK k \in DOMAIN parts : parts[k] = part
      BY DEF ToSet
    <3>2. k \in 1..Len(parts)
      BY <1>2, <3>1, LenProperties
    <3>3. Spans(part, piece, c[k], d[k])
      BY <2>2, <3>1, <3>2 DEF CutAt
    <3>4. NoWordIsCut(part, size)
      BY <1>5, <1>17, <3>3, PartIsNotCut
    <3>5. part \in PartsOf(piece, sep)
      <4>1. ToSet(parts) \in SUBSET PartsOf(piece, sep)
        BY <1>2, ElementsAreFinite
      <4>2. QED
        BY <4>1
    <3>6. QED
      BY <3>4, <3>5 DEF SplitsWell
  <2>4. PICK none : none = <<>>
    OBVIOUS
  <2>5. Lie(piece, Len(piece), Flushed(GatheredAll(parts, sep, size, next), <<>>, size))
    BY <1>3, <1>5, <2>2, <2>3, GatheredLie
  <2>6. Lie(piece, Len(piece), f)
    BY <1>4, <1>7, <2>5
  <2>7. Len(piece) \in Nat /\ Len(piece) <= Len(piece)
    BY LenProperties
  <2>8. QED
    BY <1>10, <2>6, <2>7, NonBlankLies
<1>18. SplitsWell(size, piece, r)
  BY <1>11, <1>15, <1>16, <1>17 DEF SplitsWell
<1>19. QED
  BY <1>1, <1>4, <1>7, <1>10, <1>18

\* Whatever separators are left, a piece that lacks the others is split well.
LEMMA SplitRecursiveIsRight ==
    ASSUME NEW size \in Nat \ {0}, NEW text \in Seq(Characters)
    PROVE  SplitsWell(size, text, SplitRecursive(text, size, Separators))
<1>1. PICK n : n = Len(Separators)
  OBVIOUS
<1>2. n \in Nat
  BY <1>1, SeparatorsAre
<1>3. PICK g : g = CHOOSE h : Splitting(size, h)
  OBVIOUS
<1>4. /\ \A k \in 1..(n + 1) : \A piece \in Seq(Characters) :
            g[k][piece] = SplitPiece(size, g, k, piece)
      /\ SplitRecursive(text, size, Separators) = g[1][text]
  <2>1. Splitting(size, g)
    BY <1>3, SplittingExists
  <2>2. \A k \in 1..(n + 1) :
           g[k] = [piece \in Seq(Characters) |-> SplitPiece(size, g, k, piece)]
    BY <1>1, <2>1 DEF Splitting
  <2>3. ASSUME NEW k \in 1..(n + 1), NEW piece \in Seq(Characters)
        PROVE  g[k][piece] = SplitPiece(size, g, k, piece)
    BY <2>2
  <2>4. SplitRecursive(text, size, Separators) = g[1][text]
    BY <1>3, SplitRecursiveUnfold
  <2>5. QED
    BY <2>3, <2>4
<1> DEFINE Right(k) == \A piece \in Seq(Characters) :
                          Lacking(k, piece) => SplitsWell(size, piece, g[k][piece])
           N == { j \in Nat : \A k \in 1..(n + 1) : k > n + 1 - j => Right(k) }
<1>5. 0 \in N
  BY <1>2
<1>6. ASSUME NEW j \in Nat, j \in N PROVE j + 1 \in N
  <2> SUFFICES ASSUME NEW k \in 1..(n + 1), k > n + 1 - (j + 1),
                      NEW piece \in Seq(Characters), Lacking(k, piece)
               PROVE  SplitsWell(size, piece, g[k][piece])
    OBVIOUS
  <2>1. PICK r : r = g[k][piece]
    OBVIOUS
  <2>2. r = SplitPiece(size, g, k, piece)
    BY <1>4, <2>1
  <2>3. size \in Nat /\ Len(piece) \in Nat
    BY LenProperties
  <2>4. CASE Len(piece) <= size
    <3>1. r = IF piece = <<>> THEN <<>> ELSE << piece >>
      BY <2>2, <2>4 DEF SplitPiece
    <3>2. SplitsWell(size, piece, IF piece = <<>> THEN <<>> ELSE << piece >>)
      BY <2>3, <2>4, ShortPiece
    <3>3. QED
      BY <2>1, <3>1, <3>2
  <2>5. CASE ~ (Len(piece) <= size) /\ Usable(k, piece) = {}
    <3>1. r = HardCut(piece, size)
      BY <2>2, <2>5 DEF SplitPiece
    <3>2. Lacking(Len(Separators) + 1, piece)
      <4> SUFFICES ASSUME NEW i \in 1..Len(Separators)
                   PROVE  Occurrences(Separators[i], piece) = {}
        BY DEF Lacking
      <4>1. CASE i < k
        BY <4>1 DEF Lacking
      <4>2. CASE ~ (i < k)
        <5>1. i \in k..Len(Separators)
          BY <1>1, <1>2, <4>2
        <5>2. QED
          BY <2>5, <5>1 DEF Usable
      <4>3. QED
        BY <4>1, <4>2
    <3>3. Len(piece) > size
      BY <2>3, <2>5
    <3>4. QED
      BY <2>1, <3>1, <3>2, <3>3, CutPiece
  <2>6. CASE ~ (Len(piece) <= size) /\ Usable(k, piece) # {}
    <3>1. PICK m, sep, next : /\ m = Min(Usable(k, piece)) /\ sep = Separators[m]
                              /\ next = g[m + 1]
      OBVIOUS
    <3>2. r = NonBlank(Flushed(GatheredAll(SplitAt(piece, sep), sep, size, next), <<>>, size))
      BY <2>2, <2>6, <3>1 DEF SplitPiece
    <3>3. m \in k..n /\ \A part \in PartsOf(piece, sep) : Lacking(m + 1, part)
      BY <1>1, <2>6, <3>1, PartsAreLacking
    <3>4. m + 1 \in 1..(n + 1) /\ m + 1 > n + 1 - j
      BY <1>2, <3>3
    <3>5. Right(m + 1)
      BY <1>6, <3>4
    <3>6. ASSUME NEW part \in PartsOf(piece, sep) PROVE SplitsWell(size, part, next[part])
      <4>1. part \in Seq(Characters)
        BY DEF PartsOf
      <4>2. QED
        BY <3>1, <3>3, <3>5, <4>1
    <3>7. sep \in Seq(Characters \ WordChars) \ {<<>>}
      <4>1. m \in 1..Len(Separators)
        BY <1>1, <1>2, <3>3
      <4>2. QED
        BY <3>1, <4>1, SeparatorsAre
    <3>8. Len(piece) > size
      BY <2>3, <2>6
    <3>9. QED
      BY <2>1, <3>2, <3>6, <3>7, <3>8, GatheredPiece
  <2>7. QED
    BY <2>4, <2>5, <2>6
<1>7. Right(1)
  <2>1. n + 1 \in N
    <3> HIDE DEF N
    <3>1. n + 1 \in Nat
      BY <1>2
    <3>2. QED
      BY <1>5, <1>6, <3>1, NaturalInduction
  <2>2. 1 \in 1..(n + 1) /\ 1 > n + 1 - (n + 1)
    BY <1>2
  <2>3. QED
    BY <2>1, <2>2
<1>8. Lacking(1, text)
  BY SeparatorsAre DEF Lacking
<1>9. QED
  BY <1>4, <1>7, <1>8

-----------------------------------------------------------------------------
(* Stripping, and the ends of texts.                                       *)

\* A text is solid where it is not blank.
LEMMA SolidIs ==
    ASSUME NEW t \in Seq(Characters)
    PROVE  /\ Solid(t) \in SUBSET (1..Len(t)) /\ IsFiniteSet(Solid(t))
           /\ Solid(t) # {} <=> t \notin Seq(Whitespace)
<1>1. PICK n \in Nat : n = Len(t)
  BY LenProperties
<1>2. t \in [1..n -> Characters] /\ DOMAIN t = 1..n
  BY <1>1, LenProperties
<1>3. Solid(t) \in SUBSET (1..n)
  BY <1>2 DEF Solid
<1>4. IsFiniteSet(Solid(t))
  <2>1. IsFiniteSet(1..n)
    BY FS_Interval
  <2>2. QED
    BY <1>3, <2>1, FS_Subset
<1>5. ASSUME Solid(t) = {} PROVE t \in Seq(Whitespace)
  <2>1. \A i \in 1..n : t[i] \in Whitespace
    BY <1>2, <1>5 DEF Solid
  <2>2. t \in [1..n -> Whitespace]
    BY <1>2, <2>1
  <2>3. QED
    BY <2>2
<1>6. ASSUME t \in Seq(Whitespace) PROVE Solid(t) = {}
  <2>1. \A i \in DOMAIN t : t[i] \in Whitespace
    BY <1>6, ElementsAreFinite
  <2>2. QED
    BY <2>1 DEF Solid
<1>7. QED
  BY <1>1, <1>3, <1>4, <1>5, <1>6

\* A part without a solid character says nothing.
LEMMA BlankPart ==
    ASSUME NEW t \in Seq(Characters), NEW i \in Int, NEW j \in Int, 1 <= i, j <= Len(t),
           \A k \in Solid(t) : k < i \/ k > j
    PROVE  SubSeq(t, i, j) \in Seq(Characters) /\ WordsOf(SubSeq(t, i, j)) = <<>>
<1>1. PICK s : s = SubSeq(t, i, j)
  OBVIOUS
<1>2. /\ s \in Seq(Characters) /\ Len(s) = IF i <= j THEN j - i + 1 ELSE 0
      /\ \A k \in 1..(j - i + 1) : s[k] = t[i + k - 1]
  BY <1>1, PartOfText
<1>3. PICK n \in Nat : n = Len(t)
  BY LenProperties
<1>4. DOMAIN t = 1..n
  BY <1>3, LenProperties
<1>5. DOMAIN s = 1..Len(s) /\ Len(s) \in Nat
  BY <1>2, LenProperties
<1>6. ASSUME NEW k \in DOMAIN s PROVE s[k] \in Characters \ WordChars
  <2>1. k \in 1..(j - i + 1)
    BY <1>2, <1>5
  <2>2. i + k - 1 \in DOMAIN t /\ ~ (i + k - 1 < i) /\ ~ (i + k - 1 > j)
    BY <1>3, <1>4, <2>1
  <2>3. i + k - 1 \notin Solid(t)
    BY <2>2
  <2>4. t[i + k - 1] \in Whitespace
    BY <2>2, <2>3 DEF Solid
  <2>5. QED
    BY <1>2, <2>1, <2>4, WhitespaceIsSeparate
<1>7. ToSet(s) \subseteq Characters \ WordChars
  BY <1>6 DEF ToSet
<1>8. WordsOf(s) = <<>>
  BY <1>2, <1>7, WordsAre
<1>9. QED
  BY <1>1, <1>2, <1>8

\* Stripping says no less, and leaves no blank text.
LEMMA StripIs ==
    ASSUME NEW t \in Seq(Characters)
    PROVE  /\ Strip(t) \in Seq(Characters) /\ Len(Strip(t)) <= Len(t)
           /\ WordsOf(Strip(t)) = WordsOf(t)
           /\ Strip(t) \notin Seq(Whitespace) \ {<<>>}
           /\ t \notin Seq(Whitespace) => Strip(t) \notin Seq(Whitespace)
<1>1. PICK n \in Nat : n = Len(t)
  BY LenProperties
<1>2. /\ Solid(t) \in SUBSET (1..n) /\ IsFiniteSet(Solid(t))
      /\ Solid(t) # {} <=> t \notin Seq(Whitespace)
  BY <1>1, SolidIs
<1>3. CASE Solid(t) = {}
  <2>1. PICK none : none = <<>>
    OBVIOUS
  <2>2. Strip(t) = none
    BY <1>3, <2>1 DEF Strip
  <2>3. none \in Seq(Characters) /\ Len(none) = 0 /\ none \in Seq(Whitespace)
    BY <2>1
  <2>4. WordsOf(t) = <<>> /\ WordsOf(none) = <<>>
    BY <1>2, <1>3, <2>3, WhitespaceIsSeparate
  <2>5. QED
    BY <1>1, <1>2, <1>3, <2>1, <2>2, <2>3, <2>4
<1>4. CASE Solid(t) # {}
  <2>1. PICK a, b, s : /\ a = Min(Solid(t)) /\ b = Max(Solid(t)) /\ s = SubSeq(t, a, b)
    OBVIOUS
  <2>2. Solid(t) \in SUBSET Int
    BY <1>2
  <2>3. a \in Solid(t) /\ \A x \in Solid(t) : a <= x
    BY <1>2, <1>4, <2>1, <2>2, LeastInteger
  <2>4. b \in Solid(t) /\ \A x \in Solid(t) : x <= b
    BY <1>2, <1>4, <2>1, <2>2, LargestInteger
  <2>5. a \in 1..n /\ b \in 1..n /\ a <= b
    BY <1>2, <2>3, <2>4
  <2>6. Strip(t) = s
    BY <1>4, <2>1 DEF Strip
  <2>7. /\ s \in Seq(Characters) /\ Len(s) = IF a <= b THEN b - a + 1 ELSE 0
        /\ \A k \in 1..(b - a + 1) : s[k] = t[a + k - 1]
    BY <1>1, <2>1, <2>5, PartOfText
  <2>8. s \notin Seq(Whitespace)
    <3>1. 1 \in 1..(b - a + 1) /\ a + 1 - 1 = a
      BY <2>5
    <3>2. s[1] = t[a]
      BY <2>7, <3>1
    <3>3. 1 \in DOMAIN s
      BY <2>5, <2>7, <3>1
    <3>4. t[a] \notin Whitespace
      BY <2>3 DEF Solid
    <3>5. s \in Seq(Whitespace) => s[1] \in Whitespace
      BY <3>3, ElementsAreFinite
    <3>6. QED
      BY <3>2, <3>4, <3>5
  <2>9. PICK x, y, z : x = SubSeq(t, 1, a - 1) /\ y = SubSeq(t, a, n) /\ z = SubSeq(t, b + 1, n)
    OBVIOUS
  <2>10. x \in Seq(Characters) /\ WordsOf(x) = <<>>
    <3>1. a - 1 \in Int /\ 1 \in Int /\ a - 1 <= n /\ 1 <= 1
      BY <2>5
    <3>2. \A k \in Solid(t) : k < 1 \/ k > a - 1
      BY <2>2, <2>3, <2>5
    <3>3. QED
      BY <1>1, <2>9, <3>1, <3>2, BlankPart
  <2>11. z \in Seq(Characters) /\ WordsOf(z) = <<>>
    <3>1. b + 1 \in Int /\ n \in Int /\ n <= n /\ 1 <= b + 1
      BY <2>5
    <3>2. \A k \in Solid(t) : k < b + 1 \/ k > n
      BY <2>2, <2>4, <2>5
    <3>3. QED
      BY <1>1, <2>9, <3>1, <3>2, BlankPart
  <2>12. y \in Seq(Characters)
    BY <1>1, <2>5, <2>9, PartOfText
  <2>13. t = x \o y
    <3>1. 1 \in 1..(n + 1) /\ a - 1 \in (1 - 1)..n /\ n \in (a - 1)..n /\ (a - 1) + 1 = a
      BY <2>5
    <3>2. SubSeq(t, 1, a - 1) \o SubSeq(t, (a - 1) + 1, n) = SubSeq(t, 1, n)
      BY <1>1, <3>1, ConcatAdjacentSubSeq
    <3>3. SubSeq(t, 1, n) = t
      BY <1>1, SubSeqFull
    <3>4. QED
      BY <2>9, <3>1, <3>2, <3>3
  <2>14. y = s \o z
    <3>1. a \in 1..(n + 1) /\ b \in (a - 1)..n /\ n \in b..n
      BY <2>5
    <3>2. QED
      BY <1>1, <2>1, <2>9, <3>1, ConcatAdjacentSubSeq
  <2>15. PICK w : w = WordsOf(s)
    OBVIOUS
  <2>16. w \in Seq(Characters)
    BY <2>7, <2>15, WordsAre
  <2>17. WordsOf(y) = w
    <3>1. WordsOf(s \o z) = WordsOf(s) \o WordsOf(z)
      BY <2>7, <2>11, WordsAre
    <3>2. w \o <<>> = w
      BY <2>16, ConcatEmptySeq
    <3>3. QED
      BY <2>11, <2>14, <2>15, <3>1, <3>2
  <2>18. WordsOf(t) = w
    <3>1. WordsOf(x \o y) = WordsOf(x) \o WordsOf(y)
      BY <2>10, <2>12, WordsAre
    <3>2. <<>> \o w = w
      BY <2>16, ConcatEmptySeq
    <3>3. QED
      BY <2>10, <2>13, <2>17, <3>1, <3>2
  <2>19. Len(s) <= n
    BY <2>5, <2>7
  <2>20. QED
    BY <1>1, <2>6, <2>7, <2>8, <2>15, <2>18, <2>19
<1>5. QED
  BY <1>3, <1>4

\* What comes last is a suffix.
LEMMA LastIsSuffix ==
    ASSUME NEW X, NEW s \in Seq(X), NEW t \in Seq(X)
    PROVE  IsSuffix(t, s \o t)
<1>1. PICK m \in Nat, n \in Nat : m = Len(s) /\ n = Len(t)
  BY LenProperties
<1>2. PICK u : u = s \o t
  OBVIOUS
<1>3. /\ u \in Seq(X) /\ Len(u) = m + n
      /\ \A i \in 1..(m + n) : u[i] = IF i <= m THEN s[i] ELSE t[i - m]
  BY <1>1, <1>2, ConcatProperties
<1>4. PICK p, q : p = Reverse(t) /\ q = Reverse(u)
  OBVIOUS
<1>5. p = [i \in 1..n |-> t[(n - i) + 1]] /\ q = [i \in 1..(m + n) |-> u[((m + n) - i) + 1]]
  BY <1>1, <1>3, <1>4 DEF Reverse
<1>6. p \in Seq(X) /\ Len(p) = n /\ q \in Seq(X) /\ Len(q) = m + n
  <2>1. \A i \in 1..n : t[(n - i) + 1] \in X
    BY <1>1, ElementOfSeq
  <2>2. \A i \in 1..(m + n) : u[((m + n) - i) + 1] \in X
    BY <1>3, ElementOfSeq
  <2>3. p \in [1..n -> X] /\ q \in [1..(m + n) -> X]
    BY <1>5, <2>1, <2>2
  <2>4. m + n \in Nat
    OBVIOUS
  <2>5. QED
    BY <2>3, <2>4
<1>7. ASSUME NEW i \in 1..n PROVE p[i] = q[i]
  <2>1. i \in 1..(m + n) /\ ((m + n) - i) + 1 \in 1..(m + n)
        /\ ~ (((m + n) - i) + 1 <= m) /\ (((m + n) - i) + 1) - m = (n - i) + 1
    OBVIOUS
  <2>2. q[i] = u[((m + n) - i) + 1]
    BY <1>5, <2>1
  <2>3. u[((m + n) - i) + 1] = t[(n - i) + 1]
    BY <1>3, <2>1
  <2>4. QED
    BY <1>5, <2>2, <2>3
<1>8. PICK a, b : a = SubSeq(p, 1, n) /\ b = SubSeq(q, 1, n)
  OBVIOUS
<1>9. a = p
  BY <1>6, <1>8, SubSeqFull
<1>10. /\ b \in Seq(X) /\ Len(b) = IF 1 <= n THEN n - 1 + 1 ELSE 0
       /\ \A k \in 1..(n - 1 + 1) : b[k] = q[1 + k - 1]
  <2>1. 1 \in Int /\ n \in Int /\ 1 <= 1 /\ n <= Len(q)
    BY <1>6
  <2>2. QED
    BY <1>6, <1>8, <2>1, PartOfText
<1>11. Len(b) = n /\ \A k \in 1..n : b[k] = q[k]
  BY <1>10
<1>12. a = b
  <2>1. \A k \in 1..Len(p) : p[k] = b[k]
    BY <1>6, <1>7, <1>11
  <2>2. p = b
    BY <1>6, <1>10, <1>11, <2>1, SeqEqual
  <2>3. QED
    BY <1>9, <2>2
<1>13. IsPrefix(p, q)
  BY <1>6, <1>8, <1>12 DEF IsPrefix
<1>14. QED
  BY <1>2, <1>4, <1>13 DEF IsSuffix

-----------------------------------------------------------------------------
(* The overlap.                                                            *)

\* The pieces of a text, before any tail is put before them.
Pieces(text, size) == SplitRecursive(Strip(text), size, Separators)

LEMMA PiecesAre ==
    ASSUME NEW size \in Nat \ {0}, NEW text \in Seq(Characters)
    PROVE  /\ Pieces(text, size) \in Seq(Worded(size))
           /\ Said(Pieces(text, size)) = WordsOf(text)
           /\ NoWordIsCut(Strip(text), size)
                 => Lie(Strip(text), Len(Strip(text)), Pieces(text, size))
<1>1. PICK t : t = Strip(text)
  OBVIOUS
<1>2. /\ t \in Seq(Characters) /\ WordsOf(t) = WordsOf(text)
      /\ t \notin Seq(Whitespace) \ {<<>>}
  BY <1>1, StripIs
<1>3. PICK r : r = SplitRecursive(t, size, Separators)
  OBVIOUS
<1>4. SplitsWell(size, t, r)
  BY <1>2, <1>3, SplitRecursiveIsRight
<1>5. /\ r \in Seq(Worded(size)) /\ Said(r) = WordsOf(t)
      /\ NoWordIsCut(t, size) => Lie(t, Len(t), r)
  BY <1>2, <1>4 DEF SplitsWell
<1>6. QED
  BY <1>1, <1>2, <1>3, <1>5 DEF Pieces

LEMMA WordedAre ==
    ASSUME NEW size \in Nat, NEW t \in Worded(size)
    PROVE  t \in Seq(Characters) /\ Len(t) <= size /\ t \notin Seq(Whitespace)
BY DEF Worded, Windowed

\* The tail of a chunk: no longer than the overlap, its words the chunk's last.
LEMMA LastOfIs ==
    ASSUME NEW t \in Seq(Characters), NEW k \in Nat
    PROVE  /\ LastOf(t, k) \in Seq(Characters) /\ Len(LastOf(t, k)) <= k
           /\ \E s \in Seq(Characters) : WordsOf(t) = s \o WordsOf(LastOf(t, k))
<1>1. PICK n \in Nat : n = Len(t)
  BY LenProperties
<1>2. PICK a : a = Max({1, n - k + 1})
  OBVIOUS
<1>3. a \in 1..(n + 1) /\ n - a + 1 <= k
  <2>1. {1, n - k + 1} \in SUBSET Int /\ {1, n - k + 1} # {}
    OBVIOUS
  <2>2. IsFiniteSet({1, n - k + 1})
    <3>1. PICK one, both, x : one = {1} /\ x = n - k + 1 /\ both = one \cup {x}
      OBVIOUS
    <3>2. IsFiniteSet(one)
      BY <3>1, FS_Singleton
    <3>3. IsFiniteSet(one \cup {x})
      BY <3>2, FS_AddElement
    <3>4. {1, n - k + 1} = both
      BY <3>1
    <3>5. QED
      BY <3>1, <3>3, <3>4
  <2>3. a \in {1, n - k + 1} /\ \A x \in {1, n - k + 1} : x <= a
    BY <1>2, <2>1, <2>2, LargestInteger
  <2>4. QED
    BY <2>3
<1>4. PICK l, s : l = SubSeq(t, a, n) /\ s = SubSeq(t, 1, a - 1)
  OBVIOUS
<1>5. LastOf(t, k) = l
  BY <1>1, <1>2, <1>4 DEF LastOf
<1>6. l \in Seq(Characters) /\ Len(l) = IF a <= n THEN n - a + 1 ELSE 0
  BY <1>1, <1>3, <1>4, PartOfText
<1>7. Len(l) <= k
  BY <1>3, <1>6
<1>8. s \in Seq(Characters)
  <2>1. 1 \in Int /\ a - 1 \in Int /\ 1 <= 1 /\ a - 1 <= n
    BY <1>3
  <2>2. QED
    BY <1>1, <1>4, <2>1, PartOfText
<1>9. s \o l = t
  <2>1. 1 \in 1..(n + 1) /\ a - 1 \in (1 - 1)..n /\ n \in (a - 1)..n /\ (a - 1) + 1 = a
    BY <1>3
  <2>2. SubSeq(t, 1, a - 1) \o SubSeq(t, (a - 1) + 1, n) = SubSeq(t, 1, n)
    BY <1>1, <2>1, ConcatAdjacentSubSeq
  <2>3. SubSeq(t, 1, n) = t
    BY <1>1, SubSeqFull
  <2>4. QED
    BY <1>4, <2>1, <2>2, <2>3
<1>10. WordsOf(t) = WordsOf(s) \o WordsOf(l)
  <2>1. WordsOf(s \o l) = WordsOf(s) \o WordsOf(l)
    BY <1>6, <1>8, WordsAre
  <2>2. QED
    BY <1>9, <2>1
<1>11. WordsOf(s) \in Seq(Characters)
  BY <1>8, WordsAre
<1>12. QED
  BY <1>5, <1>6, <1>7, <1>10, <1>11

\* A chunk that repeats the tail of another.
LEMMA WithTailIs ==
    ASSUME NEW size \in Nat, NEW overlap \in Nat,
           NEW chunk \in Seq(Characters), NEW piece \in Worded(size)
    PROVE  LET r == WithTail(chunk, piece, overlap) IN
              /\ r \in Seq(Characters) /\ Len(r) <= size + overlap + 1
              /\ r \notin Seq(Whitespace)
              /\ WordsOf(r) = WordsOf(LastOf(chunk, overlap)) \o WordsOf(piece)
<1>1. PICK l, blank, w, p : /\ l = LastOf(chunk, overlap) /\ blank = << Blank >>
                            /\ w = WordsOf(l) /\ p = WordsOf(piece)
  OBVIOUS
<1>2. l \in Seq(Characters) /\ Len(l) <= overlap /\ Len(l) \in Nat
  BY <1>1, LastOfIs, LenProperties
<1>3. /\ piece \in Seq(Characters) /\ Len(piece) <= size /\ Len(piece) \in Nat
      /\ piece \notin Seq(Whitespace)
  BY WordedAre, LenProperties
<1>4. blank \in Seq(Whitespace) /\ blank \in Seq(Characters) /\ Len(blank) = 1
      /\ WordsOf(blank) = <<>>
  <2>1. blank \in Seq(Whitespace) /\ Len(blank) = 1
    BY <1>1 DEF Whitespace
  <2>2. QED
    BY <2>1, WhitespaceIsSeparate
<1>5. w \in Seq(Characters) /\ p \in Seq(Characters)
  BY <1>1, <1>2, <1>3, WordsAre
<1>6. PICK c, t : c = l \o blank /\ t = c \o piece
  OBVIOUS
<1>7. c \in Seq(Characters) /\ Len(c) = Len(l) + 1
  <2>1. c \in Seq(Characters) /\ Len(c) = Len(l) + Len(blank)
    BY <1>2, <1>4, <1>6, ConcatProperties
  <2>2. QED
    BY <1>4, <2>1
<1>8. /\ t \in Seq(Characters) /\ Len(t) = Len(c) + Len(piece)
      /\ \A i \in 1..(Len(c) + Len(piece)) :
           t[i] = IF i <= Len(c) THEN c[i] ELSE piece[i - Len(c)]
  BY <1>3, <1>6, <1>7, ConcatProperties
<1>9. Len(t) <= size + overlap + 1
  BY <1>2, <1>3, <1>7, <1>8
<1>10. t \notin Seq(Whitespace)
  <2>1. PICK k \in Solid(piece) : TRUE
    BY <1>3, SolidIs
  <2>2. k \in 1..Len(piece) /\ piece[k] \notin Whitespace
    BY <1>3, SolidIs DEF Solid
  <2>3. PICK m \in Nat : m = Len(c)
    BY <1>7, LenProperties
  <2>4. /\ m + k \in 1..(m + Len(piece)) /\ ~ (m + k <= m) /\ (m + k) - m = k
        /\ m + k \in 1..Len(t)
    BY <1>3, <1>8, <2>2, <2>3
  <2>5. t[m + k] = piece[k]
    BY <1>8, <2>3, <2>4
  <2>6. t \in Seq(Whitespace) => t[m + k] \in Whitespace
    BY <2>4, ElementOfSeq
  <2>7. QED
    BY <2>2, <2>5, <2>6
<1>11. WordsOf(t) = w \o p
  <2>1. WordsOf(l \o blank) = WordsOf(l) \o WordsOf(blank)
    BY <1>2, <1>4, WordsAre
  <2>2. w \o <<>> = w
    BY <1>5, ConcatEmptySeq
  <2>3. WordsOf(c) = w
    BY <1>1, <1>4, <1>6, <2>1, <2>2
  <2>4. WordsOf(c \o piece) = WordsOf(c) \o WordsOf(piece)
    BY <1>3, <1>7, WordsAre
  <2>5. QED
    BY <1>1, <1>6, <2>3, <2>4
<1>12. PICK r : r = Strip(t)
  OBVIOUS
<1>13. /\ r \in Seq(Characters) /\ Len(r) <= Len(t) /\ WordsOf(r) = w \o p
       /\ r \notin Seq(Whitespace)
  BY <1>8, <1>10, <1>11, <1>12, StripIs
<1>14. Len(r) <= size + overlap + 1
  <2>1. Len(r) \in Nat /\ Len(t) \in Nat
    BY <1>8, <1>13, LenProperties
  <2>2. QED
    BY <1>9, <1>13, <2>1
<1>15. WithTail(chunk, piece, overlap) = Strip((l \o blank) \o piece)
  BY <1>1 DEF WithTail
<1>16. QED
  BY <1>1, <1>6, <1>12, <1>13, <1>14, <1>15

\* The recursion that puts the tails before the pieces.
Chaining(rest, first, overlap, h) ==
    h = [u \in SUBSET DOMAIN rest |->
            IF u = {} THEN << first >>
            ELSE Append(h[u \ {Max(u)}],
                        WithTail(Last(h[u \ {Max(u)}]), rest[Max(u)], overlap))]

LEMMA SplitTextUnfold ==
    ASSUME NEW text, NEW size, NEW overlap
    PROVE  SplitText(text, size, overlap)
              = IF overlap = 0 \/ Len(Pieces(text, size)) <= 1 THEN Pieces(text, size)
                ELSE (CHOOSE h : Chaining(Tail(Pieces(text, size)), Head(Pieces(text, size)),
                                          overlap, h))[DOMAIN Tail(Pieces(text, size))]
BY DEF SplitText, Pieces, Chaining, FoldLeft, MapThenFoldSet

LEMMA LastIs ==
    ASSUME NEW X, NEW s \in Seq(X), s # <<>>
    PROVE  Last(s) \in X
<1>1. PICK n \in Nat : n = Len(s)
  BY LenProperties
<1>2. n \in 1..Len(s)
  BY <1>1, EmptySeq
<1>3. s[n] \in X
  BY <1>2, ElementOfSeq
<1>4. QED
  BY <1>1, <1>3 DEF Last

LEMMA ChainingExists ==
    ASSUME NEW size \in Nat, NEW overlap \in Nat, NEW rest \in Seq(Worded(size)),
           NEW first \in Seq(Characters)
    PROVE  \E h : Chaining(rest, first, overlap, h)
<1>1. PICK S, X : S = Seq(Seq(Characters)) \ {<<>>} /\ X = Worded(size)
  OBVIOUS
<1>2. /\ DOMAIN rest = 1..Len(rest) /\ Len(rest) \in Nat
      /\ \A i \in DOMAIN rest : rest[i] \in X
  BY <1>1, ElementsAreFinite
<1>3. PICK F : F = [x \in S \X X |-> Append(x[1], WithTail(Last(x[1]), x[2], overlap))]
  OBVIOUS
<1>4. F \in [S \X X -> S]
  <2>1. ASSUME NEW x \in S \X X
        PROVE  Append(x[1], WithTail(Last(x[1]), x[2], overlap)) \in S
    <3>1. PICK s, piece, l, r : /\ s = x[1] /\ piece = x[2] /\ l = Last(s)
                                /\ r = WithTail(l, piece, overlap)
      OBVIOUS
    <3>2. s \in Seq(Seq(Characters)) /\ s # <<>> /\ piece \in Worded(size)
      BY <1>1, <3>1
    <3>3. l \in Seq(Characters)
      BY <3>1, <3>2, LastIs
    <3>4. r \in Seq(Characters)
      BY <3>1, <3>2, <3>3, WithTailIs
    <3>5. Append(s, r) \in Seq(Seq(Characters)) /\ Append(s, r) # <<>>
      BY <3>2, <3>4, AppendProperties
    <3>6. QED
      BY <1>1, <3>1, <3>5
  <2>2. QED
    BY <1>3, <2>1
<1>5. PICK one : one = << first >>
  OBVIOUS
<1>6. one \in S
  BY <1>1, <1>5
<1>7. rest \in Seq(X)
  BY <1>1
<1>8. PICK g \in [SUBSET DOMAIN rest -> S] : Folding(F, one, rest, g, SUBSET DOMAIN rest)
  BY <1>4, <1>6, <1>7, FoldedType
<1>9. ASSUME NEW u \in SUBSET DOMAIN rest
      PROVE  g[u] = IF u = {} THEN << first >>
                    ELSE Append(g[u \ {Max(u)}],
                                WithTail(Last(g[u \ {Max(u)}]), rest[Max(u)], overlap))
  <2>1. g[u] = Folded(F, one, rest, g, u)
    BY <1>8 DEF Folding
  <2>2. CASE u = {}
    BY <1>5, <2>1, <2>2 DEF Folded
  <2>3. CASE u # {}
    <3>1. PICK m : m = Max(u)
      OBVIOUS
    <3>2. m \in u /\ u \ {m} \in SUBSET DOMAIN rest
      BY <1>2, <2>3, <3>1, LastPlace
    <3>3. PICK s, piece : s = g[u \ {m}] /\ piece = rest[m]
      OBVIOUS
    <3>4. s \in S /\ piece \in X
      BY <1>2, <1>8, <3>2, <3>3
    <3>5. PICK x : x = << s, piece >>
      OBVIOUS
    <3>6. x \in S \X X /\ x[1] = s /\ x[2] = piece
      BY <3>4, <3>5
    <3>7. F[x] = Append(s, WithTail(Last(s), piece, overlap))
      BY <1>3, <3>6
    <3>8. g[u] = F[x]
      BY <2>1, <2>3, <3>1, <3>3, <3>5 DEF Folded
    <3>9. QED
      BY <2>3, <3>1, <3>3, <3>7, <3>8
  <2>4. QED
    BY <2>2, <2>3
<1>10. Chaining(rest, first, overlap, g)
  BY <1>8, <1>9 DEF Chaining
<1>11. QED
  BY <1>10

\* Chunks are pieces with the tails of the chunks before them.
TailedBy(pieces, overlap, chunks) ==
    /\ chunks \in Seq(Seq(Characters)) /\ Len(chunks) = Len(pieces)
    /\ chunks[1] = pieces[1]
    /\ \A i \in 2..Len(pieces) : chunks[i] = WithTail(chunks[i - 1], pieces[i], overlap)

LEMMA ChunksAre ==
    ASSUME NEW size \in Nat, NEW overlap \in Nat,
           NEW pieces \in Seq(Worded(size)), Len(pieces) > 1,
           NEW h, Chaining(Tail(pieces), Head(pieces), overlap, h)
    PROVE  TailedBy(pieces, overlap, h[DOMAIN Tail(pieces)])
<1>1. PICK rest, first : rest = Tail(pieces) /\ first = Head(pieces)
  OBVIOUS
<1>2. pieces # <<>> /\ Len(pieces) \in Nat
  BY LenProperties
<1>3. /\ first \in Worded(size) /\ rest \in Seq(Worded(size))
      /\ Len(rest) = Len(pieces) - 1 /\ first = pieces[1]
      /\ \A i \in 1..Len(rest) : rest[i] = pieces[i + 1]
  <2>1. first = pieces[1]
    BY <1>1, <1>2
  <2>2. QED
    BY <1>1, <1>2, <2>1, HeadTailProperties
<1>4. PICK n \in Nat : n = Len(rest)
  BY <1>3, LenProperties
<1>5. DOMAIN rest = 1..n /\ first \in Seq(Characters) /\ Chaining(rest, first, overlap, h)
  BY <1>1, <1>3, <1>4, LenProperties, WordedAre
<1> DEFINE Right(k) == /\ h[1..k] \in Seq(Seq(Characters)) /\ Len(h[1..k]) = k + 1
                       /\ h[1..k][1] = first
                       /\ \A i \in 1..k : h[1..k][i + 1] = WithTail(h[1..k][i], rest[i], overlap)
           N == { k \in Nat : k <= n => Right(k) }
<1>6. 0 \in N
  <2>1. PICK none, one : none = 1..0 /\ one = << first >>
    OBVIOUS
  <2>2. none = {} /\ none \in SUBSET DOMAIN rest
    BY <2>1
  <2>3. h[none] = one
    BY <1>5, <2>1, <2>2 DEF Chaining
  <2>4. one \in Seq(Seq(Characters)) /\ Len(one) = 1 /\ one[1] = first
    BY <1>5, <2>1
  <2>5. \A i \in none : h[none][i + 1] = WithTail(h[none][i], rest[i], overlap)
    BY <2>2
  <2>6. /\ h[none] \in Seq(Seq(Characters)) /\ Len(h[none]) = 0 + 1
        /\ h[none][1] = first
    BY <2>3, <2>4
  <2>7. Right(0)
    BY <2>1, <2>5, <2>6
  <2>8. QED
    BY <2>7
<1>7. ASSUME NEW k \in Nat, k \in N PROVE k + 1 \in N
  <2> SUFFICES ASSUME k + 1 <= n PROVE Right(k + 1)
    OBVIOUS
  <2>1. PICK u, s, r, new : /\ u = 1..(k + 1) /\ s = h[1..k] /\ new = h[u]
                            /\ r = WithTail(Last(s), rest[k + 1], overlap)
    OBVIOUS
  <2>2. u # {} /\ Max(u) = k + 1 /\ u \ {Max(u)} = 1..k
    BY <2>1, PlacesUpTo
  <2>3. u \in SUBSET DOMAIN rest
    BY <1>5, <2>1
  <2>4. new = Append(s, r)
    BY <1>5, <2>1, <2>2, <2>3 DEF Chaining
  <2>5. k + 1 \in 1..n /\ k <= n
    BY <1>4
  <2>6. /\ s \in Seq(Seq(Characters)) /\ Len(s) = k + 1 /\ s[1] = first
        /\ \A i \in 1..k : s[i + 1] = WithTail(s[i], rest[i], overlap)
    BY <1>7, <2>1, <2>5
  <2>7. Last(s) = s[k + 1] /\ s[k + 1] \in Seq(Characters)
    <3>1. k + 1 \in 1..Len(s)
      BY <2>6
    <3>2. QED
      BY <2>6, <3>1, ElementOfSeq DEF Last
  <2>8. r \in Seq(Characters)
    <3>1. rest[k + 1] \in Worded(size)
      BY <1>3, <1>4, <2>5, ElementOfSeq
    <3>2. QED
      BY <2>1, <2>7, <3>1, WithTailIs
  <2>9. /\ new \in Seq(Seq(Characters)) /\ Len(new) = k + 2 /\ new[k + 2] = r
        /\ \A i \in 1..(k + 1) : new[i] = s[i]
    <3>1. PICK m \in Nat : m = Len(s)
      BY <2>6
    <3>2. /\ new \in Seq(Seq(Characters)) /\ Len(new) = m + 1 /\ new[m + 1] = r
          /\ \A i \in 1..m : new[i] = s[i]
      BY <2>4, <2>6, <2>8, <3>1, AppendProperties
    <3>3. m = k + 1 /\ m + 1 = k + 2
      BY <2>6, <3>1
    <3>4. QED
      BY <3>2, <3>3
  <2>10. new[1] = first
    <3>1. 1 \in 1..(k + 1)
      OBVIOUS
    <3>2. QED
      BY <2>6, <2>9, <3>1
  <2>11. ASSUME NEW i \in 1..(k + 1) PROVE new[i + 1] = WithTail(new[i], rest[i], overlap)
    <3>1. CASE i = k + 1
      <4>1. i + 1 = k + 2
        BY <3>1
      <4>2. new[i + 1] = r /\ new[i] = s[k + 1]
        BY <2>9, <3>1, <4>1
      <4>3. QED
        BY <2>1, <2>7, <3>1, <4>2
    <3>2. CASE i # k + 1
      <4>1. i \in 1..k /\ i + 1 \in 1..(k + 1)
        BY <3>2
      <4>2. new[i] = s[i] /\ new[i + 1] = s[i + 1]
        BY <2>9, <4>1
      <4>3. QED
        BY <2>6, <4>1, <4>2
    <3>3. QED
      BY <3>1, <3>2
  <2>12. (k + 1) + 1 = k + 2
    OBVIOUS
  <2>13. QED
    BY <2>1, <2>9, <2>10, <2>11, <2>12
<1>8. Right(n)
  <2>1. n \in N
    <3> HIDE DEF N
    <3>1. QED
      BY <1>6, <1>7, NaturalInduction
  <2>2. n <= n
    OBVIOUS
  <2>3. QED
    BY <2>1, <2>2
<1>9. PICK chunks : chunks = h[1..n]
  OBVIOUS
<1>10. ASSUME NEW i \in 2..Len(pieces)
       PROVE  chunks[i] = WithTail(chunks[i - 1], pieces[i], overlap)
  <2>1. PICK j : j = i - 1
    OBVIOUS
  <2>2. j \in 1..n /\ j + 1 = i /\ j \in 1..Len(rest)
    BY <1>2, <1>3, <1>4, <2>1
  <2>3. chunks[j + 1] = WithTail(chunks[j], rest[j], overlap)
    BY <1>8, <1>9, <2>2
  <2>4. rest[j] = pieces[j + 1]
    BY <1>3, <2>2
  <2>5. QED
    BY <2>1, <2>2, <2>3, <2>4
<1>11. chunks \in Seq(Seq(Characters)) /\ Len(chunks) = Len(pieces) /\ chunks[1] = pieces[1]
  BY <1>2, <1>3, <1>4, <1>8, <1>9
<1>12. TailedBy(pieces, overlap, chunks)
  BY <1>10, <1>11 DEF TailedBy
<1>13. QED
  BY <1>1, <1>5, <1>9, <1>12

\* What split_text returns: the pieces, or the chunks made of them.
LEMMA SplitTextIs ==
    ASSUME NEW size \in Nat \ {0}, NEW overlap \in Nat, NEW text \in Seq(Characters)
    PROVE  LET pieces == Pieces(text, size)
               chunks == SplitText(text, size, overlap)
           IN /\ SplitText(text, size, 0) = pieces
              /\ \/ chunks = pieces
                 \/ overlap # 0 /\ Len(pieces) > 1 /\ TailedBy(pieces, overlap, chunks)
              /\ overlap = 0 \/ Len(pieces) <= 1 => chunks = pieces
              /\ overlap # 0 /\ Len(pieces) > 1 => TailedBy(pieces, overlap, chunks)
<1>1. PICK pieces, chunks : pieces = Pieces(text, size) /\ chunks = SplitText(text, size, overlap)
  OBVIOUS
<1>2. SplitText(text, size, 0) = pieces
  BY <1>1, SplitTextUnfold
<1>3. ASSUME overlap = 0 \/ Len(pieces) <= 1 PROVE chunks = pieces
  BY <1>1, <1>3, SplitTextUnfold
<1>4. ASSUME ~ (overlap = 0 \/ Len(pieces) <= 1)
      PROVE  overlap # 0 /\ Len(pieces) > 1 /\ TailedBy(pieces, overlap, chunks)
  <2>1. pieces \in Seq(Worded(size)) /\ size \in Nat
    BY <1>1, PiecesAre
  <2>2. Len(pieces) \in Nat /\ Len(pieces) > 1 /\ overlap # 0
    BY <1>4, <2>1, LenProperties
  <2>3. PICK rest, first : rest = Tail(pieces) /\ first = Head(pieces)
    OBVIOUS
  <2>4. rest \in Seq(Worded(size)) /\ first \in Worded(size)
    <3>1. pieces # <<>>
      BY <2>2
    <3>2. QED
      BY <2>1, <2>3, <3>1, HeadTailProperties
  <2>5. first \in Seq(Characters)
    BY <2>1, <2>4, WordedAre
  <2>6. PICK h : h = CHOOSE g : Chaining(rest, first, overlap, g)
    OBVIOUS
  <2>7. Chaining(rest, first, overlap, h)
    BY <2>1, <2>4, <2>5, <2>6, ChainingExists
  <2>8. TailedBy(pieces, overlap, h[DOMAIN rest])
    BY <2>1, <2>2, <2>3, <2>7, ChunksAre
  <2>9. chunks = h[DOMAIN rest]
    BY <1>1, <1>4, <2>3, <2>6, SplitTextUnfold
  <2>10. QED
    BY <2>2, <2>8, <2>9
<1>5. overlap # 0 /\ Len(pieces) > 1 => TailedBy(pieces, overlap, chunks)
  <2>1. Len(pieces) \in Nat
    BY <1>1, PiecesAre, LenProperties
  <2>2. QED
    BY <1>4, <2>1
<1>6. QED
  BY <1>1, <1>2, <1>3, <1>4, <1>5

\* The chunks that have a tail before them.
LEMMA TailedChunks ==
    ASSUME NEW size \in Nat, NEW overlap \in Nat, NEW pieces \in Seq(Worded(size)),
           NEW chunks, TailedBy(pieces, overlap, chunks), NEW i \in 2..Len(pieces)
    PROVE  /\ chunks[i - 1] \in Seq(Characters) /\ pieces[i] \in Worded(size)
           /\ chunks[i] = WithTail(chunks[i - 1], pieces[i], overlap)
<1>1. PICK n \in Nat : n = Len(pieces)
  BY LenProperties
<1>2. chunks \in Seq(Seq(Characters)) /\ Len(chunks) = n
  BY <1>1 DEF TailedBy
<1>3. i \in 1..n /\ i - 1 \in 1..n
  BY <1>1
<1>4. chunks[i - 1] \in Seq(Characters)
  BY <1>2, <1>3, ElementOfSeq
<1>5. pieces[i] \in Worded(size)
  BY <1>1, <1>3, ElementOfSeq
<1>6. QED
  BY <1>4, <1>5 DEF TailedBy

\* No two blanks are side by side.
SingleBlanks(text) ==
    \A i \in 1..(Len(text) - 1) : << text[i], text[i + 1] >> # << Blank, Blank >>

\* The inputs of a split.
LEMMA SplitInput ==
    ASSUME ReturnInv, output.kind = "split"
    PROVE  /\ input.text \in Seq(Characters) /\ SingleBlanks(input.text)
           /\ input.window[1] \in Nat \ {0} /\ input.window[2] \in Nat
           /\ output.value = SplitText(input.text, input.window[1], input.window[2])
<1>1. /\ input \in Inputs /\ input.kind = "split"
      /\ output.value = SplitText(input.text, input.window[1], input.window[2])
  BY DEF ReturnInv, NotYet
<1>2. input \in [kind : {"split"}, text : Texts, window : Windows]
  BY <1>1 DEF Inputs
<1>3. PICK w : w = input.window
  OBVIOUS
<1>4. input.text \in Texts /\ w \in Windows
  BY <1>2, <1>3
<1>5. w \in Nat \X Nat /\ w[2] < w[1]
  BY <1>4, WindowsAssumption
<1>6. w[1] \in Nat /\ w[2] \in Nat /\ w[1] # 0
  BY <1>5
<1>7. input.text \in Seq(Characters) /\ SingleBlanks(input.text)
  BY <1>4, TextsAssumption DEF SingleBlanks
<1>8. QED
  BY <1>1, <1>3, <1>6, <1>7

\* A piece put behind a tail.
LEMMA TailedLength ==
    ASSUME NEW size \in Nat, NEW overlap \in Nat, NEW chunk \in Seq(Characters),
           NEW piece \in Worded(size), Len(piece) < size
    PROVE  Len(WithTail(chunk, piece, overlap)) <= size + overlap
<1>1. piece \in Seq(Characters) /\ piece \notin Seq(Whitespace)
  BY WordedAre
<1>2. PICK n \in Nat : n = Len(piece)
  BY <1>1, LenProperties
<1>3. piece \in Worded(n)
  BY <1>1, <1>2 DEF Worded, Windowed
<1>4. PICK r : r = WithTail(chunk, piece, overlap)
  OBVIOUS
<1>5. r \in Seq(Characters) /\ Len(r) <= n + overlap + 1
  BY <1>3, <1>4, WithTailIs
<1>6. Len(r) \in Nat
  BY <1>5, LenProperties
<1>7. QED
  BY <1>2, <1>4, <1>5, <1>6

\* For every text, window, overlap and list of separators, no piece outgrows the
\* window, and a chunk outgrows it by no more than the overlap unless its piece
\* fills the window by itself (split_text).
THEOREM ChunksAlwaysFit == ComputationsSpec => []ChunksFit
<1>1. ReturnInv => ChunksFit
  <2> SUFFICES ASSUME ReturnInv, output.kind = "split" PROVE ChunksFit
    BY DEF ChunksFit
  <2>1. PICK text, size, overlap : /\ text = input.text /\ size = input.window[1]
                                   /\ overlap = input.window[2]
    OBVIOUS
  <2>2. text \in Seq(Characters) /\ size \in Nat \ {0} /\ overlap \in Nat /\ size \in Nat
    BY <2>1, SplitInput
  <2>3. PICK chunks, pieces : chunks = output.value /\ pieces = Pieces(text, size)
    OBVIOUS
  <2>4. chunks = SplitText(text, size, overlap)
    BY <2>1, <2>3, SplitInput
  <2>5. /\ SplitText(text, size, 0) = pieces
        /\ chunks = pieces \/ (overlap # 0 /\ Len(pieces) > 1 /\ TailedBy(pieces, overlap, chunks))
        /\ pieces \in Seq(Worded(size))
    BY <2>2, <2>3, <2>4, SplitTextIs, PiecesAre
  <2>6. PICK n \in Nat : n = Len(pieces)
    BY <2>5, LenProperties
  <2>7. ASSUME NEW i \in 1..n
        PROVE  pieces[i] \in Worded(size) /\ Len(pieces[i]) \in Nat /\ Len(pieces[i]) <= size
    <3>1. PICK piece : piece = pieces[i]
      OBVIOUS
    <3>2. piece \in Worded(size)
      BY <2>5, <2>6, <3>1, ElementOfSeq
    <3>3. piece \in Seq(Characters) /\ Len(piece) <= size
      BY <2>2, <3>2, WordedAre
    <3>4. QED
      BY <3>1, <3>2, <3>3, LenProperties
  <2>8. DOMAIN pieces = 1..n
    BY <2>5, <2>6, LenProperties
  <2>9. \A i \in DOMAIN pieces : Len(pieces[i]) <= size
    BY <2>7, <2>8
  <2>10. ASSUME NEW i \in DOMAIN chunks, Len(pieces[i]) < size
         PROVE  Len(chunks[i]) <= size + overlap
    <3>1. CASE chunks = pieces
      BY <2>2, <2>7, <2>8, <2>10, <3>1
    <3>2. CASE overlap # 0 /\ Len(pieces) > 1 /\ TailedBy(pieces, overlap, chunks)
      <4>1. chunks \in Seq(Seq(Characters)) /\ Len(chunks) = n /\ chunks[1] = pieces[1]
        BY <2>6, <3>2 DEF TailedBy
      <4>2. i \in 1..n
        BY <2>10, <4>1, LenProperties
      <4>3. CASE i = 1
        BY <2>2, <2>7, <4>1, <4>2, <4>3
      <4>4. CASE i # 1
        <5>1. PICK former, piece : former = chunks[i - 1] /\ piece = pieces[i]
          OBVIOUS
        <5>2. i \in 2..Len(pieces)
          BY <2>6, <4>2, <4>4
        <5>3. /\ former \in Seq(Characters) /\ piece \in Worded(size)
              /\ chunks[i] = WithTail(former, piece, overlap)
          BY <2>2, <2>5, <3>2, <5>1, <5>2, TailedChunks
        <5>4. QED
          BY <2>2, <2>10, <5>1, <5>3, TailedLength
      <4>5. QED
        BY <4>3, <4>4
    <3>3. QED
      BY <2>5, <3>1, <3>2
  <2>11. QED
    BY <2>1, <2>3, <2>5, <2>9, <2>10 DEF ChunksFit
<1>2. QED
  BY <1>1, ReturnInvHolds, PTL

\* What is before the end of a sequence, and the end itself.
LEMMA BeforeTheEnd ==
    ASSUME NEW X, NEW a \in Seq(X), NEW p \in Seq(X), NEW w, w = a \o p
    PROVE  SubSeq(w, 1, Len(w) - Len(p)) = a /\ IsSuffix(p, w)
<1>1. PICK m \in Nat, n \in Nat : m = Len(a) /\ n = Len(p)
  BY LenProperties
<1>2. /\ w \in Seq(X) /\ Len(w) = m + n
      /\ \A i \in 1..(m + n) : w[i] = IF i <= m THEN a[i] ELSE p[i - m]
  BY <1>1, ConcatProperties
<1>3. Len(w) - Len(p) = m
  BY <1>1, <1>2
<1>4. PICK s : s = SubSeq(w, 1, m)
  OBVIOUS
<1>5. /\ s \in Seq(X) /\ Len(s) = IF 1 <= m THEN m - 1 + 1 ELSE 0
      /\ \A k \in 1..(m - 1 + 1) : s[k] = w[1 + k - 1]
  <2>1. 1 \in Int /\ m \in Int /\ 1 <= 1 /\ m <= Len(w)
    BY <1>2
  <2>2. QED
    BY <1>2, <1>4, <2>1, PartOfText
<1>6. Len(s) = m
  BY <1>5
<1>7. ASSUME NEW k \in 1..m PROVE s[k] = a[k]
  <2>1. k \in 1..(m - 1 + 1) /\ 1 + k - 1 = k /\ k \in 1..(m + n) /\ k <= m
    OBVIOUS
  <2>2. QED
    BY <1>2, <1>5, <2>1
<1>8. s = a
  BY <1>1, <1>5, <1>6, <1>7, SeqEqual
<1>9. IsSuffix(p, w)
  BY LastIsSuffix
<1>10. QED
  BY <1>3, <1>4, <1>8, <1>9

\* What is said of a chunk, given the one before, its piece and the overlap.
KeepsToPiece(chunk, former, piece, overlap, isFirst) ==
    LET repeated == SubSeq(WordsOf(chunk), 1, Len(WordsOf(chunk)) - Len(WordsOf(piece))) IN
    /\ Solid(chunk) # {}
    /\ IsSuffix(WordsOf(piece), WordsOf(chunk))
    /\ Len(repeated) <= overlap
    /\ isFirst = 1 => repeated = <<>>
    /\ isFirst # 1 => IsSuffix(repeated, WordsOf(former))

\* A chunk that is its piece, and one that begins with the tail of another.
LEMMA UntailedKeeps ==
    ASSUME NEW size \in Nat, NEW overlap \in Nat, NEW piece \in Worded(size),
           NEW former \in Seq(Characters), NEW isFirst
    PROVE  KeepsToPiece(piece, former, piece, overlap, isFirst)
<1>1. PICK w, none, v : w = WordsOf(piece) /\ none = <<>> /\ v = WordsOf(former)
  OBVIOUS
<1>2. piece \in Seq(Characters) /\ piece \notin Seq(Whitespace)
  BY WordedAre
<1>3. w \in Seq(Characters) /\ none \in Seq(Characters) /\ v \in Seq(Characters)
  BY <1>1, <1>2, WordsAre, EmptySeq
<1>4. w = none \o w /\ v = v \o none
  BY <1>1, <1>3, ConcatEmptySeq
<1>5. SubSeq(w, 1, Len(w) - Len(w)) = none /\ IsSuffix(w, w)
  BY <1>3, <1>4, BeforeTheEnd
<1>6. IsSuffix(none, v)
  BY <1>3, <1>4, BeforeTheEnd
<1>7. Solid(piece) # {}
  BY <1>2, SolidIs
<1>8. Len(none) <= overlap
  BY <1>1
<1>9. QED
  BY <1>1, <1>5, <1>6, <1>7, <1>8 DEF KeepsToPiece

LEMMA TailedKeeps ==
    ASSUME NEW size \in Nat, NEW overlap \in Nat, NEW piece \in Worded(size),
           NEW former \in Seq(Characters), NEW isFirst, isFirst # 1
    PROVE  KeepsToPiece(WithTail(former, piece, overlap), former, piece, overlap, isFirst)
<1>1. PICK chunk, l, w, p, a, v :
         /\ chunk = WithTail(former, piece, overlap) /\ l = LastOf(former, overlap)
         /\ w = WordsOf(chunk) /\ p = WordsOf(piece) /\ a = WordsOf(l) /\ v = WordsOf(former)
  OBVIOUS
<1>2. chunk \in Seq(Characters) /\ chunk \notin Seq(Whitespace) /\ w = a \o p
  BY <1>1, WithTailIs
<1>3. l \in Seq(Characters) /\ Len(l) <= overlap
  BY <1>1, LastOfIs
<1>4. PICK s \in Seq(Characters) : v = s \o a
  BY <1>1, LastOfIs
<1>5. a \in Seq(Characters) /\ Len(a) \in Nat /\ Len(a) <= Len(l)
  BY <1>1, <1>3, WordsAre
<1>6. p \in Seq(Characters)
  BY <1>1, WordedAre, WordsAre
<1>7. SubSeq(w, 1, Len(w) - Len(p)) = a /\ IsSuffix(p, w)
  BY <1>2, <1>5, <1>6, BeforeTheEnd
<1>8. IsSuffix(a, v)
  BY <1>4, <1>5, BeforeTheEnd
<1>9. Len(a) <= overlap
  <2>1. Len(l) \in Nat
    BY <1>3, LenProperties
  <2>2. QED
    BY <1>3, <1>5, <2>1
<1>10. Solid(chunk) # {}
  BY <1>2, SolidIs
<1>11. KeepsToPiece(chunk, former, piece, overlap, isFirst)
  BY <1>1, <1>7, <1>8, <1>9, <1>10 DEF KeepsToPiece
<1>12. QED
  BY <1>1, <1>11

\* For every text, window, overlap and list of separators, every word character of
\* the document is in the chunks, in order, and what a chunk repeats is the end of
\* the one before it, at most the overlap long (_split_recursive and split_text).
THEOREM NothingIsEverLost == ComputationsSpec => []NothingIsLost
<1>1. ReturnInv => NothingIsLost
  <2> SUFFICES ASSUME ReturnInv, output.kind = "split" PROVE NothingIsLost
    BY DEF NothingIsLost
  <2>1. PICK text, size, overlap : /\ text = input.text /\ size = input.window[1]
                                   /\ overlap = input.window[2]
    OBVIOUS
  <2>2. text \in Seq(Characters) /\ size \in Nat \ {0} /\ overlap \in Nat /\ size \in Nat
    BY <2>1, SplitInput
  <2>3. PICK chunks, pieces : chunks = output.value /\ pieces = Pieces(text, size)
    OBVIOUS
  <2>4. chunks = SplitText(text, size, overlap)
    BY <2>1, <2>3, SplitInput
  <2>5. /\ SplitText(text, size, 0) = pieces
        /\ chunks = pieces \/ (overlap # 0 /\ Len(pieces) > 1 /\ TailedBy(pieces, overlap, chunks))
        /\ pieces \in Seq(Worded(size)) /\ Said(pieces) = WordsOf(text)
    BY <2>2, <2>3, <2>4, SplitTextIs, PiecesAre
  <2>6. PICK n \in Nat : n = Len(pieces)
    BY <2>5, LenProperties
  <2>7. /\ chunks \in Seq(Seq(Characters)) /\ Len(chunks) = n /\ DOMAIN chunks = 1..n
        /\ pieces \in Seq(Seq(Characters))
    <3>1. pieces \in Seq(Seq(Characters))
      <4>1. Worded(size) \subseteq Seq(Characters)
        BY <2>2, WordedAre
      <4>2. QED
        BY <2>5, <4>1, SeqMonotonic
    <3>2. chunks \in Seq(Seq(Characters)) /\ Len(chunks) = n
      BY <2>5, <2>6, <3>1 DEF TailedBy
    <3>3. QED
      BY <3>1, <3>2, LenProperties
  <2>8. ASSUME NEW i \in 1..n
        PROVE  KeepsToPiece(chunks[i], chunks[i - 1], pieces[i], overlap, i)
    <3>1. PICK piece, chunk, former : /\ piece = pieces[i] /\ chunk = chunks[i]
                                      /\ former = chunks[i - 1]
      OBVIOUS
    <3>2. piece \in Worded(size) /\ piece \in Seq(Characters)
      <4>1. piece \in Worded(size)
        BY <2>5, <2>6, <3>1, ElementOfSeq
      <4>2. QED
        BY <2>2, <4>1, WordedAre
    <3>3. CASE i = 1
      <4>1. chunk = piece
        BY <2>5, <3>1, <3>3 DEF TailedBy
      <4>2. KeepsToPiece(piece, piece, piece, overlap, i)
        BY <2>2, <3>2, UntailedKeeps
      <4>3. KeepsToPiece(piece, former, piece, overlap, i)
        BY <3>3, <4>2 DEF KeepsToPiece
      <4>4. QED
        BY <3>1, <4>1, <4>3
    <3>4. CASE i # 1
      <4>1. i \in 2..Len(pieces) /\ i - 1 \in 1..n
        BY <2>6, <3>4
      <4>2. former \in Seq(Characters)
        BY <2>7, <3>1, <4>1, ElementOfSeq
      <4>3. CASE chunks = pieces
        <5>1. chunk = piece
          BY <3>1, <4>3
        <5>2. KeepsToPiece(piece, former, piece, overlap, i)
          BY <2>2, <3>2, <4>2, UntailedKeeps
        <5>3. QED
          BY <3>1, <5>1, <5>2
      <4>4. CASE overlap # 0 /\ Len(pieces) > 1 /\ TailedBy(pieces, overlap, chunks)
        <5>1. chunk = WithTail(former, piece, overlap)
          BY <2>2, <2>5, <3>1, <4>1, <4>4, TailedChunks
        <5>2. KeepsToPiece(WithTail(former, piece, overlap), former, piece, overlap, i)
          BY <2>2, <3>2, <3>4, <4>2, TailedKeeps
        <5>3. QED
          BY <3>1, <5>1, <5>2
      <4>5. QED
        BY <2>5, <4>3, <4>4
    <3>5. QED
      BY <3>3, <3>4
  <2>9. FlattenSeq([i \in DOMAIN pieces |-> WordsOf(pieces[i])]) = WordsOf(text)
    BY <2>5 DEF Said
  <2> DEFINE Repeated(i) == SubSeq(WordsOf(chunks[i]), 1,
                                   Len(WordsOf(chunks[i])) - Len(WordsOf(pieces[i])))
  <2>10. ASSUME NEW i \in DOMAIN chunks
         PROVE  /\ Solid(chunks[i]) # {}
                /\ IsSuffix(WordsOf(pieces[i]), WordsOf(chunks[i]))
                /\ Len(Repeated(i)) <= overlap
                /\ i = 1 => Repeated(i) = <<>>
                /\ i > 1 => IsSuffix(Repeated(i), WordsOf(chunks[i - 1]))
    <3>1. i \in 1..n
      BY <2>7
    <3>2. KeepsToPiece(chunks[i], chunks[i - 1], pieces[i], overlap, i)
      BY <2>8, <3>1
    <3>3. i > 1 => i # 1
      BY <3>1
    <3>4. QED
      BY <3>2, <3>3 DEF KeepsToPiece
  <2>11. /\ chunks = output.value /\ pieces = SplitText(input.text, input.window[1], 0)
         /\ WordsOf(text) = WordsOf(input.text) /\ Len(chunks) = Len(pieces)
         /\ overlap = input.window[2]
    BY <2>1, <2>3, <2>5, <2>6, <2>7
  <2>12. QED
    BY <2>9, <2>10, <2>11 DEF NothingIsLost
<1>2. QED
  BY <1>1, ReturnInvHolds, PTL


-----------------------------------------------------------------------------
(* Phrases: where a chunk shows what the text has.                         *)

\* From `k` on, `t` has what the text has from `p` to `q`.
Shows(t, k, text, p, q) ==
    /\ k \in 1..Len(t) /\ k + (q - p) \in k..Len(t)
    /\ \A i \in 0..(q - p) : t[k + i] = text[p + i]

\* The same, at its end.
EndsWith(t, text, p, q) == \E k \in Nat : Shows(t, k, text, p, q) /\ k + (q - p) = Len(t)

\* Words with single characters between them.
Phrase(text, p, q) ==
    /\ p \in 1..Len(text) /\ q \in p..Len(text)
    /\ text[p] \in WordChars /\ text[q] \in WordChars
    /\ \A i \in p..q : text[i] \in WordChars \cup {Blank}

\* What the text shows from `k` on, and at its end if so, it shows stripped.
SurvivesStrip(t, k, text, p, q) ==
    \E j \in Nat : /\ Shows(Strip(t), j, text, p, q)
                   /\ k + (q - p) = Len(t) => j + (q - p) = Len(Strip(t))

\* What is solid at both ends survives stripping.
LEMMA StripShows ==
    ASSUME NEW t \in Seq(Characters), NEW text, NEW p \in Int, NEW q \in Int, p <= q,
           NEW k, Shows(t, k, text, p, q),
           text[p] \notin Whitespace, text[q] \notin Whitespace
    PROVE  SurvivesStrip(t, k, text, p, q)
<1>1. PICK n \in Nat : n = Len(t)
  BY LenProperties
<1>2. PICK l : l = q - p
  OBVIOUS
<1>3. /\ l \in Nat /\ k \in 1..n /\ k + l \in k..n
      /\ \A i \in 0..l : t[k + i] = text[p + i]
  BY <1>1, <1>2 DEF Shows
<1>4. t[k] = text[p] /\ t[k + l] = text[q]
  <2>1. 0 \in 0..l /\ l \in 0..l /\ k + 0 = k /\ p + 0 = p /\ p + l = q
    BY <1>2, <1>3
  <2>2. t[k + 0] = text[p + 0] /\ t[k + l] = text[p + l]
    BY <1>3, <2>1
  <2>3. QED
    BY <2>1, <2>2
<1>5. k \in Solid(t) /\ k + l \in Solid(t)
  <2>1. DOMAIN t = 1..n
    BY <1>1, LenProperties
  <2>2. QED
    BY <1>3, <1>4, <2>1 DEF Solid
<1>6. PICK a, b, s : a = Min(Solid(t)) /\ b = Max(Solid(t)) /\ s = SubSeq(t, a, b)
  OBVIOUS
<1>7. /\ a \in 1..n /\ b \in 1..n /\ a <= k /\ k + l <= b
  <2>1. Solid(t) \in SUBSET (1..n) /\ Solid(t) \in SUBSET Int /\ IsFiniteSet(Solid(t)) /\ Solid(t) # {}
    BY <1>1, <1>5, SolidIs
  <2>2. a \in Solid(t) /\ \A x \in Solid(t) : a <= x
    BY <1>6, <2>1, LeastInteger
  <2>3. b \in Solid(t) /\ \A x \in Solid(t) : x <= b
    BY <1>6, <2>1, LargestInteger
  <2>4. QED
    BY <1>5, <2>1, <2>2, <2>3
<1>8. Strip(t) = s
  BY <1>5, <1>6 DEF Strip
<1>9. Len(s) = b - a + 1 /\ \A i \in 1..(b - a + 1) : s[i] = t[a + i - 1]
  <2>1. a <= b
    BY <1>3, <1>7
  <2>2. Len(s) = IF a <= b THEN b - a + 1 ELSE 0
    BY <1>1, <1>6, <1>7, PartOfText
  <2>3. \A i \in 1..(b - a + 1) : s[i] = t[a + i - 1]
    BY <1>1, <1>6, <1>7, PartOfText, SMTT(30)
  <2>4. QED
    BY <2>1, <2>2, <2>3
<1>10. PICK j : j = k - a + 1
  OBVIOUS
<1>11. j \in Nat /\ j \in 1..Len(s) /\ j + l \in j..Len(s)
  <2>1. PICK w : w = Len(s)
    OBVIOUS
  <2>2. w = b - a + 1
    BY <1>9, <2>1
  <2>3. k \in Int /\ a \in Int /\ b \in Int /\ a <= k /\ k + l <= b
    BY <1>3, <1>7
  <2>4. j \in Nat /\ j \in 1..w /\ j + l \in j..w
    BY <1>3, <1>10, <2>2, <2>3
  <2>5. QED
    BY <2>1, <2>4
<1>12. ASSUME NEW i \in 0..l PROVE s[j + i] = text[p + i]
  <2>1. j + i \in 1..(b - a + 1) /\ a + (j + i) - 1 = k + i
    BY <1>3, <1>7, <1>10
  <2>2. s[j + i] = t[a + (j + i) - 1]
    BY <1>9, <2>1
  <2>3. QED
    BY <1>3, <2>1, <2>2
<1>13. Shows(s, j, text, p, q)
  BY <1>2, <1>11, <1>12 DEF Shows
<1>14. k + l = n => j + l = Len(s)
  BY <1>3, <1>7, <1>9, <1>10
<1>15. QED
  BY <1>1, <1>2, <1>8, <1>11, <1>13, <1>14 DEF SurvivesStrip

\* A tail keeps the end that is no longer than itself.
LEMMA LastOfShows ==
    ASSUME NEW t \in Seq(Characters), NEW text, NEW p \in Int, NEW q \in Int, p <= q,
           NEW overlap \in Nat, q - p + 1 <= overlap, EndsWith(t, text, p, q)
    PROVE  EndsWith(LastOf(t, overlap), text, p, q)
<1>1. PICK n \in Nat : n = Len(t)
  BY LenProperties
<1>2. PICK k \in Nat : Shows(t, k, text, p, q) /\ k + (q - p) = n
  BY <1>1 DEF EndsWith
<1>3. PICK l : l = q - p
  OBVIOUS
<1>4. /\ l \in Nat /\ k \in 1..n /\ k + l = n /\ l + 1 <= overlap
      /\ \A i \in 0..l : t[k + i] = text[p + i]
  BY <1>1, <1>2, <1>3 DEF Shows
<1>5. PICK a : a = Max({1, n - overlap + 1})
  OBVIOUS
<1>6. a \in 1..n /\ a <= k
  <2>1. PICK u, both : u = n - overlap + 1 /\ both = {1, n - overlap + 1}
    OBVIOUS
  <2>2. both = {1} \cup {u} /\ u \in Int /\ both \in SUBSET Int /\ both # {}
    BY <2>1
  <2>3. IsFiniteSet(both)
    <3>1. IsFiniteSet({1})
      BY FS_Singleton
    <3>2. QED
      BY <2>2, <3>1, FS_AddElement
  <2>4. a \in both /\ \A x \in both : x <= a
    BY <1>5, <2>1, <2>2, <2>3, LargestInteger
  <2>5. 1 \in both /\ (a = 1 \/ a = n - overlap + 1)
    BY <2>1, <2>4
  <2>6. QED
    BY <1>4, <2>4, <2>5
<1>7. PICK s : s = SubSeq(t, a, n)
  OBVIOUS
<1>8. Len(s) = n - a + 1 /\ \A i \in 1..(n - a + 1) : s[i] = t[a + i - 1]
  <2>1. Len(s) = IF a <= n THEN n - a + 1 ELSE 0
    BY <1>1, <1>6, <1>7, PartOfText
  <2>2. \A i \in 1..(n - a + 1) : s[i] = t[a + i - 1]
    BY <1>1, <1>6, <1>7, PartOfText
  <2>3. QED
    BY <1>6, <2>1, <2>2
<1>9. PICK j : j = k - a + 1
  OBVIOUS
<1>10. j \in Nat /\ j \in 1..Len(s) /\ j + l \in j..Len(s) /\ j + l = Len(s)
  BY <1>4, <1>6, <1>8, <1>9
<1>11. ASSUME NEW i \in 0..l PROVE s[j + i] = text[p + i]
  <2>1. j + i \in 1..(n - a + 1) /\ a + (j + i) - 1 = k + i
    BY <1>4, <1>6, <1>9
  <2>2. s[j + i] = t[a + (j + i) - 1]
    BY <1>8, <2>1
  <2>3. QED
    BY <1>4, <2>1, <2>2
<1>12. EndsWith(s, text, p, q)
  BY <1>3, <1>10, <1>11 DEF EndsWith, Shows
<1>13. LastOf(t, overlap) = s
  BY <1>1, <1>5, <1>7 DEF LastOf
<1>14. QED
  BY <1>12, <1>13

\* What a piece shows, a chunk made of it shows.
LEMMA TailedShows ==
    ASSUME NEW chunk \in Seq(Characters), NEW piece \in Seq(Characters), NEW overlap \in Nat,
           NEW text, NEW p \in Int, NEW q \in Int, p <= q,
           NEW k, Shows(piece, k, text, p, q),
           text[p] \notin Whitespace, text[q] \notin Whitespace
    PROVE  \E j \in Nat : /\ Shows(WithTail(chunk, piece, overlap), j, text, p, q)
                          /\ k + (q - p) = Len(piece)
                                => EndsWith(WithTail(chunk, piece, overlap), text, p, q)
<1>1. PICK s, t : s = LastOf(chunk, overlap) \o << Blank >> /\ t = s \o piece
  OBVIOUS
<1>2. s \in Seq(Characters)
  <2>1. Blank \in Characters
    BY WhitespaceIsSeparate DEF Whitespace
  <2>2. LastOf(chunk, overlap) \in Seq(Characters) /\ << Blank >> \in Seq(Characters)
    BY <2>1, LastOfIs
  <2>3. QED
    BY <1>1, <2>2, ConcatProperties
<1>3. PICK m, n, l : m = Len(s) /\ n = Len(piece) /\ l = q - p
  OBVIOUS
<1>4. m \in Nat /\ n \in Nat /\ l \in Nat
  BY <1>2, <1>3, LenProperties
<1>5. /\ t \in Seq(Characters) /\ Len(t) = m + n
      /\ \A i \in 1..(m + n) : t[i] = IF i <= m THEN s[i] ELSE piece[i - m]
  BY <1>1, <1>2, <1>3, ConcatProperties
<1>6. /\ k \in 1..n /\ k + l \in k..n /\ \A i \in 0..l : piece[k + i] = text[p + i]
  BY <1>3 DEF Shows
<1>7. PICK h : h = m + k
  OBVIOUS
<1>8. h \in 1..Len(t) /\ h + l \in h..Len(t) /\ (k + l = n => h + l = Len(t))
  BY <1>4, <1>5, <1>6, <1>7
<1>9. ASSUME NEW i \in 0..l PROVE t[h + i] = text[p + i]
  <2>1. h + i \in 1..(m + n) /\ ~ (h + i <= m) /\ (h + i) - m = k + i
    BY <1>4, <1>6, <1>7
  <2>2. t[h + i] = piece[k + i]
    BY <1>5, <2>1
  <2>3. QED
    BY <1>6, <2>2
<1>10. Shows(t, h, text, p, q)
  BY <1>3, <1>8, <1>9 DEF Shows
<1>11. PICK j \in Nat : /\ Shows(Strip(t), j, text, p, q)
                        /\ h + (q - p) = Len(t) => j + (q - p) = Len(Strip(t))
  <2>1. SurvivesStrip(t, h, text, p, q)
    BY <1>5, <1>10, StripShows
  <2>2. QED
    BY <2>1 DEF SurvivesStrip
<1>12. WithTail(chunk, piece, overlap) = Strip(t)
  BY <1>1 DEF WithTail
<1>13. QED
  BY <1>3, <1>8, <1>11, <1>12 DEF EndsWith

\* A phrase whose first part ends the chunk before and whose last part begins the
\* piece is whole again when the first is short enough for the overlap.
LEMMA TailJoins ==
    ASSUME NEW chunk \in Seq(Characters), NEW piece \in Seq(Characters), NEW overlap \in Nat,
           NEW text, NEW p \in Int, NEW b \in Int, NEW q \in Int, p <= b, b + 2 <= q,
           b - p + 1 <= overlap, EndsWith(chunk, text, p, b), text[b + 1] = Blank,
           Shows(piece, 1, text, b + 2, q),
           text[p] \notin Whitespace, text[q] \notin Whitespace
    PROVE  \E j \in Nat : /\ Shows(WithTail(chunk, piece, overlap), j, text, p, q)
                          /\ q - b - 1 = Len(piece)
                                => EndsWith(WithTail(chunk, piece, overlap), text, p, q)
<1>1. PICK last, blank, s, t : /\ last = LastOf(chunk, overlap) /\ blank = << Blank >>
                               /\ s = last \o blank /\ t = s \o piece
  OBVIOUS
<1>2. last \in Seq(Characters) /\ EndsWith(last, text, p, b)
  BY <1>1, LastOfIs, LastOfShows
<1>3. blank \in Seq(Characters) /\ Len(blank) = 1 /\ blank[1] = Blank
  <2>1. Blank \in Characters
    BY WhitespaceIsSeparate DEF Whitespace
  <2>2. QED
    BY <1>1, <2>1
<1>4. PICK m, n, u, v : m = Len(last) /\ n = Len(piece) /\ u = b - p /\ v = q - b - 2
  OBVIOUS
<1>5. m \in Nat /\ n \in Nat /\ u \in Nat /\ v \in Nat /\ q - (b + 2) = v /\ q - p = u + v + 2
  BY <1>2, <1>4, LenProperties
<1>6. PICK k \in Nat : /\ k \in 1..m /\ k + u = m
                       /\ \A i \in 0..u : last[k + i] = text[p + i]
  BY <1>2, <1>4 DEF EndsWith, Shows
<1>7. /\ 1 + v \in 1..n /\ \A i \in 0..v : piece[1 + i] = text[b + 2 + i]
  BY <1>4, <1>5 DEF Shows
<1>8. /\ s \in Seq(Characters) /\ Len(s) = m + 1
      /\ \A i \in 1..(m + 1) : s[i] = IF i <= m THEN last[i] ELSE blank[i - m]
  <2>1. /\ s \in Seq(Characters) /\ Len(s) = Len(last) + Len(blank)
        /\ \A i \in 1..(Len(last) + Len(blank)) :
              s[i] = IF i <= Len(last) THEN last[i] ELSE blank[i - Len(last)]
    BY <1>1, <1>2, <1>3, ConcatProperties
  <2>2. QED
    BY <1>3, <1>4, <2>1
<1>9. /\ t \in Seq(Characters) /\ Len(t) = m + 1 + n
      /\ \A i \in 1..(m + 1 + n) : t[i] = IF i <= m + 1 THEN s[i] ELSE piece[i - (m + 1)]
  <2>1. /\ t \in Seq(Characters) /\ Len(t) = Len(s) + Len(piece)
        /\ \A i \in 1..(Len(s) + Len(piece)) :
              t[i] = IF i <= Len(s) THEN s[i] ELSE piece[i - Len(s)]
    BY <1>1, <1>8, ConcatProperties
  <2>2. QED
    BY <1>4, <1>8, <2>1
<1>9a. 1 <= k /\ k + u = m /\ 1 + v <= n
  BY <1>5, <1>6, <1>7
<1>10. ASSUME NEW i \in 0..(q - p) PROVE t[k + i] = text[p + i]
  <2>0. i \in Int /\ 0 <= i /\ i <= u + v + 2
    BY <1>5
  <2>1. i \in Int /\ 0 <= i /\ i <= u + v + 2 /\ k + i \in 1..(m + 1 + n)
    BY <1>5, <1>9a, <2>0
  <2>2. CASE i <= u
    <3>1. k + i \in 1..(m + 1) /\ k + i <= m /\ k + i <= m + 1 /\ i \in 0..u
      BY <1>5, <1>6, <2>1, <2>2
    <3>2. t[k + i] = s[k + i]
      BY <1>9, <2>1, <3>1
    <3>3. s[k + i] = last[k + i]
      BY <1>8, <3>1
    <3>4. QED
      BY <1>6, <3>1, <3>2, <3>3
  <2>3. CASE i = u + 1
    <3>1. k + i = m + 1 /\ p + i = b + 1
      BY <1>4, <1>5, <1>6, <2>3
    <3>2. m + 1 \in 1..(m + 1) /\ ~ (m + 1 <= m) /\ (m + 1) - m = 1 /\ m + 1 <= m + 1
      BY <1>5
    <3>3. s[m + 1] = blank[1]
      BY <1>8, <3>2
    <3>4. t[m + 1] = s[m + 1]
      BY <1>9, <2>1, <3>1, <3>2
    <3>5. QED
      BY <1>3, <3>1, <3>3, <3>4
  <2>4. CASE u + 1 < i
    <3>1. PICK j : j = i - u - 2
      OBVIOUS
    <3>2. /\ j \in 0..v /\ ~ (k + i <= m + 1) /\ (k + i) - (m + 1) = 1 + j
          /\ b + 2 + j = p + i
      BY <1>4, <1>5, <1>6, <2>1, <2>4, <3>1, SMTT(30)
    <3>3. t[k + i] = piece[1 + j]
      BY <1>9, <2>1, <3>2
    <3>4. QED
      BY <1>7, <3>2, <3>3
  <2>5. QED
    BY <1>5, <2>1, <2>2, <2>3, <2>4
<1>11. PICK all : all = Len(t)
  OBVIOUS
<1>12. k \in 1..all /\ k + (q - p) \in k..all /\ (q - b - 1 = n => k + (q - p) = all)
  <2>1. all = m + 1 + n /\ q - b - 1 = v + 1
    BY <1>4, <1>9, <1>11
  <2>2. 1 <= k /\ k \in Nat /\ k + u = m /\ 1 + v <= n /\ q - p = u + v + 2
    BY <1>5, <1>9a
  <2>3. u \in Nat /\ v \in Nat /\ m \in Nat /\ n \in Nat
    BY <1>4, <1>5
  <2>4. k + (q - p) = m + v + 2
    BY <2>2, <2>3
  <2>5. k \in 1..all /\ k + (q - p) \in k..all
    BY <2>1, <2>2, <2>3, <2>4
  <2>6. QED
    BY <2>1, <2>3, <2>4, <2>5
<1>13. Shows(t, k, text, p, q)
  BY <1>10, <1>11, <1>12 DEF Shows
<1>14. PICK j \in Nat : /\ Shows(Strip(t), j, text, p, q)
                        /\ k + (q - p) = Len(t) => j + (q - p) = Len(Strip(t))
  <2>1. p <= q
    OBVIOUS
  <2>2. t \in Seq(Characters)
    BY <1>9
  <2>3. SurvivesStrip(t, k, text, p, q)
    BY <1>13, <2>1, <2>2, StripShows
  <2>4. QED
    BY <2>3 DEF SurvivesStrip
<1>15. WithTail(chunk, piece, overlap) = Strip(t)
  BY <1>1 DEF WithTail
<1>16. QED
  BY <1>4, <1>11, <1>12, <1>14, <1>15 DEF EndsWith

\* Where two pieces meet within a phrase is one blank.
LEMMA GapInPhrase ==
    ASSUME NEW text \in Seq(Characters), SingleBlanks(text),
           NEW pieces, NEW a, NEW b, PlacedAt(text, Len(text), pieces, a, b),
           NEW i \in 1..Len(pieces), NEW p, NEW q, Phrase(text, p, q), p < a[i], a[i] <= q
    PROVE  /\ i # 1 /\ p <= b[i - 1] /\ a[i] = b[i - 1] + 2 /\ text[b[i - 1] + 1] = Blank
           /\ Phrase(text, p, b[i - 1]) /\ Phrase(text, a[i], q)
<1>1. PICK n \in Nat : n = Len(text)
  BY LenProperties
<1>2. PICK m : m = Len(pieces)
  OBVIOUS
<1>3. /\ m \in Nat /\ i \in 1..m
      /\ \A j \in 1..m : a[j] \in Int /\ b[j] \in Int /\ a[j] <= b[j] /\ b[j] <= n
      /\ \A j, k \in 1..m : j < k => b[j] + 1 < a[k]
  <2>1. pieces \in Seq(Seq(Characters))
    BY DEF PlacedAt
  <2>2. m \in Nat
    BY <1>2, <2>1, LenProperties
  <2>3. QED
    BY <1>1, <1>2, <2>2 DEF PlacedAt
<1>4. /\ p \in 1..n /\ q \in p..n /\ text[p] \in WordChars /\ text[q] \in WordChars
      /\ \A k \in p..q : text[k] \in WordChars \cup {Blank}
  BY <1>1 DEF Phrase
<1>5. Blank \notin WordChars
  BY WhitespaceIsSeparate DEF Whitespace
<1>6. i # 1
  <2> SUFFICES ASSUME i = 1 PROVE FALSE
    OBVIOUS
  <2>1. 0 \in 0..Len(pieces) /\ p \in 1..Len(text) /\ 0 + 1 = i
    BY <1>1, <1>2, <1>3, <1>4
  <2>2. text[p] \notin WordChars
    BY <2>1, GapIsWordless
  <2>3. QED
    BY <1>4, <2>2
<1>7. PICK h, x, y, z : h = i - 1 /\ x = a[h] /\ y = b[h] /\ z = a[i]
  OBVIOUS
<1>8. h \in 1..m /\ h < i /\ h + 1 = i
  BY <1>3, <1>6, <1>7
<1>9. x \in Int /\ y \in Int /\ z \in Int /\ x <= y /\ y + 1 < z /\ p < z /\ z <= q
  BY <1>3, <1>7, <1>8
<1>10. ASSUME NEW k \in 1..n, y < k, k < z PROVE text[k] \notin WordChars
  <2>1. h \in 0..Len(pieces) /\ k \in 1..Len(text)
    BY <1>1, <1>2, <1>8
  <2>2. QED
    BY <1>7, <1>8, <1>10, <2>1, GapIsWordless
<1>11. p <= y
  <2>1. ~ (y < p)
    BY <1>4, <1>9, <1>10
  <2>2. QED
    BY <1>4, <1>9, <2>1
<1>12. ASSUME NEW k \in p..q, y < k, k < z PROVE text[k] = Blank
  <2>1. k \in 1..n
    BY <1>4
  <2>2. QED
    BY <1>4, <1>10, <1>12, <2>1
<1>13. ASSUME NEW k \in p..q, k + 1 \in p..q, text[k] = Blank PROVE text[k + 1] # Blank
  <2>1. k \in 1..(Len(text) - 1)
    BY <1>1, <1>4, <1>13
  <2>2. << text[k], text[k + 1] >> # << Blank, Blank >>
    BY <2>1 DEF SingleBlanks
  <2>3. QED
    BY <1>13, <2>2
<1>14. text[y + 1] = Blank
  <2>1. y + 1 \in p..q /\ y < y + 1
    BY <1>4, <1>9, <1>11
  <2>2. QED
    BY <1>9, <1>12, <2>1
<1>15. z = y + 2
  <2> SUFFICES ASSUME y + 2 < z PROVE FALSE
    BY <1>9
  <2>1. /\ y + 1 \in p..q /\ (y + 1) + 1 \in p..q /\ y < y + 1 /\ y < (y + 1) + 1
        /\ (y + 1) + 1 < z
    BY <1>4, <1>9, <1>11
  <2>2. text[(y + 1) + 1] = Blank
    BY <1>12, <2>1
  <2>3. QED
    BY <1>13, <1>14, <2>1, <2>2
<1>16. text[y] \in WordChars
  <2>1. y \in p..q /\ y + 1 \in p..q
    BY <1>4, <1>9, <1>11
  <2>2. text[y] # Blank
    BY <1>13, <1>14, <2>1
  <2>3. QED
    BY <1>4, <2>1, <2>2
<1>17. text[z] \in WordChars
  <2>1. y + 1 \in p..q /\ (y + 1) + 1 = z /\ z \in p..q
    BY <1>4, <1>9, <1>11, <1>15
  <2>2. text[z] # Blank
    BY <1>13, <1>14, <2>1
  <2>3. QED
    BY <1>4, <2>1, <2>2
<1>18. Phrase(text, p, y)
  <2>1. y \in p..n /\ \A k \in p..y : k \in p..q
    BY <1>4, <1>9, <1>11
  <2>2. QED
    BY <1>1, <1>4, <1>16, <2>1 DEF Phrase
<1>19. Phrase(text, z, q)
  <2>1. z \in 1..n /\ q \in z..n /\ \A k \in z..q : k \in p..q
    BY <1>4, <1>9
  <2>2. QED
    BY <1>1, <1>4, <1>17, <2>1 DEF Phrase
<1>20. QED
  BY <1>6, <1>7, <1>8, <1>11, <1>14, <1>15, <1>18, <1>19

\* A piece shows what lies in it.
LEMMA PieceShows ==
    ASSUME NEW text \in Seq(Characters), NEW piece, NEW x, NEW y, Spans(piece, text, x, y),
           NEW p \in x..y, NEW q \in p..y
    PROVE  /\ Shows(piece, p - x + 1, text, p, q)
           /\ q = y => EndsWith(piece, text, p, q)
<1>1. PICK n \in Nat : n = Len(text)
  BY LenProperties
<1>2. /\ x \in 1..(n + 1) /\ y \in (x - 1)..n /\ Len(piece) = y - x + 1
      /\ \A r \in 1..(y - x + 1) : piece[r] = text[x + r - 1]
  BY <1>1 DEF Spans
<1>3. PICK k, l : k = p - x + 1 /\ l = y - x + 1
  OBVIOUS
<1>4. /\ k \in 1..l /\ k + (q - p) \in k..l /\ k \in Nat /\ (q = y => k + (q - p) = l)
  <2>1. x \in Int /\ y \in Int
    BY <1>2
  <2>2. QED
    BY <1>3, <2>1
<1>5. ASSUME NEW i \in 0..(q - p) PROVE piece[k + i] = text[p + i]
  <2>1. k + i \in 1..(y - x + 1) /\ x + (k + i) - 1 = p + i
    BY <1>2, <1>3
  <2>2. QED
    BY <1>2, <2>1
<1>6. Shows(piece, k, text, p, q)
  BY <1>2, <1>3, <1>4, <1>5 DEF Shows
<1>7. QED
  BY <1>2, <1>3, <1>4, <1>6 DEF EndsWith

\* A chunk ends as its text does: what it repeats goes on in its piece.
LEMMA TailKept ==
    ASSUME NEW text \in Seq(Characters), SingleBlanks(text), NEW size \in Nat,
           NEW overlap \in Nat, NEW pieces \in Seq(Worded(size)),
           NEW a, NEW b, PlacedAt(text, Len(text), pieces, a, b),
           NEW chunks, TailedBy(pieces, overlap, chunks)
    PROVE  \A i \in 1..Len(pieces) : \A p \in Int :
              Phrase(text, p, b[i]) /\ b[i] - p + 1 <= overlap => EndsWith(chunks[i], text, p, b[i])
<1>1. PICK n \in Nat, m \in Nat : n = Len(text) /\ m = Len(pieces)
  BY LenProperties
<1>2. \A i \in 1..m : /\ a[i] \in Int /\ b[i] \in Int /\ a[i] <= b[i]
                      /\ Spans(pieces[i], text, a[i], b[i])
  BY <1>1 DEF PlacedAt
<1> DEFINE Right(i) == \A p \in Int : Phrase(text, p, b[i]) /\ b[i] - p + 1 <= overlap
                                         => EndsWith(chunks[i], text, p, b[i])
           N == { k \in Nat : k + 1 <= m => Right(k + 1) }
<1>3. ASSUME NEW i \in 1..m, i # 1 => Right(i - 1) PROVE Right(i)
  <2> SUFFICES ASSUME NEW p \in Int, Phrase(text, p, b[i]), b[i] - p + 1 <= overlap
               PROVE  EndsWith(chunks[i], text, p, b[i])
    OBVIOUS
  <2>1. PICK x, y, piece : x = a[i] /\ y = b[i] /\ piece = pieces[i]
    OBVIOUS
  <2>2. x \in Int /\ y \in Int /\ x <= y /\ Spans(piece, text, x, y) /\ piece \in Seq(Characters)
    BY <1>2, <2>1 DEF Spans
  <2>3. p <= y /\ text[p] \notin Whitespace /\ text[y] \notin Whitespace
    BY <2>1, <2>2, WhitespaceIsSeparate DEF Phrase
  <2>4. i # 1 => /\ chunks[i - 1] \in Seq(Characters)
                 /\ chunks[i] = WithTail(chunks[i - 1], piece, overlap)
    <3>1. i # 1 => i \in 2..Len(pieces)
      BY <1>1
    <3>2. QED
      BY <2>1, <3>1, TailedChunks
  <2>5. CASE x <= p
    <3>1. p \in x..y /\ y \in p..y
      BY <2>2, <2>3, <2>5
    <3>2. Shows(piece, p - x + 1, text, p, y) /\ EndsWith(piece, text, p, y)
      BY <2>2, <3>1, PieceShows
    <3>3. CASE i = 1
      <4>1. chunks[i] = piece
        BY <2>1, <3>3 DEF TailedBy
      <4>2. QED
        BY <2>1, <3>2, <4>1
    <3>4. CASE i # 1
      <4>1. PICK k \in Nat : Shows(piece, k, text, p, y) /\ k + (y - p) = Len(piece)
        BY <3>2 DEF EndsWith
      <4>2. PICK chunk : chunk = chunks[i - 1]
        OBVIOUS
      <4>3. EndsWith(WithTail(chunk, piece, overlap), text, p, y)
        BY <2>2, <2>3, <2>4, <3>4, <4>1, <4>2, TailedShows
      <4>4. QED
        BY <2>1, <2>4, <3>4, <4>2, <4>3
    <3>5. QED
      BY <3>3, <3>4
  <2>6. CASE ~ (x <= p)
    <3>1. i \in 1..Len(pieces) /\ p < a[i] /\ a[i] <= b[i]
      BY <1>1, <2>1, <2>2, <2>6
    <3>2. PICK z, chunk : z = b[i - 1] /\ chunk = chunks[i - 1]
      OBVIOUS
    <3>3. /\ i # 1 /\ p <= z /\ x = z + 2 /\ text[z + 1] = Blank /\ Phrase(text, p, z)
      BY <2>1, <3>1, <3>2, GapInPhrase
    <3>4. z \in Int
      <4>1. i - 1 \in 1..m
        BY <3>3
      <4>2. QED
        BY <1>2, <3>2, <4>1
    <3>5. z - p + 1 <= overlap
      BY <2>1, <2>2, <3>3, <3>4
    <3>6. EndsWith(chunk, text, p, z)
      BY <1>3, <3>2, <3>3, <3>5
    <3>7. Shows(piece, 1, text, z + 2, y)
      <4>1. x \in x..y /\ y \in x..y /\ x - x + 1 = 1
        BY <2>2
      <4>2. Shows(piece, x - x + 1, text, x, y)
        BY <2>2, <4>1, PieceShows
      <4>3. QED
        BY <3>3, <4>1, <4>2
    <3>8. chunk \in Seq(Characters) /\ z + 2 <= y /\ y - z - 1 = Len(piece)
      <4>1. Len(piece) = y - x + 1
        BY <2>2 DEF Spans
      <4>2. chunk \in Seq(Characters)
        BY <2>4, <3>2, <3>3
      <4>3. z + 2 <= y /\ y - z - 1 = y - x + 1
        BY <2>2, <3>3, <3>4
      <4>4. QED
        BY <4>1, <4>2, <4>3
    <3>9. EndsWith(WithTail(chunk, piece, overlap), text, p, y)
      BY <2>2, <2>3, <3>3, <3>4, <3>5, <3>6, <3>7, <3>8, TailJoins
    <3>10. QED
      BY <2>1, <2>4, <3>2, <3>3, <3>9
  <2>7. QED
    BY <2>5, <2>6
<1>4. 0 \in N
  <2> SUFFICES ASSUME 0 + 1 <= m PROVE Right(0 + 1)
    OBVIOUS
  <2> HIDE DEF Right
  <2>1. 1 \in 1..m /\ 0 + 1 = 1
    OBVIOUS
  <2>2. Right(1)
    BY <1>3, <2>1
  <2>3. QED
    BY <2>1, <2>2
<1>5. ASSUME NEW k \in Nat, k \in N PROVE k + 1 \in N
  <2> SUFFICES ASSUME (k + 1) + 1 <= m PROVE Right((k + 1) + 1)
    OBVIOUS
  <2> HIDE DEF Right
  <2>1. PICK i : i = (k + 1) + 1
    OBVIOUS
  <2>2. i \in 1..m /\ i - 1 = k + 1 /\ k + 1 <= m
    BY <2>1
  <2>3. Right(i - 1)
    BY <1>5, <2>2
  <2>4. QED
    BY <1>3, <2>1, <2>2, <2>3
<1>6. ASSUME NEW i \in 1..m PROVE Right(i)
  <2> HIDE DEF Right
  <2>1. PICK k \in Nat : k = i - 1
    OBVIOUS
  <2>2. k \in N
    <3> HIDE DEF N
    <3>1. QED
      BY <1>4, <1>5, NaturalInduction
  <2>3. k + 1 = i /\ k + 1 <= m
    BY <2>1
  <2>4. QED
    BY <2>2, <2>3
<1>7. QED
  BY <1>1, <1>6

\* A phrase that fits the overlap with a character on either side of a cut is
\* whole in some chunk.
LEMMA PhraseIsWhole ==
    ASSUME NEW text \in Seq(Characters), SingleBlanks(text), NEW size \in Nat,
           NEW overlap \in Nat, NEW pieces \in Seq(Worded(size)),
           Lie(text, Len(text), pieces),
           NEW chunks,
           chunks = pieces \/ TailedBy(pieces, overlap, chunks),
           overlap # 0 /\ Len(pieces) > 1 => TailedBy(pieces, overlap, chunks),
           NEW p, NEW q, Phrase(text, p, q), q - p + 1 <= overlap + 2
    PROVE  \E i \in 1..Len(pieces) : \E k \in Nat : Shows(chunks[i], k, text, p, q)
<1>1. PICK a, b : PlacedAt(text, Len(text), pieces, a, b)
  BY DEF Lie
<1>2. PICK n \in Nat, m \in Nat : n = Len(text) /\ m = Len(pieces)
  BY LenProperties
<1>3. \A i \in 1..m : /\ a[i] \in Int /\ b[i] \in Int /\ a[i] <= b[i]
                      /\ Spans(pieces[i], text, a[i], b[i])
  BY <1>1, <1>2 DEF PlacedAt
<1>4. /\ p \in 1..n /\ q \in p..n /\ p \in Int /\ q \in Int /\ p <= q
      /\ text[p] \in WordChars /\ text[q] \in WordChars
      /\ text[p] \notin Whitespace /\ text[q] \notin Whitespace
  BY <1>2, WhitespaceIsSeparate DEF Phrase
<1>5. PICK i \in 1..m : a[i] <= q /\ q <= b[i]
  <2>1. q \in 1..Len(text)
    BY <1>2, <1>4
  <2>2. QED
    BY <1>1, <1>2, <1>4, <2>1 DEF PlacedAt
<1>6. PICK x, y, piece : x = a[i] /\ y = b[i] /\ piece = pieces[i]
  OBVIOUS
<1>7. /\ x \in Int /\ y \in Int /\ x <= q /\ q <= y /\ Spans(piece, text, x, y)
      /\ piece \in Seq(Characters)
  BY <1>3, <1>5, <1>6 DEF Spans
<1>8. TailedBy(pieces, overlap, chunks) /\ i # 1
         => /\ chunks[i - 1] \in Seq(Characters)
            /\ chunks[i] = WithTail(chunks[i - 1], piece, overlap)
  <2>1. i # 1 => i \in 2..Len(pieces)
    BY <1>2
  <2>2. QED
    BY <1>6, <2>1, TailedChunks
<1>9. CASE x <= p
  <2>1. p \in x..y /\ q \in p..y
    BY <1>4, <1>7, <1>9
  <2>2. PICK k : k = p - x + 1
    OBVIOUS
  <2>3. Shows(piece, k, text, p, q) /\ k \in Nat
    <3>1. k \in Nat
      BY <1>7, <2>1, <2>2
    <3>2. QED
      BY <1>7, <2>1, <2>2, <3>1, PieceShows
  <2>4. CASE chunks[i] = piece
    BY <1>2, <2>3, <2>4
  <2>5. CASE chunks[i] # piece
    <3>1. TailedBy(pieces, overlap, chunks) /\ i # 1
      BY <1>6, <2>5 DEF TailedBy
    <3>2. PICK chunk : chunk = chunks[i - 1]
      OBVIOUS
    <3>3. \E j \in Nat : Shows(WithTail(chunk, piece, overlap), j, text, p, q)
      BY <1>4, <1>7, <1>8, <2>3, <3>1, <3>2, TailedShows
    <3>4. QED
      BY <1>2, <1>8, <3>1, <3>2, <3>3
  <2>6. QED
    BY <2>4, <2>5
<1>10. CASE ~ (x <= p)
  <2>1. i \in 1..Len(pieces) /\ p < a[i] /\ a[i] <= q
    BY <1>2, <1>4, <1>6, <1>7, <1>10
  <2>2. PICK z, chunk : z = b[i - 1] /\ chunk = chunks[i - 1]
    OBVIOUS
  <2>3. /\ i # 1 /\ p <= z /\ x = z + 2 /\ text[z + 1] = Blank /\ Phrase(text, p, z)
    BY <1>1, <1>6, <2>1, <2>2, GapInPhrase
  <2>4. z \in Int /\ i - 1 \in 1..m
    <3>1. i - 1 \in 1..m
      BY <2>3
    <3>2. QED
      BY <1>3, <2>2, <3>1
  <2>5. z - p + 1 <= overlap /\ overlap # 0
    BY <1>4, <1>7, <2>3, <2>4
  <2>6. TailedBy(pieces, overlap, chunks)
    <3>1. Len(pieces) > 1
      BY <1>2, <2>3
    <3>2. QED
      BY <2>5, <3>1
  <2>7. EndsWith(chunk, text, p, z)
    BY <1>1, <1>2, <1>4, <2>2, <2>3, <2>4, <2>5, <2>6, TailKept
  <2>8. Shows(piece, 1, text, z + 2, q)
    <3>1. x \in x..y /\ q \in x..y /\ x - x + 1 = 1
      BY <1>4, <1>7
    <3>2. Shows(piece, x - x + 1, text, x, q)
      BY <1>7, <3>1, PieceShows
    <3>3. QED
      BY <2>3, <3>1, <3>2
  <2>9. z + 2 <= q
    BY <1>7, <2>3
  <2>10. chunk \in Seq(Characters) /\ chunks[i] = WithTail(chunk, piece, overlap)
    BY <1>8, <2>2, <2>3, <2>6
  <2>11. \E j \in Nat : Shows(WithTail(chunk, piece, overlap), j, text, p, q)
    BY <1>4, <1>7, <2>3, <2>4, <2>5, <2>7, <2>8, <2>9, <2>10, TailJoins
  <2>12. QED
    BY <1>2, <2>10, <2>11
<1>11. QED
  BY <1>9, <1>10

\* Stripping a text keeps what is asked of it, and its phrases.
LEMMA StripKeeps ==
    ASSUME NEW text \in Seq(Characters), NEW size \in Nat
    PROVE  /\ SingleBlanks(text) => SingleBlanks(Strip(text))
           /\ NoWordIsCut(text, size) => NoWordIsCut(Strip(text), size)
<1>1. PICK n \in Nat : n = Len(text)
  BY LenProperties
<1>2. PICK s : s = Strip(text)
  OBVIOUS
<1>3. \E x \in 1..(n + 1) : \E y \in (x - 1)..n : Spans(s, text, x, y)
  <2>1. CASE Solid(text) = {}
    <3>1. PICK none : none = <<>>
      OBVIOUS
    <3>2. s = none
      BY <1>2, <2>1, <3>1 DEF Strip
    <3>3. 1 \in 1..(n + 1) /\ 1 - 1 \in (1 - 1)..n
      OBVIOUS
    <3>4. Spans(s, text, 1, 1 - 1)
      BY <1>1, <3>1, <3>2, <3>3, SpansItself
    <3>5. QED
      BY <3>3, <3>4
  <2>2. CASE Solid(text) # {}
    <3>1. PICK x, y : x = Min(Solid(text)) /\ y = Max(Solid(text))
      OBVIOUS
    <3>2. s = SubSeq(text, x, y)
      BY <1>2, <2>2, <3>1 DEF Strip
    <3>3. Solid(text) \in SUBSET (1..n) /\ Solid(text) \in SUBSET Int /\ IsFiniteSet(Solid(text))
      BY <1>1, SolidIs
    <3>4. x \in Solid(text) /\ \A k \in Solid(text) : x <= k
      BY <2>2, <3>1, <3>3, LeastInteger
    <3>5. y \in Solid(text) /\ \A k \in Solid(text) : k <= y
      BY <2>2, <3>1, <3>3, LargestInteger
    <3>6. x \in 1..n /\ y \in 1..n /\ x <= y
      BY <3>3, <3>4, <3>5
    <3>7. x \in 1..(n + 1) /\ y \in (x - 1)..n
      BY <3>6
    <3>8. Spans(s, text, x, y)
      BY <1>1, <3>2, <3>6, SpansSubSeq
    <3>9. QED
      BY <3>7, <3>8
  <2>3. QED
    BY <2>1, <2>2
<1>4. PICK x \in 1..(n + 1) : \E y \in (x - 1)..n : Spans(s, text, x, y)
  BY <1>3
<1>5. PICK y \in (x - 1)..n : Spans(s, text, x, y)
  BY <1>4
<1>6. ASSUME SingleBlanks(text) PROVE SingleBlanks(s)
  <2> SUFFICES ASSUME NEW i \in 1..(Len(s) - 1)
               PROVE  << s[i], s[i + 1] >> # << Blank, Blank >>
    BY DEF SingleBlanks
  <2>1. Len(s) = y - x + 1 /\ \A r \in 1..Len(s) : s[r] = text[x + r - 1]
    BY <1>5 DEF Spans
  <2>2. PICK k : k = x + i - 1
    OBVIOUS
  <2>3. i \in 1..Len(s) /\ i + 1 \in 1..Len(s) /\ k \in 1..(n - 1) /\ x + (i + 1) - 1 = k + 1
    BY <2>1, <2>2
  <2>4. s[i] = text[k] /\ s[i + 1] = text[k + 1]
    BY <2>1, <2>2, <2>3
  <2>5. << text[k], text[k + 1] >> # << Blank, Blank >>
    BY <1>1, <1>6, <2>3 DEF SingleBlanks
  <2>6. QED
    BY <2>4, <2>5
<1>7. NoWordIsCut(text, size) => NoWordIsCut(s, size)
  BY <1>5, PartIsNotCut
<1>8. QED
  BY <1>2, <1>6, <1>7

\* What a marker may quote is a phrase of the text.
LEMMA MarkerIsPhrase ==
    ASSUME NEW text \in Seq(Characters), NEW overlap \in Nat, NEW marker \in Quotable(text, overlap)
    PROVE  /\ marker \in Seq(Characters) /\ marker # <<>> /\ Len(marker) <= overlap + 2
           /\ \E p, q : Phrase(text, p, q) /\ Spans(marker, text, p, q)
<1>1. PICK n \in Nat : n = Len(text)
  BY LenProperties
<1>2. /\ marker # <<>> /\ Len(marker) <= overlap + 2
      /\ Head(marker) # Blank /\ Last(marker) # Blank
      /\ ToSet(marker) \subseteq WordChars \cup {Blank}
      /\ marker \in { SubSeq(text, i, j) : i, j \in DOMAIN text }
  BY DEF Quotable
<1>3. PICK p \in 1..n, q \in 1..n : marker = SubSeq(text, p, q)
  <2>1. DOMAIN text = 1..n
    BY <1>1, LenProperties
  <2>2. \E p \in DOMAIN text : \E q \in DOMAIN text : marker = SubSeq(text, p, q)
    <3>1. marker \in { SubSeq(text, i, j) : i, j \in DOMAIN text }
      BY <1>2
    <3>2. QED
      BY <3>1, SMT
  <2>3. QED
    BY <2>1, <2>2
<1>4. marker \in Seq(Characters) /\ Len(marker) = IF p <= q THEN q - p + 1 ELSE 0
  BY <1>1, <1>3, PartOfText
<1>5. p <= q /\ Len(marker) = q - p + 1
  <2>1. Len(marker) # 0
    BY <1>2, <1>4, EmptySeq
  <2>2. QED
    BY <1>4, <2>1
<1>6. Spans(marker, text, p, q)
  BY <1>1, <1>3, <1>5, SpansSubSeq
<1>7. \A r \in 1..(q - p + 1) : marker[r] = text[p + r - 1]
  BY <1>5, <1>6 DEF Spans
<1>8. ASSUME NEW k \in p..q PROVE text[k] \in WordChars \cup {Blank}
  <2>1. PICK r : r = k - p + 1
    OBVIOUS
  <2>2. r \in 1..(q - p + 1) /\ p + r - 1 = k
    BY <2>1
  <2>3. marker[r] = text[k] /\ r \in DOMAIN marker
    BY <1>4, <1>5, <1>7, <2>2, LenProperties
  <2>4. marker[r] \in ToSet(marker)
    BY <2>3 DEF ToSet
  <2>5. QED
    BY <1>2, <2>3, <2>4
<1>9. text[p] # Blank /\ text[q] # Blank
  <2>1. Head(marker) = marker[1] /\ Last(marker) = marker[q - p + 1]
    BY <1>2, <1>4, <1>5 DEF Last
  <2>2. 1 \in 1..(q - p + 1) /\ q - p + 1 \in 1..(q - p + 1)
        /\ p + 1 - 1 = p /\ p + (q - p + 1) - 1 = q
    BY <1>5
  <2>3. marker[1] = text[p] /\ marker[q - p + 1] = text[q]
    BY <1>7, <2>2
  <2>4. QED
    BY <1>2, <2>1, <2>3
<1>10. Phrase(text, p, q)
  <2>1. p \in p..q /\ q \in p..q /\ q \in p..n
    BY <1>5
  <2>2. text[p] \in WordChars /\ text[q] \in WordChars
    BY <1>8, <1>9, <2>1
  <2>3. QED
    BY <1>1, <1>8, <2>1, <2>2 DEF Phrase
<1>11. QED
  BY <1>2, <1>4, <1>6, <1>10

\* A text shown in a chunk occurs in it.
LEMMA ShownOccurs ==
    ASSUME NEW chunk \in Seq(Characters), NEW text, NEW p, NEW q, NEW marker,
           p \in Int, q \in Int, p <= q, Spans(marker, text, p, q),
           NEW k \in Nat, Shows(chunk, k, text, p, q)
    PROVE  Occurrences(marker, chunk) # {}
<1>1. PICK n \in Nat, l \in Nat : n = Len(chunk) /\ l = q - p + 1
  BY LenProperties
<1>2. /\ marker \in Seq(Characters) /\ Len(marker) = l
      /\ \A r \in 1..l : marker[r] = text[p + r - 1]
  BY <1>1 DEF Spans
<1>3. /\ k \in 1..n /\ k + (q - p) \in k..n
      /\ \A i \in 0..(q - p) : chunk[k + i] = text[p + i]
  BY <1>1 DEF Shows
<1>4. k + l - 1 = k + (q - p) /\ k <= k + l - 1 /\ k \in 1..(n - l + 1) /\ k + l - 1 <= n
  BY <1>1, <1>3
<1>5. PICK s, e : s = SubSeq(chunk, k, e) /\ e = k + l - 1
  OBVIOUS
<1>6. /\ s \in Seq(Characters) /\ Len(s) = l
      /\ \A r \in 1..l : s[r] = chunk[k + r - 1]
  <2>1. 1 <= k /\ k \in Int /\ e \in Int /\ e <= Len(chunk) /\ k <= e /\ e - k + 1 = l
    BY <1>1, <1>4, <1>5
  <2>2. QED
    BY <1>5, <2>1, PartOfText
<1>7. ASSUME NEW r \in 1..l PROVE s[r] = marker[r]
  <2>1. r - 1 \in 0..(q - p) /\ k + (r - 1) = k + r - 1 /\ p + (r - 1) = p + r - 1
    BY <1>1
  <2>2. chunk[k + (r - 1)] = text[p + (r - 1)]
    BY <1>3, <2>1
  <2>3. QED
    BY <1>2, <1>6, <2>1, <2>2
<1>8. s = marker
  BY <1>1, <1>2, <1>6, <1>7, SeqEqual
<1>9. k \in 1..(Len(chunk) - Len(marker) + 1)
  BY <1>1, <1>2, <1>4
<1>10. OccursAt(marker, chunk, k)
  BY <1>2, <1>5, <1>8 DEF OccursAt
<1>11. QED
  BY <1>9, <1>10 DEF Occurrences

\* A marker matches a chunk, however the text is cut.
LEMMA MarkerMatches ==
    ASSUME NEW text \in Seq(Characters), SingleBlanks(text), NEW size \in Nat \ {0},
           NoWordIsCut(text, size), NEW overlap \in Nat, NEW marker \in Quotable(text, overlap)
    PROVE  Matches(marker, SplitText(text, size, overlap)) # {}
<1>1. PICK pieces, chunks, whole : /\ pieces = Pieces(text, size) /\ whole = Strip(text)
                                   /\ chunks = SplitText(text, size, overlap)
  OBVIOUS
<1>2. size \in Nat
  OBVIOUS
<1>3. whole \in Seq(Characters) /\ SingleBlanks(whole) /\ NoWordIsCut(whole, size)
  BY <1>1, <1>2, StripIs, StripKeeps
<1>4. pieces \in Seq(Worded(size)) /\ Lie(whole, Len(whole), pieces)
  BY <1>1, <1>3, PiecesAre
<1>5. /\ chunks = pieces \/ TailedBy(pieces, overlap, chunks)
      /\ overlap # 0 /\ Len(pieces) > 1 => TailedBy(pieces, overlap, chunks)
  BY <1>1, SplitTextIs
<1>6. PICK n \in Nat, m \in Nat, w \in Nat : n = Len(text) /\ m = Len(pieces) /\ w = Len(whole)
  BY <1>3, <1>4, LenProperties
<1>7. Len(marker) <= overlap + 2
  BY MarkerIsPhrase
<1>8. PICK p, q : Phrase(text, p, q) /\ Spans(marker, text, p, q)
  BY MarkerIsPhrase
<1>9. /\ p \in 1..n /\ q \in p..n /\ text[p] \in WordChars /\ text[q] \in WordChars
      /\ \A i \in p..q : text[i] \in WordChars \cup {Blank}
  BY <1>6, <1>8 DEF Phrase
<1>10. p \in Int /\ q \in Int /\ p <= q
  BY <1>9
<1>11. text[p] \notin Whitespace /\ text[q] \notin Whitespace
  BY <1>9, WhitespaceIsSeparate
<1>12. Len(marker) = q - p + 1
  BY <1>8 DEF Spans
<1>13. Shows(text, p, text, p, q)
  <2>1. p + (q - p) \in p..n
    BY <1>9
  <2>2. QED
    BY <1>6, <1>9, <2>1 DEF Shows
<1>14. PICK j \in Nat : Shows(whole, j, text, p, q)
  <2>1. SurvivesStrip(text, p, text, p, q)
    BY <1>10, <1>11, <1>13, StripShows
  <2>2. QED
    BY <1>1, <2>1 DEF SurvivesStrip
<1>15. PICK r : r = j + (q - p)
  OBVIOUS
<1>16. /\ j \in 1..w /\ r \in j..w
       /\ \A i \in 0..(q - p) : whole[j + i] = text[p + i]
  BY <1>6, <1>14, <1>15 DEF Shows
<1>17. j \in Int /\ r \in Int /\ j <= r /\ r - j = q - p /\ r - j + 1 <= overlap + 2
  <2>1. r - j = q - p
    BY <1>10, <1>15
  <2>2. Len(marker) \in Nat
    BY <1>10, <1>12
  <2>3. QED
    BY <1>7, <1>12, <1>16, <2>1
<1>18. Phrase(whole, j, r)
  <2>1. ASSUME NEW x \in j..r
        PROVE  /\ whole[x] = text[p + (x - j)] /\ p + (x - j) \in p..q
               /\ x = j => p + (x - j) = p
               /\ x = r => p + (x - j) = q
    <3>1. x - j \in 0..(q - p) /\ j + (x - j) = x
      BY <1>17
    <3>2. whole[x] = text[p + (x - j)]
      BY <1>16, <3>1
    <3>3. /\ p + (x - j) \in p..q
          /\ x = j => p + (x - j) = p
          /\ x = r => p + (x - j) = q
      BY <1>10, <1>17
    <3>4. QED
      BY <3>2, <3>3
  <2>2. j \in j..r /\ r \in j..r
    BY <1>17
  <2>3. whole[j] = text[p] /\ whole[r] = text[q]
    BY <2>1, <2>2
  <2>4. \A x \in j..r : whole[x] \in WordChars \cup {Blank}
    BY <1>9, <2>1
  <2>5. QED
    BY <1>6, <1>9, <1>16, <2>3, <2>4 DEF Phrase
<1>19. PICK i \in 1..m : \E k \in Nat : Shows(chunks[i], k, whole, j, r)
  BY <1>2, <1>3, <1>4, <1>5, <1>6, <1>17, <1>18, PhraseIsWhole
<1>20. PICK k, chunk : k \in Nat /\ Shows(chunk, k, whole, j, r) /\ chunk = chunks[i]
  BY <1>19
<1>21. chunks \in Seq(Seq(Characters)) /\ Len(chunks) = m
  <2>1. pieces \in Seq(Seq(Characters))
    <3>1. Worded(size) \subseteq Seq(Characters)
      BY <1>2, WordedAre
    <3>2. QED
      BY <1>4, <3>1, SeqMonotonic
  <2>2. QED
    BY <1>5, <1>6, <2>1 DEF TailedBy
<1>22. chunk \in Seq(Characters) /\ i \in DOMAIN chunks
  BY <1>20, <1>21, ElementOfSeq, LenProperties
<1>23. Shows(chunk, k, text, p, q)
  <2>1. ASSUME NEW x \in 0..(q - p) PROVE chunk[k + x] = text[p + x]
    BY <1>16, <1>17, <1>20 DEF Shows
  <2>2. QED
    BY <1>17, <1>20, <2>1 DEF Shows
<1>24. Occurrences(marker, chunk) # {}
  <2>1. k \in Nat
    BY <1>20
  <2>2. QED
    BY <1>8, <1>10, <1>22, <1>23, <2>1, ShownOccurs
<1>25. QED
  BY <1>1, <1>20, <1>22, <1>24 DEF Matches

\* For every text whose blanks are single, every window no word outgrows and every
\* overlap, a passage that the overlap leaves room for is whole in some chunk: no
\* label is lost by how the text is cut (split_text, build_eval_dataset.main).
THEOREM MarkersAlwaysResolve == ComputationsSpec => []MarkersResolve
<1>1. ReturnInv => MarkersResolve
  <2> SUFFICES ASSUME ReturnInv, output.kind = "split", NoWordIsCut(input.text, input.window[1])
               PROVE  MarkersResolve
    BY DEF MarkersResolve
  <2>1. PICK text, size, overlap : /\ text = input.text /\ size = input.window[1]
                                   /\ overlap = input.window[2]
    OBVIOUS
  <2>2. /\ text \in Seq(Characters) /\ SingleBlanks(text) /\ NoWordIsCut(text, size)
        /\ size \in Nat \ {0} /\ overlap \in Nat
    BY <2>1, SplitInput
  <2>3. PICK chunks, markers, question :
          /\ chunks = output.value /\ markers = Quotable(text, overlap)
          /\ question = << markers >>
    OBVIOUS
  <2>4. chunks = SplitText(text, size, overlap)
    BY <2>1, <2>3, SplitInput
  <2>5. \A m \in markers : Matches(m, chunks) # {}
    BY <2>2, <2>3, <2>4, MarkerMatches
  <2>6. ASSUME markers # {} PROVE Resolve(question, chunks) # <<>>
    <3>1. PICK marker \in markers : Matches(marker, chunks) # {}
      BY <2>5, <2>6
    <3>2. chunks # <<>>
      <4>1. PICK i \in DOMAIN chunks : TRUE
        BY <3>1 DEF Matches
      <4>2. QED
        BY <4>1
    <3>3. DOMAIN question = {1} /\ question[1] = markers
      BY <2>3
    <3>4. Resolve(question, chunks)
            = [q \in {1} |-> UNION { Matches(m, chunks) : m \in question[q] }]
      <4>1. ~ \E q \in DOMAIN question : \E m \in question[q] : Matches(m, chunks) = {}
        BY <2>5, <3>3
      <4>2. QED
        BY <3>2, <3>3, <4>1 DEF Resolve
    <3>5. 1 \in DOMAIN Resolve(question, chunks)
      BY <3>4
    <3>6. QED
      BY <3>5
  <2>7. QED
    BY <2>1, <2>3, <2>6 DEF MarkersResolve
<1>2. QED
  BY <1>1, ReturnInvHolds, PTL

-----------------------------------------------------------------------------
(* Texts put together piece by piece.                                      *)

LEMMA ConcatAppend ==
    ASSUME NEW X, NEW s \in Seq(X), NEW t \in Seq(X), NEW x \in X
    PROVE  /\ Append(s \o t, x) = s \o Append(t, x)
           /\ s \o t \in Seq(X) /\ Append(t, x) \in Seq(X)
           /\ Append(s, x) = s \o << x >> /\ << x >> \in Seq(X)
<1>1. PICK one : one = << x >>
  OBVIOUS
<1>2. one \in Seq(X)
  BY <1>1
<1>3. s \o t \in Seq(X) /\ Append(t, x) \in Seq(X)
  BY ConcatProperties, AppendProperties
<1>4. Append(s \o t, x) = (s \o t) \o one
  BY <1>1, <1>3, AppendIsConcat
<1>5. Append(t, x) = t \o one /\ Append(s, x) = s \o one
  BY <1>1, AppendIsConcat
<1>6. (s \o t) \o one = s \o (t \o one)
  BY <1>2, ConcatAssociative, SMTT(30)
<1>7. QED
  BY <1>1, <1>2, <1>3, <1>4, <1>5, <1>6

LEMMA TextAppend ==
    ASSUME NEW s \in Seq(Characters), NEW t \in Seq(Characters), NEW x \in Characters
    PROVE  Append(s \o t, x) = s \o Append(t, x)
BY ConcatAppend

LEMMA PartsAppend ==
    ASSUME NEW s \in Seq(Seq(Characters)), NEW t \in Seq(Seq(Characters)), NEW x \in Seq(Characters)
    PROVE  Append(s \o t, x) = s \o Append(t, x)
<1>1. PICK one, u : one = << x >> /\ u = s \o t
  OBVIOUS
<1>2. one \in Seq(Seq(Characters)) /\ u \in Seq(Seq(Characters))
  BY <1>1, ConcatProperties
<1>3. Append(u, x) = u \o one /\ Append(t, x) = t \o one
  BY <1>1, <1>2, AppendIsConcat
<1>4. (s \o t) \o one = s \o (t \o one)
  BY <1>2, ConcatAssociative, SMTT(30)
<1>5. QED
  BY <1>1, <1>3, <1>4

\* One more sequence to flatten, where the others stay what they are.
GoesOnAs(X, n, f, g) ==
    /\ f \in [1..n -> Seq(X)] /\ g \in [1..(n + 1) -> Seq(X)]
    /\ \A i \in 1..n : g[i] = f[i]

LEMMA FlattenGrows ==
    ASSUME NEW X, NEW n \in Nat, NEW f, NEW g, GoesOnAs(X, n, f, g)
    PROVE  /\ FlattenSeq(f) \in Seq(X) /\ FlattenSeq(g) \in Seq(X)
           /\ FlattenSeq(g) = FlattenSeq(f) \o g[n + 1]
           /\ n = 0 => FlattenSeq(f) = <<>>
<1>0. /\ f \in [1..n -> Seq(X)] /\ g \in [1..(n + 1) -> Seq(X)]
      /\ \A i \in 1..n : g[i] = f[i]
  BY DEF GoesOnAs
<1>1. f \in Seq(Seq(X)) /\ Len(f) = n
  BY <1>0
<1>2. PICK last : last = g[n + 1]
  OBVIOUS
<1>3. last \in Seq(X)
  BY <1>0, <1>2
<1>4. PICK h : h = Append(f, last)
  OBVIOUS
<1>5. /\ h \in Seq(Seq(X)) /\ Len(h) = n + 1 /\ h[n + 1] = last
      /\ \A i \in 1..n : h[i] = f[i]
  BY <1>1, <1>3, <1>4, AppendProperties
<1>6. g \in Seq(Seq(X)) /\ Len(g) = n + 1
  <2>1. n + 1 \in Nat
    OBVIOUS
  <2>2. QED
    BY <1>0, <2>1
<1>7. g = h
  <2>1. ASSUME NEW i \in 1..(n + 1) PROVE g[i] = h[i]
    <3>1. CASE i = n + 1
      BY <1>2, <1>5, <3>1
    <3>2. CASE i # n + 1
      <4>1. i \in 1..n
        BY <3>2
      <4>2. QED
        BY <1>0, <1>5, <4>1
    <3>3. QED
      BY <3>1, <3>2
  <2>2. QED
    BY <1>5, <1>6, <2>1, SeqEqual
<1>8. FlattenSeq(f) \in Seq(X) /\ FlattenSeq(g) \in Seq(X)
  BY <1>1, <1>6, FlattenType
<1>9. FlattenSeq(h) = FlattenSeq(f) \o last
  BY <1>1, <1>3, <1>4, <1>8, FlattenAppend
<1>10. n = 0 => FlattenSeq(f) = <<>>
  <2>1. n = 0 => f = <<>>
    BY <1>1, EmptySeq
  <2>2. QED
    BY <2>1, FlattenType
<1>11. QED
  BY <1>2, <1>7, <1>8, <1>9, <1>10

OneMoreFlattened(n, f, g) == FlattenSeq(g) = FlattenSeq(f) \o g[n + 1]

LEMMA FlattenOneMore ==
    ASSUME NEW X, NEW n \in Nat, NEW f, NEW g, GoesOnAs(X, n, f, g)
    PROVE  OneMoreFlattened(n, f, g)
<1>1. g \in [1..(n + 1) -> Seq(X)] /\ f \in [1..n -> Seq(X)]
  BY DEF GoesOnAs
<1>2. FlattenSeq(g) = FlattenSeq(f) \o g[n + 1]
  BY <1>1, FlattenGrows
<1>3. QED
  BY <1>2 DEF OneMoreFlattened

\* Joining a part at a time.
LEMMA JoinAre ==
    ASSUME NEW X, NEW sep \in Seq(X), NEW parts \in Seq(Seq(X))
    PROVE  /\ Join(parts, sep) \in Seq(X)
           /\ Len(parts) = 0 => Join(parts, sep) = <<>>
           /\ \A p \in Seq(X) :
                Join(Append(parts, p), sep)
                  = IF Len(parts) = 0 THEN p ELSE Join(parts, sep) \o (sep \o p)
<1>1. PICK n \in Nat : n = Len(parts)
  BY LenProperties
<1>2. DOMAIN parts = 1..n /\ \A i \in 1..n : parts[i] \in Seq(X)
  BY <1>1, LenProperties, ElementOfSeq
<1>3. PICK f : f = [i \in DOMAIN parts |-> IF i = 1 THEN parts[i] ELSE sep \o parts[i]]
  OBVIOUS
<1>4. f \in [1..n -> Seq(X)]
  <2>1. \A i \in 1..n : sep \o parts[i] \in Seq(X)
    BY <1>2, ConcatProperties
  <2>2. QED
    BY <1>2, <1>3, <2>1
<1>5. Join(parts, sep) = FlattenSeq(f)
  BY <1>3 DEF Join
<1>6. ASSUME NEW p \in Seq(X)
      PROVE  /\ FlattenSeq(f) \in Seq(X)
             /\ n = 0 => FlattenSeq(f) = <<>>
             /\ Join(Append(parts, p), sep)
                  = FlattenSeq(f) \o (IF n + 1 = 1 THEN p ELSE sep \o p)
  <2>1. PICK more : more = Append(parts, p)
    OBVIOUS
  <2>2. /\ more \in Seq(Seq(X)) /\ Len(more) = n + 1 /\ more[n + 1] = p
        /\ \A i \in 1..n : more[i] = parts[i]
    BY <1>1, <2>1, AppendProperties
  <2>3. DOMAIN more = 1..(n + 1) /\ \A i \in 1..(n + 1) : more[i] \in Seq(X)
    BY <2>2, LenProperties, ElementOfSeq
  <2>4. PICK g : g = [i \in DOMAIN more |-> IF i = 1 THEN more[i] ELSE sep \o more[i]]
    OBVIOUS
  <2>5. g \in [1..(n + 1) -> Seq(X)]
    <3>1. \A i \in 1..(n + 1) : sep \o more[i] \in Seq(X)
      BY <2>3, ConcatProperties
    <3>2. QED
      BY <2>3, <2>4, <3>1
  <2>6. \A i \in 1..n : g[i] = f[i]
    <3>1. \A i \in 1..n : i \in 1..(n + 1)
      OBVIOUS
    <3>2. QED
      BY <1>2, <1>3, <2>2, <2>3, <2>4, <3>1
  <2>7. g[n + 1] = IF n + 1 = 1 THEN p ELSE sep \o p
    <3>1. n + 1 \in 1..(n + 1)
      OBVIOUS
    <3>2. QED
      BY <2>2, <2>3, <2>4, <3>1
  <2>8. /\ FlattenSeq(f) \in Seq(X) /\ FlattenSeq(g) = FlattenSeq(f) \o g[n + 1]
        /\ n = 0 => FlattenSeq(f) = <<>>
    <3>1. GoesOnAs(X, n, f, g)
      BY <1>4, <2>5, <2>6 DEF GoesOnAs
    <3>2. QED
      BY <3>1, FlattenGrows
  <2>9. Join(more, sep) = FlattenSeq(g)
    BY <2>4 DEF Join
  <2>10. QED
    BY <2>1, <2>7, <2>8, <2>9
<1>7. <<>> \in Seq(X)
  OBVIOUS
<1>9. ASSUME NEW p \in Seq(X)
      PROVE  Join(Append(parts, p), sep)
               = IF Len(parts) = 0 THEN p ELSE Join(parts, sep) \o (sep \o p)
  <2>1. CASE n = 0
    <3>1. <<>> \o p = p /\ n + 1 = 1
      BY <2>1, ConcatEmptySeq
    <3>2. FlattenSeq(f) = <<>>
      BY <1>6, <2>1
    <3>3. Join(Append(parts, p), sep) = FlattenSeq(f) \o p
      BY <1>6, <3>1
    <3>4. QED
      BY <1>1, <2>1, <3>1, <3>2, <3>3
  <2>2. CASE n # 0
    <3>1. n + 1 # 1
      BY <2>2
    <3>2. QED
      BY <1>1, <1>5, <1>6, <2>2, <3>1
  <2>3. QED
    BY <2>1, <2>2
<1>10. QED
  <2>1. FlattenSeq(f) \in Seq(X) /\ (n = 0 => FlattenSeq(f) = <<>>)
    BY <1>6, <1>7
  <2>2. QED
    BY <1>1, <1>5, <1>9, <2>1

\* What is added to the last part is added to the whole.
JoinEndsWith(sep, parts, p, q) ==
    Join(Append(parts, p \o q), sep) = Join(Append(parts, p), sep) \o q

LEMMA JoinEnds ==
    ASSUME NEW X, NEW sep \in Seq(X), NEW parts \in Seq(Seq(X)), NEW p \in Seq(X), NEW q \in Seq(X)
    PROVE  JoinEndsWith(sep, parts, p, q)
<1>1. PICK j : j = Join(parts, sep)
  OBVIOUS
<1>2. j \in Seq(X)
  BY <1>1, JoinAre
<1>3. PICK pq, sp, js : pq = p \o q /\ sp = sep \o p /\ js = j \o sp
  OBVIOUS
<1>4. pq \in Seq(X) /\ sp \in Seq(X)
  BY <1>3, ConcatProperties
<1>5. Join(Append(parts, pq), sep) = IF Len(parts) = 0 THEN pq ELSE j \o (sep \o pq)
  BY <1>1, <1>4, JoinAre, ZenonT(30)
<1>6. Join(Append(parts, p), sep) = IF Len(parts) = 0 THEN p ELSE js
  BY <1>1, <1>3, JoinAre, ZenonT(30)
<1>7. sp \o q = sep \o pq
  BY <1>3, ConcatAssociative, SMTT(30)
<1>8. js \o q = j \o (sp \o q)
  <2>1. \A u, v, w \in Seq(X) : (u \o v) \o w = u \o (v \o w)
    BY ConcatAssociative, SMTT(30)
  <2>2. sp \in Seq(X)
    BY <1>4
  <2>3. (j \o sp) \o q = j \o (sp \o q)
    BY <1>2, <2>1, <2>2, Zenon
  <2>4. QED
    BY <1>3, <2>3
<1>9. QED
  BY <1>3, <1>5, <1>6, <1>7, <1>8 DEF JoinEndsWith

\* A text without the characters at some places.
Picked(text, dropped) ==
    FlattenSeq([i \in DOMAIN text |-> IF i \in dropped THEN <<>> ELSE << text[i] >>])

LEMMA PickedAppend ==
    ASSUME NEW X, NEW D, NEW s \in Seq(X), NEW x \in X
    PROVE  /\ Picked(s, D) \in Seq(X)
           /\ Len(s) = 0 => Picked(s, D) = <<>>
           /\ Picked(Append(s, x), D)
                = IF Len(s) + 1 \in D THEN Picked(s, D) ELSE Append(Picked(s, D), x)
<1>1. PICK n \in Nat : n = Len(s)
  BY LenProperties
<1>2. DOMAIN s = 1..n /\ \A i \in 1..n : s[i] \in X
  BY <1>1, LenProperties, ElementOfSeq
<1>3. PICK t : t = Append(s, x)
  OBVIOUS
<1>4. /\ t \in Seq(X) /\ Len(t) = n + 1 /\ t[n + 1] = x
      /\ \A i \in 1..n : t[i] = s[i]
  BY <1>1, <1>3, AppendProperties
<1>5. DOMAIN t = 1..(n + 1) /\ \A i \in 1..(n + 1) : t[i] \in X
  BY <1>4, LenProperties, ElementOfSeq
<1>6. PICK f, g : /\ f = [i \in DOMAIN s |-> IF i \in D THEN <<>> ELSE << s[i] >>]
                  /\ g = [i \in DOMAIN t |-> IF i \in D THEN <<>> ELSE << t[i] >>]
  OBVIOUS
<1>7. <<>> \in Seq(X) /\ \A y \in X : << y >> \in Seq(X)
  OBVIOUS
<1>8. f \in [1..n -> Seq(X)] /\ g \in [1..(n + 1) -> Seq(X)]
  BY <1>2, <1>5, <1>6, <1>7
<1>9. \A i \in 1..n : g[i] = f[i]
  <2>1. \A i \in 1..n : i \in 1..(n + 1)
    OBVIOUS
  <2>2. QED
    BY <1>2, <1>4, <1>5, <1>6, <2>1
<1>10. GoesOnAs(X, n, f, g)
  BY <1>8, <1>9 DEF GoesOnAs
<1>11. /\ FlattenSeq(f) \in Seq(X) /\ FlattenSeq(g) = FlattenSeq(f) \o g[n + 1]
       /\ n = 0 => FlattenSeq(f) = <<>>
  BY <1>10, FlattenGrows
<1>12. Picked(s, D) = FlattenSeq(f) /\ Picked(t, D) = FlattenSeq(g)
  BY <1>6 DEF Picked
<1>13. PICK p : p = Picked(s, D)
  OBVIOUS
<1>14. p \in Seq(X)
  BY <1>11, <1>12, <1>13
<1>15. g[n + 1] = IF n + 1 \in D THEN <<>> ELSE << x >>
  <2>1. n + 1 \in 1..(n + 1)
    OBVIOUS
  <2>2. QED
    BY <1>4, <1>5, <1>6, <2>1
<1>16. Picked(t, D) = IF n + 1 \in D THEN p ELSE Append(p, x)
  <2>1. p \o <<>> = p
    BY <1>14, ConcatEmptySeq
  <2>2. Append(p, x) = p \o << x >>
    BY <1>14, AppendIsConcat
  <2>3. Picked(t, D) = p \o g[n + 1]
    BY <1>11, <1>12, <1>13
  <2>4. CASE n + 1 \in D
    BY <1>15, <2>1, <2>3, <2>4
  <2>5. CASE n + 1 \notin D
    BY <1>15, <2>2, <2>3, <2>5
  <2>6. QED
    BY <2>4, <2>5
<1>17. QED
  BY <1>1, <1>3, <1>11, <1>12, <1>13, <1>16

LEMMA PickedSame ==
    ASSUME NEW X, NEW s \in Seq(X), NEW D, NEW E,
           \A i \in 1..Len(s) : i \in D <=> i \in E
    PROVE  Picked(s, D) = Picked(s, E)
<1>1. DOMAIN s = 1..Len(s)
  BY LenProperties
<1>2. [i \in DOMAIN s |-> IF i \in D THEN <<>> ELSE << s[i] >>]
        = [i \in DOMAIN s |-> IF i \in E THEN <<>> ELSE << s[i] >>]
  BY <1>1
<1>3. QED
  BY <1>2 DEF Picked

\* What nothing is dropped of, and what is dropped as a whole, behind a text.
PickedOnto(s, t, D) ==
    /\ (\A i \in 1..Len(t) : Len(s) + i \notin D) => Picked(s \o t, D) = Picked(s, D) \o t
    /\ (\A i \in 1..Len(t) : Len(s) + i \in D) => Picked(s \o t, D) = Picked(s, D)

LEMMA PickedBehind ==
    ASSUME NEW X, NEW D, NEW s \in Seq(X), NEW t \in Seq(X)
    PROVE  PickedOnto(s, t, D)
<1>1. PICK n \in Nat : n = Len(s)
  BY LenProperties
<1>2. PICK p : p = Picked(s, D)
  OBVIOUS
<1>3. p \in Seq(X)
  <2>1. CASE X = {}
    <3>1. Len(s) = 0
      <4>1. CASE Len(s) # 0
        <5>1. 1 \in 1..Len(s)
          BY <1>1, <4>1
        <5>2. s[1] \in X
          BY <5>1, ElementOfSeq
        <5>3. QED
          BY <2>1, <5>2
      <4>2. QED
        BY <4>1
    <3>2. [i \in DOMAIN s |-> IF i \in D THEN <<>> ELSE << s[i] >>] = <<>>
      <4>1. DOMAIN s = {}
        BY <3>1, LenProperties
      <4>2. QED
        BY <4>1
    <3>3. p = <<>>
      BY <1>2, <3>2, FlattenType DEF Picked
    <3>4. QED
      BY <3>3
  <2>2. CASE X # {}
    BY <1>2, <2>2, PickedAppend
  <2>3. QED
    BY <2>1, <2>2
<1> DEFINE P == { u \in Seq(X) :
                    /\ (\A i \in 1..Len(u) : n + i \notin D) => Picked(s \o u, D) = p \o u
                    /\ (\A i \in 1..Len(u) : n + i \in D) => Picked(s \o u, D) = p }
<1>4. <<>> \in P
  <2>1. PICK none : none = <<>>
    OBVIOUS
  <2>2. none \in Seq(X) /\ s \o none = s /\ p \o none = p
    BY <1>3, <2>1, ConcatEmptySeq
  <2>3. QED
    BY <1>2, <2>1, <2>2
<1>5. ASSUME NEW u \in Seq(X), NEW x \in X, u \in P PROVE Append(u, x) \in P
  <2>1. PICK v, w : v = Append(u, x) /\ w = s \o u
    OBVIOUS
  <2>2. PICK m \in Nat : m = Len(u)
    BY LenProperties
  <2>3. v \in Seq(X) /\ Len(v) = m + 1
    BY <2>1, <2>2, AppendProperties
  <2>4. w \in Seq(X) /\ Len(w) = n + m /\ s \o v = Append(w, x)
    BY <1>1, <2>1, <2>2, ConcatProperties, ConcatAppend
  <2>5. Picked(Append(w, x), D)
          = IF (n + m) + 1 \in D THEN Picked(w, D) ELSE Append(Picked(w, D), x)
    BY <2>4, PickedAppend
  <2>6. n + (m + 1) = (n + m) + 1 /\ m + 1 \in 1..(m + 1) /\ \A i \in 1..m : i \in 1..(m + 1)
    OBVIOUS
  <2>7. ASSUME \A i \in 1..(m + 1) : n + i \notin D PROVE Picked(s \o v, D) = p \o v
    <3>1. Picked(w, D) = p \o u
      BY <1>5, <2>1, <2>2, <2>6, <2>7
    <3>2. (n + m) + 1 \notin D
      BY <2>6, <2>7
    <3>3. Append(p \o u, x) = p \o v
      <4>1. PICK pu : pu = p \o u
        OBVIOUS
      <4>2. Append(pu, x) = p \o Append(u, x)
        <5>1. PICK one : one = << x >>
          OBVIOUS
        <5>2. one \in Seq(X)
          BY <5>1
        <5>3. pu \in Seq(X)
          BY <1>3, <4>1, ConcatProperties
        <5>4. Append(pu, x) = pu \o one /\ Append(u, x) = u \o one
          BY <5>1, <5>3, AppendIsConcat
        <5>5. (p \o u) \o one = p \o (u \o one)
          BY <1>3, <5>2, ConcatAssociative, SMTT(30)
        <5>6. QED
          BY <4>1, <5>4, <5>5
      <4>3. QED
        BY <2>1, <4>1, <4>2
    <3>4. QED
      BY <2>4, <2>5, <3>1, <3>2, <3>3
  <2>8. ASSUME \A i \in 1..(m + 1) : n + i \in D PROVE Picked(s \o v, D) = p
    <3>1. Picked(w, D) = p
      BY <1>5, <2>1, <2>2, <2>6, <2>8
    <3>2. (n + m) + 1 \in D
      BY <2>6, <2>8
    <3>3. QED
      BY <2>4, <2>5, <3>1, <3>2
  <2>9. v \in P
    BY <2>3, <2>7, <2>8
  <2>10. QED
    BY <2>1, <2>9
<1>6. QED
  <2> HIDE DEF P
  <2>1. Seq(X) \subseteq P
    BY <1>4, <1>5, SequenceInduction
  <2>2. t \in P
    BY <2>1
  <2>3. QED
    BY <1>1, <1>2, <2>2 DEF P, PickedOnto

-----------------------------------------------------------------------------
(* Cutting a text that grows.                                              *)

\* The parts of a longer text.
LEMMA SubSeqOfAppend ==
    ASSUME NEW X, NEW s \in Seq(X), NEW x \in X, NEW i \in Int, 1 <= i
    PROVE  /\ \A j \in Int : j <= Len(s) => SubSeq(Append(s, x), i, j) = SubSeq(s, i, j)
           /\ i <= Len(s) + 1 =>
                SubSeq(Append(s, x), i, Len(s) + 1) = Append(SubSeq(s, i, Len(s)), x)
<1>1. PICK n \in Nat : n = Len(s)
  BY LenProperties
<1>2. PICK t : t = Append(s, x)
  OBVIOUS
<1>3. /\ t \in Seq(X) /\ Len(t) = n + 1 /\ t[n + 1] = x /\ \A k \in 1..n : t[k] = s[k]
  BY <1>1, <1>2, AppendProperties
<1>4. ASSUME NEW j \in Int, j <= n PROVE SubSeq(t, i, j) = SubSeq(s, i, j)
  <2>1. PICK u, v : u = SubSeq(t, i, j) /\ v = SubSeq(s, i, j)
    OBVIOUS
  <2>2. PICK l : l = IF i <= j THEN j - i + 1 ELSE 0
    OBVIOUS
  <2>3. v \in Seq(X) /\ Len(v) = l /\ \A k \in 1..(j - i + 1) : v[k] = s[i + k - 1]
    BY <1>1, <1>4, <2>1, <2>2, PartOfText
  <2>4. u \in Seq(X) /\ Len(u) = l /\ \A k \in 1..(j - i + 1) : u[k] = t[i + k - 1]
    <3>1. j <= Len(t)
      BY <1>3, <1>4
    <3>2. QED
      BY <1>3, <2>1, <2>2, <3>1, PartOfText
  <2>5. ASSUME NEW k \in 1..Len(u) PROVE u[k] = v[k]
    <3>1. k \in 1..(j - i + 1) /\ i + k - 1 \in 1..n
      BY <1>4, <2>2, <2>4
    <3>2. QED
      BY <1>3, <2>3, <2>4, <3>1
  <2>6. u = v
    BY <2>3, <2>4, <2>5, SeqEqual
  <2>7. QED
    BY <2>1, <2>6
<1>5. ASSUME i <= n + 1 PROVE SubSeq(t, i, n + 1) = Append(SubSeq(s, i, n), x)
  <2>1. PICK u, v : u = SubSeq(t, i, n + 1) /\ v = SubSeq(s, i, n)
    OBVIOUS
  <2>2. v \in Seq(X) /\ Len(v) = n - i + 1 /\ \A k \in 1..(n - i + 1) : v[k] = s[i + k - 1]
    <3>1. v \in Seq(X) /\ Len(v) = IF i <= n THEN n - i + 1 ELSE 0
      BY <1>1, <2>1, PartOfText
    <3>2. \A k \in 1..(n - i + 1) : v[k] = s[i + k - 1]
      BY <1>1, <2>1, PartOfText
    <3>3. QED
      BY <1>5, <3>1, <3>2
  <2>3. /\ u \in Seq(X) /\ Len(u) = n - i + 2
        /\ \A k \in 1..(n - i + 2) : u[k] = t[i + k - 1]
    <3>1. PICK m : m = n + 1
      OBVIOUS
    <3>2. m \in Int /\ m <= Len(t)
      BY <1>3, <3>1
    <3>3. /\ u \in Seq(X) /\ Len(u) = IF i <= m THEN m - i + 1 ELSE 0
          /\ \A k \in 1..(m - i + 1) : u[k] = t[i + k - 1]
      BY <1>3, <2>1, <3>1, <3>2, PartOfText
    <3>4. m - i + 1 = n - i + 2 /\ i <= m
      BY <1>5, <3>1
    <3>5. QED
      BY <3>3, <3>4
  <2>4. PICK w : w = Append(v, x)
    OBVIOUS
  <2>5. /\ w \in Seq(X) /\ Len(w) = n - i + 2 /\ w[n - i + 2] = x
        /\ \A k \in 1..(n - i + 1) : w[k] = v[k]
    <3>1. /\ w \in Seq(X) /\ Len(w) = Len(v) + 1 /\ w[Len(v) + 1] = x
          /\ \A k \in 1..Len(v) : w[k] = v[k]
      BY <2>2, <2>4, AppendProperties
    <3>2. (n - i + 1) + 1 = n - i + 2
      OBVIOUS
    <3>3. QED
      BY <2>2, <3>1, <3>2
  <2>6. ASSUME NEW k \in 1..(n - i + 2) PROVE u[k] = w[k]
    <3>1. CASE k = n - i + 2
      <4>1. i + k - 1 = n + 1
        BY <3>1
      <4>2. QED
        BY <1>3, <2>3, <2>5, <3>1, <4>1
    <3>2. CASE k # n - i + 2
      <4>1. k \in 1..(n - i + 1) /\ i + k - 1 \in 1..n
        BY <3>2
      <4>2. QED
        BY <1>3, <2>2, <2>3, <2>5, <4>1
    <3>3. QED
      BY <3>1, <3>2
  <2>7. u = w
    BY <2>3, <2>5, <2>6, SeqEqual
  <2>8. QED
    BY <2>1, <2>4, <2>7
<1>6. QED
  BY <1>1, <1>2, <1>4, <1>5

\* One character more cuts the last part off where it ends a separator, and
\* else only lengthens it.
CutOnto(parts, x, sep, more) ==
    \E y \in Seq(Seq(Characters)), z \in Seq(Characters) :
        /\ parts = Append(y, z)
        /\ \/ \E w \in Seq(Characters) : /\ Append(z, x) = w \o sep
                                         /\ more = Append(Append(y, w), <<>>)
           \/ /\ \A w \in Seq(Characters) : Append(z, x) # w \o sep
              /\ more = Append(y, Append(z, x))

LEMMA SplitAtAppend ==
    ASSUME NEW text \in Seq(Characters), NEW x \in Characters,
           NEW sep \in Seq(Characters), sep # <<>>
    PROVE  CutOnto(SplitAt(text, sep), x, sep, SplitAt(Append(text, x), sep))
<1>1. PICK n \in Nat : n = Len(text)
  BY LenProperties
<1>2. PICK l : l = Len(sep)
  OBVIOUS
<1>3. l \in Nat \ {0}
  BY <1>2, EmptySeq
<1>4. PICK longer : longer = Append(text, x)
  OBVIOUS
<1>5. longer \in Seq(Characters) /\ Len(longer) = n + 1
  BY <1>1, <1>4, AppendProperties
<1>6. /\ \A i, j \in Int : 1 <= i /\ j <= n => SubSeq(longer, i, j) = SubSeq(text, i, j)
      /\ \A i \in 1..(n + 1) : SubSeq(longer, i, n + 1) = Append(SubSeq(text, i, n), x)
  <2>1. ASSUME NEW i \in Int, NEW j \in Int, 1 <= i, j <= n
        PROVE  SubSeq(longer, i, j) = SubSeq(text, i, j)
    BY <1>1, <1>4, <2>1, SubSeqOfAppend
  <2>2. ASSUME NEW i \in 1..(n + 1)
        PROVE  SubSeq(longer, i, n + 1) = Append(SubSeq(text, i, n), x)
    <3>1. i \in Int /\ 1 <= i /\ i <= n + 1
      OBVIOUS
    <3>2. QED
      BY <1>1, <1>4, <3>1, SubSeqOfAppend
  <2>3. QED
    BY <2>1, <2>2
<1>7. PICK g : g = CHOOSE f : f = [i \in 1..(n + 1) |-> Cut(text, sep, f, i)]
  OBVIOUS
<1>8. g = [i \in 1..(n + 1) |-> Cut(text, sep, g, i)] /\ SplitAt(text, sep) = g[1]
  BY <1>1, <1>7, CuttingExists, SplitAtUnfold
<1>9. PICK h : h = CHOOSE f : f = [i \in 1..((n + 1) + 1) |-> Cut(longer, sep, f, i)]
  OBVIOUS
<1>10. /\ h = [i \in 1..((n + 1) + 1) |-> Cut(longer, sep, h, i)]
       /\ SplitAt(longer, sep) = h[1]
  <2>1. PICK e : e = n + 1
    OBVIOUS
  <2>2. h = CHOOSE f : f = [i \in 1..(e + 1) |-> Cut(longer, sep, f, i)]
    BY <1>9, <2>1
  <2>3. Len(longer) = e
    BY <1>5, <2>1
  <2>4. h = [i \in 1..(e + 1) |-> Cut(longer, sep, h, i)] /\ SplitAt(longer, sep) = h[1]
    BY <1>5, <2>2, <2>3, CuttingExists, SplitAtUnfold
  <2>5. QED
    BY <2>1, <2>4
<1>11. ASSUME NEW j PROVE /\ j \in Occurrences(sep, text)
                               => j \in Occurrences(sep, longer) /\ j + l <= n + 1
                          /\ j \in Occurrences(sep, longer) /\ j \notin Occurrences(sep, text)
                               => j + l = n + 2
  <2>1. ASSUME j \in 1..(n - l + 1)
        PROVE  SubSeq(longer, j, j + l - 1) = SubSeq(text, j, j + l - 1)
    BY <1>3, <1>6, <2>1
  <2>2. /\ j \in Occurrences(sep, text)
             <=> j \in 1..(n - l + 1) /\ SubSeq(text, j, j + l - 1) = sep
        /\ j \in Occurrences(sep, longer)
             <=> j \in 1..(n + 1 - l + 1) /\ SubSeq(longer, j, j + l - 1) = sep
    BY <1>1, <1>2, <1>5 DEF Occurrences, OccursAt
  <2>3. ASSUME j \in 1..(n - l + 1) PROVE j \in 1..(n + 1 - l + 1) /\ j + l <= n + 1
    BY <1>3, <2>3
  <2>4. ASSUME j \in 1..(n + 1 - l + 1), j \notin 1..(n - l + 1) PROVE j + l = n + 2
    BY <1>3, <2>4
  <2>5. QED
    BY <2>1, <2>2, <2>3, <2>4
<1> DEFINE Right(i) == CutOnto(g[i], x, sep, h[i])
           N == { k \in Nat : \A i \in 1..(n + 1) : i > n + 1 - k => Right(i) }
<1>12. 0 \in N
  OBVIOUS
<1>13. ASSUME NEW k \in Nat, k \in N PROVE k + 1 \in N
  <2> SUFFICES ASSUME NEW i \in 1..(n + 1), i > n + 1 - (k + 1) PROVE Right(i)
    OBVIOUS
  <2>1. CASE i > n + 1 - k
    BY <1>13, <2>1
  <2>2. CASE ~ (i > n + 1 - k)
    <3>1. g[i] = Cut(text, sep, g, i) /\ h[i] = Cut(longer, sep, h, i)
      <4>1. i \in 1..((n + 1) + 1)
        OBVIOUS
      <4>2. QED
        BY <1>8, <1>10, <4>1
    <3>2. CASE Behind(sep, text, i) = {}
      <4>1. PICK z : z = SubSeq(text, i, n)
        OBVIOUS
      <4>2. z \in Seq(Characters) /\ Append(z, x) \in Seq(Characters)
        BY <1>1, <4>1, PartOfText, AppendProperties
      <4>3. PICK none : none = <<>>
        OBVIOUS
      <4>4. none \in Seq(Seq(Characters)) /\ none \in Seq(Characters)
        BY <4>3
      <4>5. g[i] = Append(none, z)
        BY <1>1, <3>1, <3>2, <4>1, <4>3 DEF Cut
      <4>6. Append(z, x) = SubSeq(longer, i, n + 1)
        BY <1>6, <4>1
      <4>7. CASE Behind(sep, longer, i) = {}
        <5>1. h[i] = Append(none, Append(z, x))
          BY <1>5, <3>1, <4>3, <4>6, <4>7 DEF Cut
        <5>2. ASSUME NEW w \in Seq(Characters), Append(z, x) = w \o sep PROVE FALSE
          <6>1. PICK m \in Nat : m = Len(w)
            BY LenProperties
          <6>2. PICK a : a = SubSeq(longer, i, n + 1)
            OBVIOUS
          <6>3. a \in Seq(Characters) /\ Len(a) = n + 1 - i + 1
                /\ \A q \in 1..(n + 1 - i + 1) : a[q] = longer[i + q - 1]
            <7>1. PICK e : e = n + 1
              OBVIOUS
            <7>2. e \in Int /\ e <= Len(longer) /\ i <= e
              BY <1>5, <7>1
            <7>3. a = SubSeq(longer, i, e)
              BY <6>2, <7>1
            <7>4. a \in Seq(Characters) /\ Len(a) = e - i + 1
              BY <1>5, <7>2, <7>3, PartOfText
            <7>5. \A q \in 1..(e - i + 1) : a[q] = longer[i + q - 1]
              BY <1>5, <7>2, <7>3, PartOfText
            <7>6. QED
              BY <7>1, <7>4, <7>5
          <6>4. a = w \o sep
            BY <4>6, <5>2, <6>2
          <6>5. /\ Len(w \o sep) = m + l
                /\ \A q \in 1..(m + l) : (w \o sep)[q] = IF q <= m THEN w[q] ELSE sep[q - m]
            BY <1>2, <6>1, ConcatProperties
          <6>6. m + l = n + 1 - i + 1
            BY <6>3, <6>4, <6>5
          <6>7. PICK j : j = i + m
            OBVIOUS
          <6>8. j \in 1..(n + 1 - l + 1) /\ j >= i /\ j + l - 1 = n + 1
            BY <1>3, <6>6, <6>7
          <6>9. SubSeq(longer, j, n + 1) = sep
            <7>1. PICK b : b = SubSeq(longer, j, n + 1)
              OBVIOUS
            <7>2. PICK e : e = n + 1
              OBVIOUS
            <7>3. e \in Int /\ e <= Len(longer) /\ 1 <= j /\ j \in Int /\ j <= e
              BY <1>3, <1>5, <6>8, <7>2
            <7>9. b = SubSeq(longer, j, e)
              BY <7>1, <7>2
            <7>10. b \in Seq(Characters) /\ Len(b) = e - j + 1
              BY <1>5, <7>3, <7>9, PartOfText
            <7>4. \A q \in 1..(e - j + 1) : b[q] = longer[j + q - 1]
              BY <1>5, <7>3, <7>9, PartOfText
            <7>11. e - j + 1 = l
              BY <1>3, <6>8, <7>2
            <7>5. Len(b) = l
              BY <7>10, <7>11
            <7>6. ASSUME NEW q \in 1..l PROVE b[q] = sep[q]
              <8>1. /\ m + q \in 1..(n + 1 - i + 1) /\ m + q \in 1..(m + l) /\ ~ (m + q <= m)
                    /\ (m + q) - m = q /\ i + (m + q) - 1 = j + q - 1
                <9>1. q \in Int /\ 1 <= q /\ q <= l /\ l \in Int /\ i \in Int
                  BY <1>3
                <9>2. QED
                  BY <6>6, <6>7, <9>1
              <8>2. a[m + q] = sep[q]
                BY <6>4, <6>5, <8>1
              <8>3. a[m + q] = longer[j + q - 1]
                BY <6>3, <8>1
              <8>4. QED
                BY <7>4, <7>11, <8>2, <8>3
            <7>7. b = sep
              BY <1>2, <7>5, <7>6, <7>10, SeqEqual
            <7>8. QED
              BY <7>1, <7>7
          <6>10. j \in Occurrences(sep, longer)
            BY <1>2, <1>5, <6>8, <6>9 DEF Occurrences, OccursAt
          <6>11. QED
            BY <4>7, <6>8, <6>10 DEF Behind
        <5>3. QED
          BY <4>2, <4>4, <4>5, <5>1, <5>2 DEF CutOnto
      <4>8. CASE Behind(sep, longer, i) # {}
        <5>1. PICK m : m = Min(Behind(sep, longer, i))
          OBVIOUS
        <5>2. m \in Behind(sep, longer, i)
          <6>1. Behind(sep, longer, i) \in SUBSET (1..(n + 1))
            <7>1. \A j \in Occurrences(sep, longer) : j \in 1..(n + 1)
              BY <1>2, <1>3, <1>5 DEF Occurrences
            <7>2. QED
              BY <7>1 DEF Behind
          <6>2. IsFiniteSet(1..(n + 1))
            BY FS_Interval
          <6>3. IsFiniteSet(Behind(sep, longer, i)) /\ Behind(sep, longer, i) \in SUBSET Int
            BY <6>1, <6>2, FS_Subset
          <6>4. QED
            BY <4>8, <5>1, <6>3, LeastInteger
        <5>3. m \in Occurrences(sep, longer) /\ m >= i /\ m \in Int
          BY <5>2 DEF Behind, Occurrences
        <5>4. m \notin Occurrences(sep, text)
          BY <3>2, <5>3 DEF Behind
        <5>5. m + l = n + 2 /\ m \in i..(n + 1) /\ SubSeq(longer, m, n + 1) = sep
          <6>1. m + l = n + 2
            BY <1>11, <5>3, <5>4
          <6>2. SubSeq(longer, m, m + l - 1) = sep
            BY <1>2, <5>3 DEF Occurrences, OccursAt
          <6>3. m + l - 1 = n + 1 /\ m \in i..(n + 1)
            BY <1>3, <5>3, <6>1
          <6>4. QED
            BY <6>1, <6>2, <6>3
        <5>6. PICK w : w = SubSeq(longer, i, m - 1)
          OBVIOUS
        <5>7. w \in Seq(Characters)
          <6>1. m - 1 \in Int /\ m - 1 <= Len(longer)
            BY <1>5, <5>5
          <6>2. QED
            BY <1>5, <5>6, <6>1, PartOfText
        <5>8. Append(z, x) = w \o sep
          <6>1. PICK b : b = m - 1
            OBVIOUS
          <6>2. /\ i \in 1..(Len(longer) + 1) /\ b \in (i - 1)..Len(longer)
                /\ n + 1 \in b..Len(longer) /\ b + 1 = m
            BY <1>5, <5>5, <6>1
          <6>3. SubSeq(longer, i, b) \o SubSeq(longer, b + 1, n + 1) = SubSeq(longer, i, n + 1)
            BY <1>5, <6>2, ConcatAdjacentSubSeq
          <6>4. QED
            BY <4>6, <5>5, <5>6, <6>1, <6>2, <6>3
        <5>9. h[n + 2] = << none >>
          <6>1. n + 2 \in 1..((n + 1) + 1)
            OBVIOUS
          <6>2. h[n + 2] = Cut(longer, sep, h, n + 2)
            BY <1>10, <6>1
          <6>3. Behind(sep, longer, n + 2) = {}
            <7>1. \A j \in Occurrences(sep, longer) : j \in 1..(n + 1)
              BY <1>2, <1>3, <1>5 DEF Occurrences
            <7>2. QED
              BY <7>1 DEF Behind
          <6>4. SubSeq(longer, n + 2, n + 1) = <<>>
            BY SubSeqEmpty
          <6>5. QED
            BY <1>5, <4>3, <6>2, <6>3, <6>4 DEF Cut
        <5>10. h[i] = << w >> \o << none >>
          BY <1>2, <3>1, <4>8, <5>1, <5>5, <5>6, <5>9 DEF Cut
        <5>11. h[i] = Append(Append(none, w), none)
          <6>1. PICK one : one = << w >>
            OBVIOUS
          <6>2. one \in Seq(Seq(Characters)) /\ one = Append(none, w)
            BY <4>3, <5>7, <6>1
          <6>3. Append(one, none) = one \o << none >>
            BY <4>4, <6>2, AppendIsConcat
          <6>4. QED
            BY <5>10, <6>1, <6>2, <6>3
        <5>12. QED
          BY <4>2, <4>3, <4>4, <4>5, <5>7, <5>8, <5>11 DEF CutOnto
      <4>9. QED
        BY <4>7, <4>8
    <3>3. CASE Behind(sep, text, i) # {}
      <4>1. PICK m : m = Min(Behind(sep, text, i))
        OBVIOUS
      <4>2. PICK b : b = m + l
        OBVIOUS
      <4>3. /\ m \in i..n /\ b \in (i + 1)..(n + 1)
            /\ \A j \in Occurrences(sep, text) : j >= i => m <= j
        BY <1>1, <1>2, <3>3, <4>1, <4>2, NextCut
      <4>4. m \in Occurrences(sep, text)
        <5>1. Behind(sep, text, i) \in SUBSET (1..n)
          <6>1. \A j \in Occurrences(sep, text) : j \in 1..n
            BY <1>1, <1>2, <1>3 DEF Occurrences
          <6>2. QED
            BY <6>1 DEF Behind
        <5>2. IsFiniteSet(1..n)
          BY FS_Interval
        <5>3. IsFiniteSet(Behind(sep, text, i)) /\ Behind(sep, text, i) \in SUBSET Int
          BY <5>1, <5>2, FS_Subset
        <5>4. m \in Behind(sep, text, i)
          BY <3>3, <4>1, <5>3, LeastInteger
        <5>5. QED
          BY <5>4 DEF Behind
      <4>5. Min(Behind(sep, longer, i)) = m /\ Behind(sep, longer, i) # {}
        <5>1. m \in Behind(sep, longer, i)
          BY <1>11, <4>3, <4>4 DEF Behind
        <5>2. ASSUME NEW j \in Behind(sep, longer, i) PROVE j \in Int /\ m <= j
          <6>1. j \in Occurrences(sep, longer) /\ j >= i /\ j \in Int
            BY DEF Behind, Occurrences
          <6>2. CASE j \in Occurrences(sep, text)
            BY <4>3, <6>1, <6>2
          <6>3. CASE j \notin Occurrences(sep, text)
            <7>1. j + l = n + 2
              BY <1>11, <6>1, <6>3
            <7>2. QED
              BY <1>3, <4>2, <4>3, <6>1, <7>1
          <6>4. QED
            BY <6>2, <6>3
        <5>3. Behind(sep, longer, i) \in SUBSET Int
          BY <5>2
        <5>4. QED
          BY <5>1, <5>2, <5>3, MinIs
      <4>6. PICK p : p = SubSeq(text, i, m - 1)
        OBVIOUS
      <4>7. p \in Seq(Characters) /\ p = SubSeq(longer, i, m - 1)
        <5>1. m - 1 \in Int /\ m - 1 <= n
          BY <4>3
        <5>2. i \in Int /\ 1 <= i
          OBVIOUS
        <5>3. p = SubSeq(longer, i, m - 1)
          BY <1>6, <4>6, <5>1, <5>2
        <5>4. p \in Seq(Characters)
          BY <1>1, <4>6, <5>1, <5>2, PartOfText
        <5>5. QED
          BY <5>3, <5>4
      <4>8. g[i] = << p >> \o g[b] /\ h[i] = << p >> \o h[b]
        BY <1>2, <3>1, <3>3, <4>1, <4>2, <4>5, <4>6, <4>7 DEF Cut
      <4>9. Right(b)
        BY <1>13, <2>2, <4>3
      <4>10. PICK y \in Seq(Seq(Characters)), z \in Seq(Characters) :
                /\ g[b] = Append(y, z)
                /\ \/ \E w \in Seq(Characters) : /\ Append(z, x) = w \o sep
                                                 /\ h[b] = Append(Append(y, w), <<>>)
                   \/ /\ \A w \in Seq(Characters) : Append(z, x) # w \o sep
                      /\ h[b] = Append(y, Append(z, x))
        BY <4>9 DEF CutOnto
      <4>11. PICK one, more, zx : one = << p >> /\ more = << p >> \o y /\ zx = Append(z, x)
        OBVIOUS
      <4>12. /\ one \in Seq(Seq(Characters)) /\ more \in Seq(Seq(Characters))
             /\ zx \in Seq(Characters)
        <5>1. one \in Seq(Seq(Characters))
          BY <4>7, <4>11
        <5>2. QED
          BY <4>11, <5>1, ConcatProperties, AppendProperties
      <4>13. \A v \in Seq(Characters) : one \o Append(y, v) = Append(more, v)
        <5>1. more = one \o y
          BY <4>11
        <5>2. QED
          BY <4>12, <5>1, PartsAppend
      <4>14. g[i] = Append(more, z)
        BY <4>8, <4>10, <4>11, <4>13
      <4>15. CASE \E w \in Seq(Characters) : /\ Append(z, x) = w \o sep
                                             /\ h[b] = Append(Append(y, w), <<>>)
        <5>1. PICK w \in Seq(Characters) : /\ Append(z, x) = w \o sep
                                           /\ h[b] = Append(Append(y, w), <<>>)
          BY <4>15
        <5>2. PICK yw, none : yw = Append(y, w) /\ none = <<>>
          OBVIOUS
        <5>3. yw \in Seq(Seq(Characters)) /\ none \in Seq(Characters)
          BY <5>2, AppendProperties
        <5>4. PICK both : both = one \o yw
          OBVIOUS
        <5>5. one \o Append(yw, none) = Append(both, none)
          BY <4>12, <5>3, <5>4, PartsAppend
        <5>6. h[i] = Append(Append(more, w), <<>>)
          BY <4>8, <4>11, <4>13, <5>1, <5>2, <5>4, <5>5
        <5>7. QED
          BY <4>12, <4>14, <5>1, <5>6 DEF CutOnto
      <4>16. CASE /\ \A w \in Seq(Characters) : Append(z, x) # w \o sep
                  /\ h[b] = Append(y, Append(z, x))
        <5>1. h[i] = Append(more, Append(z, x))
          BY <4>8, <4>11, <4>12, <4>13, <4>16
        <5>2. QED
          BY <4>12, <4>14, <4>16, <5>1 DEF CutOnto
      <4>17. QED
        BY <4>10, <4>15, <4>16
    <3>4. QED
      BY <3>2, <3>3
  <2>3. QED
    BY <2>1, <2>2
<1>14. Right(1)
  <2>1. n + 1 \in N
    <3> HIDE DEF N
    <3>1. n + 1 \in Nat
      OBVIOUS
    <3>2. QED
      BY <1>12, <1>13, <3>1, NaturalInduction
  <2>2. 1 \in 1..(n + 1) /\ 1 > n + 1 - (n + 1)
    OBVIOUS
  <2>3. QED
    BY <2>1, <2>2
<1>15. QED
  BY <1>4, <1>8, <1>10, <1>14

-----------------------------------------------------------------------------
(* Cutting a text behind white space.                                      *)

\* No white space at the end.
Settled(t) == Len(t) = 0 \/ t[Len(t)] \notin Whitespace

\* What separates texts here.
Gaps == { s \in Seq(Whitespace) : Len(s) # 0 }

LEMMA GapsAre ==
    ASSUME NEW sep \in Gaps
    PROVE  /\ sep \in Seq(Characters) /\ sep # <<>> /\ sep \in Seq(Whitespace)
           /\ Len(sep) \in Nat \ {0} /\ sep \in Seq(Characters \ WordChars) \ {<<>>}
           /\ \A i \in 1..Len(sep) : sep[i] \in Whitespace
<1>1. sep \in Seq(Whitespace) /\ Len(sep) # 0
  BY DEF Gaps
<1>2. sep \in Seq(Characters) /\ sep \in Seq(Characters \ WordChars)
  BY <1>1, WhitespaceIsSeparate, SeqMonotonic
<1>3. Len(sep) \in Nat /\ \A i \in 1..Len(sep) : sep[i] \in Whitespace
  BY <1>1, LenProperties, ElementOfSeq
<1>4. sep # <<>>
  BY <1>1
<1>5. QED
  BY <1>1, <1>2, <1>3, <1>4

\* A text that ends with a character is settled where the character is solid.
LEMMA SettledIs ==
    ASSUME NEW t \in Seq(Characters), NEW x \in Characters
    PROVE  /\ Settled(Append(t, x)) <=> x \notin Whitespace
           /\ Append(t, x) \in Seq(Whitespace) => x \in Whitespace
           /\ Len(Append(t, x)) # 0
<1>1. PICK u : u = Append(t, x)
  OBVIOUS
<1>2. PICK n \in Nat : n = Len(t)
  BY LenProperties
<1>3. Len(u) = n + 1 /\ u[n + 1] = x /\ u \in Seq(Characters)
  BY <1>1, <1>2, AppendProperties
<1>4. Settled(u) <=> x \notin Whitespace
  BY <1>3 DEF Settled
<1>5. ASSUME u \in Seq(Whitespace) PROVE x \in Whitespace
  <2>1. n + 1 \in 1..Len(u)
    BY <1>3
  <2>2. u[n + 1] \in Whitespace
    BY <1>5, <2>1, ElementOfSeq
  <2>3. QED
    BY <1>3, <2>2
<1>6. QED
  BY <1>1, <1>3, <1>4, <1>5

LEMMA SettledIsSolid ==
    ASSUME NEW t \in Seq(Characters), Settled(t), Len(t) # 0, NEW h \in Seq(Whitespace)
    PROVE  t \o h \notin Seq(Whitespace)
<1>1. PICK n \in Nat : n = Len(t)
  BY LenProperties
<1>2. n # 0 /\ t[n] \notin Whitespace
  BY <1>1 DEF Settled
<1>3. PICK u : u = t \o h
  OBVIOUS
<1>4. h \in Seq(Characters) /\ Len(h) \in Nat
  BY WhitespaceIsSeparate, LenProperties
<1>5. Len(u) = n + Len(h) /\ u[n] = t[n]
  <2>1. /\ Len(t \o h) = Len(t) + Len(h)
        /\ \A i \in 1..(Len(t) + Len(h)) : (t \o h)[i] = IF i <= Len(t) THEN t[i] ELSE h[i - Len(t)]
    BY <1>4, ConcatProperties
  <2>2. n \in 1..(n + Len(h)) /\ n <= n
    BY <1>2, <1>4
  <2>3. QED
    BY <1>1, <1>3, <2>1, <2>2
<1>6. ASSUME u \in Seq(Whitespace) PROVE FALSE
  <2>1. n \in 1..Len(u)
    BY <1>2, <1>4, <1>5
  <2>2. u[n] \in Whitespace
    BY <1>6, <2>1, ElementOfSeq
  <2>3. QED
    BY <1>2, <1>5, <2>2
<1>7. QED
  BY <1>3, <1>6

\* Where a text ends with a separator, it occurs.
LEMMA OccursAtEnd ==
    ASSUME NEW w \in Seq(Characters), NEW sep \in Seq(Characters), sep # <<>>
    PROVE  Occurrences(sep, w \o sep) # {}
<1>1. PICK m, l \in Nat : m = Len(w) /\ l = Len(sep)
  BY LenProperties
<1>2. m \in Nat /\ l # 0
  BY <1>1, EmptySeq, LenProperties
<1>3. PICK t : t = w \o sep
  OBVIOUS
<1>4. /\ t \in Seq(Characters) /\ Len(t) = m + l
      /\ \A i \in 1..(m + l) : t[i] = IF i <= m THEN w[i] ELSE sep[i - m]
  BY <1>1, <1>3, ConcatProperties
<1>5. PICK u, a, b : u = SubSeq(t, a, b) /\ a = m + 1 /\ b = m + l
  OBVIOUS
<1>6. a \in Int /\ b \in Int /\ 1 <= a /\ b <= Len(t) /\ a <= b
  BY <1>2, <1>4, <1>5
<1>7. u \in Seq(Characters) /\ Len(u) = b - a + 1 /\ \A k \in 1..(b - a + 1) : u[k] = t[a + k - 1]
  BY <1>4, <1>5, <1>6, PartOfText
<1>8. b - a + 1 = l
  BY <1>2, <1>5
<1>9. ASSUME NEW k \in 1..l PROVE u[k] = sep[k]
  <2>1. /\ a + k - 1 = m + k /\ m + k \in 1..(m + l) /\ ~ (m + k <= m) /\ (m + k) - m = k
    BY <1>2, <1>5
  <2>2. t[m + k] = sep[k]
    BY <1>4, <2>1
  <2>3. u[k] = t[a + k - 1]
    BY <1>7, <1>8
  <2>4. QED
    BY <2>1, <2>2, <2>3
<1>10. u = sep
  BY <1>1, <1>7, <1>8, <1>9, SeqEqual
<1>11. a \in 1..(Len(t) - l + 1) /\ a + l - 1 = b
  BY <1>2, <1>4, <1>5
<1>12. a \in Occurrences(sep, t)
  BY <1>1, <1>5, <1>10, <1>11 DEF Occurrences, OccursAt
<1>13. QED
  BY <1>3, <1>12

\* Where it occurs in a text with one more character.
LEMMA OccursInAppend ==
    ASSUME NEW t \in Seq(Characters), NEW x \in Characters,
           NEW sep \in Seq(Characters), sep # <<>>
    PROVE  Occurrences(sep, Append(t, x)) = {}
             <=> /\ Occurrences(sep, t) = {}
                 /\ \A w \in Seq(Characters) : Append(t, x) # w \o sep
<1>1. PICK n \in Nat : n = Len(t)
  BY LenProperties
<1>2. PICK l \in Nat : l = Len(sep)
  BY LenProperties
<1>3. l # 0
  BY <1>2, EmptySeq
<1>4. PICK u : u = Append(t, x)
  OBVIOUS
<1>5. u \in Seq(Characters) /\ Len(u) = n + 1
  BY <1>1, <1>4, AppendProperties
<1>6. ASSUME NEW i \in Int, NEW j \in Int, 1 <= i, j <= n
      PROVE  SubSeq(u, i, j) = SubSeq(t, i, j)
  BY <1>1, <1>4, <1>6, SubSeqOfAppend
<1>7. ASSUME NEW w \in Seq(Characters), u = w \o sep PROVE Occurrences(sep, u) # {}
  BY <1>7, OccursAtEnd
<1>8. ASSUME NEW j \in Occurrences(sep, t) PROVE j \in Occurrences(sep, u)
  <2>1. j \in 1..(n - l + 1) /\ SubSeq(t, j, j + l - 1) = sep
    BY <1>1, <1>2 DEF Occurrences, OccursAt
  <2>2. j \in Int /\ j + l - 1 \in Int /\ 1 <= j /\ j + l - 1 <= n /\ j \in 1..(n + 1 - l + 1)
    BY <2>1
  <2>3. SubSeq(u, j, j + l - 1) = sep
    BY <1>6, <2>1, <2>2
  <2>4. QED
    BY <1>2, <1>5, <2>2, <2>3 DEF Occurrences, OccursAt
<1>9. ASSUME NEW j \in Occurrences(sep, u), j \notin Occurrences(sep, t)
      PROVE  \E w \in Seq(Characters) : u = w \o sep
  <2>1. j \in 1..(n + 1 - l + 1) /\ SubSeq(u, j, j + l - 1) = sep
    BY <1>2, <1>5 DEF Occurrences, OccursAt
  <2>2. CASE j + l - 1 <= n
    <3>1. j \in Int /\ j + l - 1 \in Int /\ 1 <= j /\ j \in 1..(n - l + 1)
      BY <2>1, <2>2
    <3>2. SubSeq(t, j, j + l - 1) = sep
      BY <1>6, <2>1, <2>2, <3>1
    <3>3. j \in Occurrences(sep, t)
      BY <1>1, <1>2, <3>1, <3>2 DEF Occurrences, OccursAt
    <3>4. QED
      BY <1>9, <3>3
  <2>3. CASE ~ (j + l - 1 <= n)
    <3>1. PICK a, e : a = j - 1 /\ e = n + 1
      OBVIOUS
    <3>2. /\ j + l - 1 = e /\ a + 1 = j /\ a \in (1 - 1)..Len(u) /\ e \in a..Len(u)
          /\ 1 \in 1..(Len(u) + 1) /\ a \in Int /\ a <= Len(u)
      BY <1>3, <1>5, <2>1, <2>3, <3>1
    <3>3. SubSeq(u, 1, a) \o SubSeq(u, a + 1, e) = SubSeq(u, 1, e)
      BY <1>5, <3>2, ConcatAdjacentSubSeq
    <3>4. SubSeq(u, 1, e) = u
      BY <1>5, <3>1, SubSeqFull
    <3>5. SubSeq(u, 1, a) \in Seq(Characters)
      BY <1>5, <3>2, PartOfText
    <3>6. QED
      BY <2>1, <3>2, <3>3, <3>4, <3>5
  <2>4. QED
    BY <2>2, <2>3
<1>10. QED
  BY <1>4, <1>7, <1>8, <1>9

\* What is white space behind a settled text and ends with a separator.
GapEndsIn(z, h, sep, w) == \E f \in Seq(Whitespace) : w = z \o f /\ h = f \o sep

LEMMA GapEnds ==
    ASSUME NEW z \in Seq(Characters), Settled(z), NEW h \in Seq(Whitespace), NEW sep \in Gaps,
           NEW w \in Seq(Characters), z \o h = w \o sep
    PROVE  GapEndsIn(z, h, sep, w)
<1>1. PICK n \in Nat : n = Len(z)
  BY LenProperties
<1>2. PICK l \in Nat : l = Len(sep)
  BY GapsAre
<1>3. PICK m \in Nat : m = Len(w)
  BY LenProperties
<1>4. PICK k \in Nat : k = Len(h)
  BY LenProperties
<1>5. /\ l # 0 /\ sep \in Seq(Characters) /\ h \in Seq(Characters)
      /\ \A i \in 1..l : sep[i] \in Whitespace
      /\ \A i \in 1..k : h[i] \in Whitespace
  <2>1. \A i \in 1..k : h[i] \in Whitespace
    BY <1>4, ElementOfSeq
  <2>2. QED
    BY <1>2, <2>1, GapsAre, WhitespaceIsSeparate
<1>6. PICK t : t = z \o h
  OBVIOUS
<1>7. /\ t \in Seq(Characters) /\ Len(t) = n + k
      /\ \A i \in 1..(n + k) : t[i] = IF i <= n THEN z[i] ELSE h[i - n]
  BY <1>1, <1>4, <1>5, <1>6, ConcatProperties
<1>8. /\ Len(t) = m + l
      /\ \A i \in 1..(m + l) : t[i] = IF i <= m THEN w[i] ELSE sep[i - m]
  <2>1. t = w \o sep
    BY <1>6
  <2>2. QED
    BY <1>2, <1>3, <1>5, <2>1, ConcatProperties
<1>9. n <= m
  <2> SUFFICES ASSUME m < n PROVE FALSE
    BY <1>1, <1>3
  <2>1. n # 0 /\ z[n] \notin Whitespace
    BY <1>1, <1>3 DEF Settled
  <2>2. n \in 1..(m + l) /\ ~ (n <= m) /\ n \in 1..(n + k) /\ n <= n /\ n - m \in 1..l
    BY <1>7, <1>8, <2>1
  <2>3. t[n] = z[n] /\ t[n] = sep[n - m]
    BY <1>7, <1>8, <2>2
  <2>4. QED
    BY <1>5, <2>1, <2>2, <2>3
<1>10. PICK d \in Nat : m = n + d
  <2>1. m - n \in Nat /\ m = n + (m - n)
    BY <1>9
  <2>2. QED
    BY <2>1
<1>11. k = d + l
  <2>1. n + k = m + l
    BY <1>7, <1>8
  <2>2. QED
    BY <1>10, <2>1
<1>12. PICK f : f = [i \in 1..d |-> h[i]]
  OBVIOUS
<1>13. f \in Seq(Whitespace) /\ f \in Seq(Characters) /\ Len(f) = d
  <2>1. \A i \in 1..d : i \in 1..k
    BY <1>11
  <2>2. f \in [1..d -> Whitespace]
    BY <1>5, <1>12, <2>1
  <2>3. QED
    BY <2>2, WhitespaceIsSeparate
<1>14. w = z \o f
  <2>1. PICK v : v = z \o f
    OBVIOUS
  <2>2. /\ v \in Seq(Characters) /\ Len(v) = n + d
        /\ \A i \in 1..(n + d) : v[i] = IF i <= n THEN z[i] ELSE f[i - n]
    BY <1>1, <1>13, <2>1, ConcatProperties
  <2>3. ASSUME NEW i \in 1..m PROVE w[i] = v[i]
    <3>1. i \in 1..(m + l) /\ i <= m /\ i \in 1..(n + k) /\ i \in 1..(n + d)
      BY <1>10, <1>11
    <3>2. w[i] = t[i]
      BY <1>8, <3>1
    <3>3. CASE i <= n
      BY <1>7, <2>2, <3>1, <3>2, <3>3
    <3>4. CASE ~ (i <= n)
      <4>1. i - n \in 1..d
        BY <1>10, <3>4
      <4>2. t[i] = h[i - n] /\ v[i] = f[i - n]
        BY <1>7, <2>2, <3>1, <3>4
      <4>3. QED
        BY <1>12, <3>2, <4>1, <4>2
    <3>5. QED
      BY <3>3, <3>4
  <2>4. QED
    BY <1>3, <1>10, <2>1, <2>2, <2>3, SeqEqual
<1>15. h = f \o sep
  <2>1. PICK v : v = f \o sep
    OBVIOUS
  <2>2. /\ v \in Seq(Characters) /\ Len(v) = d + l
        /\ \A i \in 1..(d + l) : v[i] = IF i <= d THEN f[i] ELSE sep[i - d]
    BY <1>2, <1>5, <1>13, <2>1, ConcatProperties
  <2>3. ASSUME NEW i \in 1..k PROVE h[i] = v[i]
    <3>1. i \in 1..(d + l)
      BY <1>11
    <3>2. CASE i <= d
      <4>1. i \in 1..d
        BY <3>2
      <4>2. QED
        BY <1>12, <2>2, <3>1, <3>2, <4>1
    <3>3. CASE ~ (i <= d)
      <4>1. /\ n + i \in 1..(m + l) /\ n + i \in 1..(n + k) /\ ~ (n + i <= m) /\ ~ (n + i <= n)
            /\ (n + i) - n = i /\ (n + i) - m = i - d
        BY <1>10, <1>11, <3>3
      <4>2. t[n + i] = h[i] /\ t[n + i] = sep[i - d]
        BY <1>7, <1>8, <4>1
      <4>3. QED
        BY <2>2, <3>1, <3>3, <4>2
    <3>4. QED
      BY <3>2, <3>3
  <2>4. QED
    BY <1>4, <1>5, <1>11, <2>1, <2>2, <2>3, SeqEqual
<1>16. QED
  BY <1>13, <1>14, <1>15 DEF GapEndsIn

\* A solid character ends no separator.
Lengthens(parts, x, more) ==
    \E y \in Seq(Seq(Characters)), z \in Seq(Characters) :
        parts = Append(y, z) /\ more = Append(y, Append(z, x))

LEMMA SplitAtSolid ==
    ASSUME NEW t \in Seq(Characters), NEW x \in Characters \ Whitespace, NEW sep \in Gaps
    PROVE  Lengthens(SplitAt(t, sep), x, SplitAt(Append(t, x), sep))
<1>1. sep \in Seq(Characters) /\ sep # <<>> /\ Len(sep) \in Nat \ {0}
  BY GapsAre
<1>2. CutOnto(SplitAt(t, sep), x, sep, SplitAt(Append(t, x), sep))
  BY <1>1, SplitAtAppend
<1>3. PICK y \in Seq(Seq(Characters)), z \in Seq(Characters) :
        /\ SplitAt(t, sep) = Append(y, z)
        /\ \/ \E w \in Seq(Characters) : /\ Append(z, x) = w \o sep
                                         /\ SplitAt(Append(t, x), sep) = Append(Append(y, w), <<>>)
           \/ SplitAt(Append(t, x), sep) = Append(y, Append(z, x))
  BY <1>2 DEF CutOnto
<1>4. ASSUME NEW w \in Seq(Characters), Append(z, x) = w \o sep PROVE FALSE
  <2>1. PICK m \in Nat : m = Len(w)
    BY LenProperties
  <2>2. PICK l \in Nat : l = Len(sep)
    BY <1>1
  <2>3. PICK u : u = Append(z, x)
    OBVIOUS
  <2>4. Len(u) = m + l /\ \A i \in 1..(m + l) : u[i] = IF i <= m THEN w[i] ELSE sep[i - m]
    <3>1. u = w \o sep
      BY <1>4, <2>3
    <3>2. QED
      BY <1>1, <2>1, <2>2, <3>1, ConcatProperties
  <2>5. m + l \in 1..(m + l) /\ ~ (m + l <= m) /\ (m + l) - m = l /\ l \in 1..l
    BY <1>1, <2>2
  <2>6. u[m + l] = sep[l] /\ sep[l] \in Whitespace
    BY <2>2, <2>4, <2>5, GapsAre
  <2>7. Settled(u) /\ Len(u) # 0
    BY <2>3, SettledIs
  <2>8. QED
    BY <2>4, <2>6, <2>7 DEF Settled
<1>5. QED
  BY <1>3, <1>4 DEF Lengthens

LEMMA NothingToSplit ==
    ASSUME NEW sep \in Seq(Characters), sep # <<>>
    PROVE  SplitAt(<<>>, sep) = << <<>> >>
<1>1. PICK none : none = <<>>
  OBVIOUS
<1>2. none \in Seq(Characters) /\ Len(none) = 0
  BY <1>1
<1>3. PICK g : g = CHOOSE f : f = [i \in 1..(Len(none) + 1) |-> Cut(none, sep, f, i)]
  OBVIOUS
<1>4. /\ g = [i \in 1..(Len(none) + 1) |-> Cut(none, sep, g, i)]
      /\ SplitAt(none, sep) = g[1]
  BY <1>2, <1>3, CuttingExists, SplitAtUnfold
<1>5. g[1] = Cut(none, sep, g, 1)
  <2>1. 1 \in 1..(Len(none) + 1)
    BY <1>2
  <2>2. QED
    BY <1>4, <2>1
<1>6. Behind(sep, none, 1) = {}
  <2>1. Len(sep) \in Nat \ {0}
    BY EmptySeq
  <2>2. \A j \in Occurrences(sep, none) : j \in 1..(0 - Len(sep) + 1)
    BY <1>2 DEF Occurrences
  <2>3. Occurrences(sep, none) = {}
    BY <2>1, <2>2
  <2>4. QED
    BY <2>3 DEF Behind
<1>7. SubSeq(none, 1, Len(none)) = none
  BY <1>1, <1>2, SubSeqEmpty
<1>8. g[1] = << none >>
  BY <1>5, <1>6, <1>7 DEF Cut
<1>9. QED
  BY <1>1, <1>4, <1>8

\* The last part of a settled text is settled, and empty only with the text.
LEMMA SettledParts ==
    ASSUME NEW x \in Seq(Characters), Settled(x), NEW sep \in Gaps
    PROVE  \E y \in Seq(Seq(Characters)), z \in Seq(Characters) :
              /\ SplitAt(x, sep) = Append(y, z) /\ Settled(z)
              /\ Len(x) = 0 => Len(y) = 0 /\ Len(z) = 0
              /\ Len(x) # 0 => Len(z) # 0
<1>1. sep \in Seq(Characters) /\ sep # <<>>
  BY GapsAre
<1>2. CASE Len(x) = 0
  <2>1. PICK none : none = <<>>
    OBVIOUS
  <2>2. x = none
    BY <1>2, <2>1, EmptySeq
  <2>3. /\ none \in Seq(Characters) /\ none \in Seq(Seq(Characters)) /\ Len(none) = 0
        /\ Append(none, none) = << none >>
    BY <2>1
  <2>4. SplitAt(x, sep) = Append(none, none)
    BY <1>1, <2>1, <2>2, <2>3, NothingToSplit
  <2>5. Settled(none)
    BY <2>3 DEF Settled
  <2>6. QED
    BY <1>2, <2>3, <2>4, <2>5
<1>3. CASE Len(x) # 0
  <2>1. x # <<>>
    BY <1>3
  <2>2. PICK t \in Seq(Characters), c \in Characters : x = Append(t, c)
    BY <2>1, SequenceEmptyOrAppend
  <2>3. c \in Characters \ Whitespace
    BY <2>2, SettledIs
  <2>4. PICK y \in Seq(Seq(Characters)), z \in Seq(Characters) :
          /\ SplitAt(t, sep) = Append(y, z)
          /\ SplitAt(Append(t, c), sep) = Append(y, Append(z, c))
    <3>1. Lengthens(SplitAt(t, sep), c, SplitAt(Append(t, c), sep))
      BY <2>3, SplitAtSolid
    <3>2. QED
      BY <3>1 DEF Lengthens
  <2>5. PICK zc : zc = Append(z, c)
    OBVIOUS
  <2>6. zc \in Seq(Characters) /\ Settled(zc) /\ Len(zc) # 0
    BY <2>3, <2>5, AppendProperties, SettledIs
  <2>7. QED
    BY <1>3, <2>2, <2>4, <2>5, <2>6
<1>4. QED
  BY <1>2, <1>3

\* A gap after the last part: cut off it are blank parts, where it holds a separator.
GapCut(y, z, h, sep, parts) ==
    \E f \in Seq(Whitespace), B \in Seq(Seq(Whitespace)) :
        /\ parts = Append(y, z \o f) \o B
        /\ Len(B) = 0 <=> Occurrences(sep, h) = {}
        /\ Len(B) = 0 => f = h

LEMMA BlankParts ==
    /\ Seq(Seq(Whitespace)) \subseteq Seq(Seq(Characters))
    /\ Seq(Whitespace) \subseteq Seq(Characters)
    /\ <<>> \in Seq(Whitespace) /\ <<>> \in Seq(Seq(Whitespace))
<1>1. Seq(Whitespace) \subseteq Seq(Characters)
  BY WhitespaceIsSeparate
<1>2. Seq(Seq(Whitespace)) \subseteq Seq(Seq(Characters))
  BY <1>1, SeqMonotonic
<1>3. QED
  BY <1>1, <1>2

LEMMA NoGap ==
    ASSUME NEW y \in Seq(Seq(Characters)), NEW z \in Seq(Characters), NEW sep \in Gaps
    PROVE  GapCut(y, z, <<>>, sep, Append(y, z))
<1>1. PICK none, parts : none = <<>> /\ parts = Append(y, z)
  OBVIOUS
<1>2. /\ none \in Seq(Whitespace) /\ none \in Seq(Seq(Whitespace)) /\ Len(none) = 0
      /\ parts \in Seq(Seq(Characters))
  BY <1>1, AppendProperties
<1>3. parts \o none = parts /\ z \o none = z
  BY <1>1, <1>2, ConcatEmptySeq
<1>4. Occurrences(sep, none) = {}
  <2>1. Len(sep) \in Nat \ {0}
    BY GapsAre
  <2>2. \A j \in Occurrences(sep, none) : j \in 1..(0 - Len(sep) + 1)
    BY <1>2 DEF Occurrences
  <2>3. QED
    BY <2>1, <2>2
<1>5. parts = Append(y, z \o none) \o none
  BY <1>1, <1>3
<1>6. GapCut(y, z, none, sep, parts)
  BY <1>2, <1>4, <1>5 DEF GapCut
<1>7. QED
  BY <1>1, <1>6

\* One more blank, where nothing is cut yet.
LEMMA GapStarts ==
    ASSUME NEW y \in Seq(Seq(Characters)), NEW z \in Seq(Characters), Settled(z),
           NEW sep \in Gaps, NEW h \in Seq(Whitespace), NEW c \in Whitespace,
           Occurrences(sep, h) = {}, NEW more, CutOnto(Append(y, z \o h), c, sep, more)
    PROVE  GapCut(y, z, Append(h, c), sep, more)
<1>1. PICK zh, hc : zh = z \o h /\ hc = Append(h, c)
  OBVIOUS
<1>2. /\ h \in Seq(Characters) /\ c \in Characters /\ zh \in Seq(Characters)
      /\ hc \in Seq(Whitespace) /\ hc \in Seq(Characters)
  <2>1. h \in Seq(Characters) /\ c \in Characters /\ hc \in Seq(Whitespace)
    BY <1>1, WhitespaceIsSeparate, AppendProperties
  <2>2. QED
    BY <1>1, <2>1, WhitespaceIsSeparate, ConcatProperties
<1>3. Append(zh, c) = z \o hc
  BY <1>1, <1>2, TextAppend
<1>4. sep \in Seq(Characters) /\ sep # <<>>
  BY GapsAre
<1>5. PICK v \in Seq(Seq(Characters)), u \in Seq(Characters) :
        /\ Append(y, zh) = Append(v, u)
        /\ \/ \E w \in Seq(Characters) : /\ Append(u, c) = w \o sep
                                         /\ more = Append(Append(v, w), <<>>)
           \/ /\ \A w \in Seq(Characters) : Append(u, c) # w \o sep
              /\ more = Append(v, Append(u, c))
  BY <1>1 DEF CutOnto
<1>6. v = y /\ u = zh
  BY <1>2, <1>5, AppendInjective
<1>7. CASE \E w \in Seq(Characters) : /\ Append(zh, c) = w \o sep
                                      /\ more = Append(Append(y, w), <<>>)
  <2>1. PICK w \in Seq(Characters) : /\ Append(zh, c) = w \o sep
                                     /\ more = Append(Append(y, w), <<>>)
    BY <1>7
  <2>2. PICK f \in Seq(Whitespace) : w = z \o f /\ hc = f \o sep
    <3>1. z \o hc = w \o sep
      BY <1>3, <2>1
    <3>2. GapEndsIn(z, hc, sep, w)
      BY <1>2, <3>1, GapEnds
    <3>3. QED
      BY <3>2 DEF GapEndsIn
  <2>3. Occurrences(sep, hc) # {}
    BY <1>4, <2>2, BlankParts, OccursAtEnd
  <2>4. PICK none, one, B : none = <<>> /\ B = << none >> /\ one = Append(y, w)
    OBVIOUS
  <2>5. /\ none \in Seq(Characters) /\ B \in Seq(Seq(Whitespace)) /\ Len(B) # 0
        /\ one \in Seq(Seq(Characters))
    BY <2>4, AppendProperties
  <2>6. Append(one, none) = one \o B
    BY <2>4, <2>5, AppendIsConcat
  <2>7. more = Append(y, z \o f) \o B
    BY <2>1, <2>2, <2>4, <2>6
  <2>8. QED
    BY <1>1, <2>3, <2>5, <2>7 DEF GapCut
<1>8. CASE /\ \A w \in Seq(Characters) : Append(zh, c) # w \o sep
           /\ more = Append(y, Append(zh, c))
  <2>1. Occurrences(sep, hc) = {}
    <3>1. ASSUME NEW w \in Seq(Characters), hc = w \o sep PROVE FALSE
      <4>1. (z \o w) \o sep = z \o (w \o sep)
        BY <1>4, ConcatAssociative, SMTT(30)
      <4>2. z \o w \in Seq(Characters)
        BY ConcatProperties
      <4>3. QED
        BY <1>3, <1>8, <3>1, <4>1, <4>2
    <3>2. QED
      BY <1>1, <1>2, <1>4, <3>1, OccursInAppend
  <2>2. more = Append(y, z \o hc)
    BY <1>3, <1>8
  <2>3. PICK none, all : none = <<>> /\ all = Append(y, z \o hc)
    OBVIOUS
  <2>4. none \in Seq(Seq(Whitespace)) /\ Len(none) = 0 /\ all \in Seq(Seq(Characters))
    BY <1>2, <2>3, ConcatProperties, AppendProperties
  <2>5. all \o none = all
    BY <2>3, <2>4, ConcatEmptySeq
  <2>6. more = Append(y, z \o hc) \o none
    BY <2>2, <2>3, <2>5
  <2>7. QED
    BY <1>1, <1>2, <2>1, <2>4, <2>6 DEF GapCut
<1>9. QED
  BY <1>5, <1>6, <1>7, <1>8

\* One more blank, where the last part is blank already.
BlanksFollow(parts, more) == \E C \in Seq(Seq(Whitespace)) : more = parts \o C /\ Len(C) # 0

LEMMA GapGoesOn ==
    ASSUME NEW parts \in Seq(Seq(Characters)), NEW B \in Seq(Seq(Whitespace)), Len(B) # 0,
           NEW sep \in Gaps, NEW c \in Whitespace, NEW more, CutOnto(parts \o B, c, sep, more)
    PROVE  BlanksFollow(parts, more)
<1>1. PICK D \in Seq(Seq(Whitespace)), b \in Seq(Whitespace) : B = Append(D, b)
  <2>1. B # <<>>
    OBVIOUS
  <2>2. QED
    BY <2>1, SequenceEmptyOrAppend
<1>2. PICK all : all = parts \o D
  OBVIOUS
<1>3. /\ D \in Seq(Seq(Characters)) /\ b \in Seq(Characters) /\ all \in Seq(Seq(Characters))
      /\ c \in Characters
  <2>1. D \in Seq(Seq(Characters)) /\ b \in Seq(Characters) /\ c \in Characters
    BY BlankParts, WhitespaceIsSeparate
  <2>2. QED
    BY <1>2, <2>1, ConcatProperties
<1>4. parts \o B = Append(all, b)
  BY <1>1, <1>2, <1>3, PartsAppend
<1>5. PICK v \in Seq(Seq(Characters)), u \in Seq(Characters) :
        /\ Append(all, b) = Append(v, u)
        /\ \/ \E w \in Seq(Characters) : /\ Append(u, c) = w \o sep
                                         /\ more = Append(Append(v, w), <<>>)
           \/ more = Append(v, Append(u, c))
  BY <1>4 DEF CutOnto
<1>6. v = all /\ u = b
  BY <1>3, <1>5, AppendInjective
<1>7. PICK bc : bc = Append(b, c)
  OBVIOUS
<1>8. bc \in Seq(Whitespace) /\ bc \in Seq(Characters)
  BY <1>7, AppendProperties, BlankParts
<1>9. CASE more = Append(all, bc)
  <2>1. PICK C : C = Append(D, bc)
    OBVIOUS
  <2>2. C \in Seq(Seq(Whitespace)) /\ Len(C) # 0
    BY <1>8, <2>1, AppendProperties, LenProperties
  <2>3. more = parts \o C
    BY <1>2, <1>3, <1>8, <1>9, <2>1, PartsAppend
  <2>4. QED
    BY <2>2, <2>3 DEF BlanksFollow
<1>10. CASE \E w \in Seq(Characters) : /\ bc = w \o sep
                                       /\ more = Append(Append(all, w), <<>>)
  <2>1. PICK w \in Seq(Characters) : bc = w \o sep /\ more = Append(Append(all, w), <<>>)
    BY <1>10
  <2>2. w \in Seq(Whitespace)
    <3>1. PICK m \in Nat : m = Len(w)
      BY LenProperties
    <3>2. sep \in Seq(Characters) /\ Len(sep) \in Nat
      BY GapsAre
    <3>3. Len(bc) = m + Len(sep) /\ \A i \in 1..(m + Len(sep)) :
                                       bc[i] = IF i <= m THEN w[i] ELSE sep[i - m]
      BY <2>1, <3>1, <3>2, ConcatProperties
    <3>4. ASSUME NEW i \in 1..m PROVE w[i] \in Whitespace
      <4>1. i \in 1..(m + Len(sep)) /\ i \in 1..Len(bc) /\ i <= m
        BY <3>2, <3>3
      <4>2. bc[i] \in Whitespace
        BY <1>8, <4>1, ElementOfSeq
      <4>3. QED
        BY <3>3, <4>1, <4>2
    <3>5. w \in [1..m -> Characters]
      BY <3>1, LenProperties
    <3>6. w \in [1..m -> Whitespace]
      BY <3>4, <3>5
    <3>7. QED
      BY <3>6
  <2>3. PICK none, one, C, Dw : /\ none = <<>> /\ one = Append(all, w)
                                /\ Dw = Append(D, w) /\ C = Append(Dw, none)
    OBVIOUS
  <2>4. none \in Seq(Whitespace) /\ none \in Seq(Characters)
    BY <2>3
  <2>5. /\ Dw \in Seq(Seq(Whitespace)) /\ C \in Seq(Seq(Whitespace)) /\ Len(C) # 0
        /\ Dw \in Seq(Seq(Characters))
    <3>1. Dw \in Seq(Seq(Whitespace))
      BY <2>2, <2>3, AppendProperties
    <3>2. C \in Seq(Seq(Whitespace)) /\ Len(C) # 0
      BY <2>3, <2>4, <3>1, AppendProperties, LenProperties
    <3>3. QED
      BY <3>1, <3>2, BlankParts
  <2>6. one = parts \o Dw
    BY <1>2, <1>3, <2>3, PartsAppend
  <2>7. Append(one, none) = parts \o Append(Dw, none)
    BY <2>4, <2>5, <2>6, PartsAppend
  <2>8. more = parts \o C
    BY <2>1, <2>3, <2>7
  <2>9. QED
    BY <2>5, <2>8 DEF BlanksFollow
<1>11. QED
  BY <1>5, <1>6, <1>7, <1>9, <1>10

LEMMA SplitAtGap ==
    ASSUME NEW x \in Seq(Characters), NEW sep \in Gaps,
           NEW y \in Seq(Seq(Characters)), NEW z \in Seq(Characters), Settled(z),
           SplitAt(x, sep) = Append(y, z)
    PROVE  \A h \in Seq(Whitespace) : GapCut(y, z, h, sep, SplitAt(x \o h, sep))
<1> DEFINE P == { h \in Seq(Whitespace) : GapCut(y, z, h, sep, SplitAt(x \o h, sep)) }
<1>1. <<>> \in P
  <2>1. PICK none : none = <<>>
    OBVIOUS
  <2>2. none \in Seq(Whitespace) /\ x \o none = x
    BY <2>1, ConcatEmptySeq
  <2>3. GapCut(y, z, none, sep, SplitAt(x, sep))
    BY <2>1, NoGap
  <2>4. QED
    BY <2>1, <2>2, <2>3
<1>2. ASSUME NEW h \in Seq(Whitespace), NEW c \in Whitespace, h \in P PROVE Append(h, c) \in P
  <2>1. PICK hc, xh, old, new : /\ hc = Append(h, c) /\ xh = x \o h
                                /\ old = SplitAt(xh, sep) /\ new = SplitAt(Append(xh, c), sep)
    OBVIOUS
  <2>2. /\ h \in Seq(Characters) /\ c \in Characters /\ xh \in Seq(Characters)
        /\ hc \in Seq(Whitespace)
    <3>1. h \in Seq(Characters) /\ c \in Characters /\ hc \in Seq(Whitespace)
      BY <2>1, WhitespaceIsSeparate, AppendProperties
    <3>2. QED
      BY <2>1, <3>1, ConcatProperties
  <2>3. Append(xh, c) = x \o hc
    BY <2>1, <2>2, TextAppend
  <2>4. GapCut(y, z, h, sep, old)
    BY <1>2, <2>1
  <2>5. sep \in Seq(Characters) /\ sep # <<>>
    BY GapsAre
  <2>6. CutOnto(old, c, sep, new)
    BY <2>1, <2>2, <2>5, SplitAtAppend
  <2>7. PICK f \in Seq(Whitespace), B \in Seq(Seq(Whitespace)) :
          /\ old = Append(y, z \o f) \o B
          /\ Len(B) = 0 <=> Occurrences(sep, h) = {}
          /\ Len(B) = 0 => f = h
    BY <2>4 DEF GapCut
  <2>8. PICK zf, first : zf = z \o f /\ first = Append(y, zf)
    OBVIOUS
  <2>9. zf \in Seq(Characters) /\ first \in Seq(Seq(Characters))
    <3>1. f \in Seq(Characters)
      BY BlankParts
    <3>2. zf \in Seq(Characters)
      BY <2>8, <3>1, ConcatProperties
    <3>3. QED
      BY <2>8, <3>2, AppendProperties
  <2>10. GapCut(y, z, hc, sep, new)
    <3>1. CASE Len(B) = 0
      <4>1. B = <<>>
        BY <3>1, EmptySeq
      <4>2. first \o <<>> = first
        BY <2>9, ConcatEmptySeq
      <4>3. old = Append(y, z \o h)
        BY <2>7, <2>8, <3>1, <4>1, <4>2
      <4>4. Occurrences(sep, h) = {} /\ CutOnto(Append(y, z \o h), c, sep, new)
        BY <2>6, <2>7, <3>1, <4>3
      <4>5. QED
        BY <2>1, <4>4, GapStarts
    <3>2. CASE Len(B) # 0
      <4>1. CutOnto(first \o B, c, sep, new)
        BY <2>6, <2>7, <2>8
      <4>2. PICK C \in Seq(Seq(Whitespace)) : new = first \o C /\ Len(C) # 0
        <5>1. BlanksFollow(first, new)
          BY <2>9, <3>2, <4>1, GapGoesOn
        <5>2. QED
          BY <5>1 DEF BlanksFollow
      <4>3. Occurrences(sep, hc) # {}
        BY <2>1, <2>2, <2>5, <2>7, <3>2, OccursInAppend
      <4>4. QED
        BY <2>8, <4>2, <4>3 DEF GapCut
    <3>3. QED
      BY <3>1, <3>2
  <2>11. QED
    BY <2>1, <2>2, <2>3, <2>10
<1>3. QED
  <2> HIDE DEF P
  <2>1. Seq(Whitespace) \subseteq P
    BY <1>1, <1>2, SequenceInduction
  <2>2. QED
    BY <2>1 DEF P

\* The parts that are not blank.
LEMMA NonBlankAre ==
    ASSUME NEW ts \in Seq(Seq(Characters)), NEW t \in Seq(Characters)
    PROVE  /\ NonBlank(ts) \in Seq(Seq(Characters))
           /\ Len(ts) = 0 => Len(NonBlank(ts)) = 0
           /\ NonBlank(Append(ts, t))
                = IF t \in Seq(Whitespace) THEN NonBlank(ts) ELSE Append(NonBlank(ts), t)
<1>1. PICK kept : kept = NonBlank(ts)
  OBVIOUS
<1>2. kept \in Seq(Seq(Characters))
  BY <1>1, WithoutAll DEF NonBlank
<1>3. NonBlank(Append(ts, t)) = IF t \in Seq(Whitespace) THEN kept ELSE Append(kept, t)
  BY <1>1, WithoutAppend DEF NonBlank
<1>4. Len(kept) <= Len(ts)
  BY <1>1, WithoutIsShorter DEF NonBlank
<1>5. Len(kept) \in Nat
  BY <1>2, LenProperties
<1>6. QED
  BY <1>1, <1>2, <1>3, <1>4, <1>5

LEMMA NonBlankBehind ==
    ASSUME NEW ts \in Seq(Seq(Characters))
    PROVE  \A B \in Seq(Seq(Whitespace)) : NonBlank(ts \o B) = NonBlank(ts)
<1> DEFINE P == { B \in Seq(Seq(Whitespace)) : NonBlank(ts \o B) = NonBlank(ts) }
<1>1. <<>> \in P
  BY ConcatEmptySeq
<1>2. ASSUME NEW B \in Seq(Seq(Whitespace)), NEW b \in Seq(Whitespace), B \in P
      PROVE  Append(B, b) \in P
  <2>1. PICK tb, Bb : tb = ts \o B /\ Bb = Append(B, b)
    OBVIOUS
  <2>2. B \in Seq(Seq(Characters)) /\ b \in Seq(Characters) /\ Bb \in Seq(Seq(Whitespace))
    BY <2>1, BlankParts, AppendProperties
  <2>3. tb \in Seq(Seq(Characters))
    BY <2>1, <2>2, ConcatProperties
  <2>4. Append(tb, b) = ts \o Bb
    BY <2>1, <2>2, PartsAppend
  <2>5. NonBlank(Append(tb, b)) = NonBlank(tb)
    BY <2>2, <2>3, NonBlankAre
  <2>6. NonBlank(ts \o Bb) = NonBlank(ts)
    BY <1>2, <2>1, <2>4, <2>5
  <2>7. QED
    BY <2>1, <2>2, <2>6
<1>3. QED
  <2> HIDE DEF P
  <2>1. Seq(Seq(Whitespace)) \subseteq P
    BY <1>1, <1>2, SequenceInduction
  <2>2. QED
    BY <2>1 DEF P

\* Each part of a cut lacks the separator.
LEMMA EachLacks ==
    ASSUME NEW t \in Seq(Characters), NEW sep \in Gaps, NEW y \in Seq(Seq(Characters)),
           NEW z \in Seq(Characters), NEW B \in Seq(Seq(Characters)),
           SplitAt(t, sep) = Append(y, z) \o B
    PROVE  z \in PartsOf(t, sep)
<1>1. SplitAt(t, sep) \in Seq(PartsOf(t, sep))
  BY GapsAre, SplitAtParts
<1>2. PICK all, first, n : all = SplitAt(t, sep) /\ first = Append(y, z) /\ n = Len(y) + 1
  OBVIOUS
<1>3. first \in Seq(Seq(Characters)) /\ Len(first) = n /\ first[n] = z /\ Len(B) \in Nat /\ n \in Nat \ {0}
  BY <1>2, AppendProperties, LenProperties
<1>4. /\ Len(first \o B) = n + Len(B)
      /\ \A i \in 1..(n + Len(B)) : (first \o B)[i] = IF i <= n THEN first[i] ELSE B[i - n]
  BY <1>3, ConcatProperties
<1>5. n \in 1..(n + Len(B)) /\ n <= n
  BY <1>3
<1>6. all = first \o B
  BY <1>2
<1>7. Len(all) = n + Len(B) /\ all[n] = z
  BY <1>3, <1>4, <1>5, <1>6
<1>8. n \in 1..Len(all)
  BY <1>5, <1>7
<1>9. all[n] \in PartsOf(t, sep)
  BY <1>1, <1>2, <1>8, ElementOfSeq
<1>10. QED
  BY <1>7, <1>9

LEMMA LastLacks ==
    ASSUME NEW t \in Seq(Characters), NEW sep \in Gaps, NEW y \in Seq(Seq(Characters)),
           NEW z \in Seq(Characters), SplitAt(t, sep) = Append(y, z)
    PROVE  z \in PartsOf(t, sep)
<1>1. PICK none, first : none = <<>> /\ first = Append(y, z)
  OBVIOUS
<1>2. none \in Seq(Seq(Characters)) /\ first \in Seq(Seq(Characters))
  BY <1>1, AppendProperties
<1>3. first \o none = first
  BY <1>1, <1>2, ConcatEmptySeq
<1>4. SplitAt(t, sep) = Append(y, z) \o none
  BY <1>1, <1>3
<1>5. QED
  BY <1>2, <1>4, EachLacks

Cuts(t, sep) == NonBlank(SplitAt(t, sep))

\* The first solid character behind a gap starts a part or goes on with the last.
GoesOnWith(x, h, c, sep) ==
    \E Y \in Seq(Seq(Characters)), z \in Seq(Characters), f \in Seq(Whitespace) :
        /\ Settled(z) /\ Len(z) # 0
        /\ Cuts(x, sep) = Append(Y, z)
        /\ Cuts(x \o h, sep) = Append(Y, z \o f)
        /\ z \o f \in PartsOf(x \o h, sep)
        /\ \/ /\ Occurrences(sep, h) = {} /\ f = h
              /\ Cuts(Append(x \o h, c), sep) = Append(Y, Append(z \o h, c))
           \/ /\ Occurrences(sep, h) # {}
              /\ \E w \in Seq(Whitespace) :
                    /\ Append(w, c) \in PartsOf(Append(x \o h, c), sep)
                    /\ Cuts(Append(x \o h, c), sep) = Append(Append(Y, z \o f), Append(w, c))

LEMMA CutsGoOn ==
    ASSUME NEW x \in Seq(Characters), Settled(x), Len(x) # 0, NEW sep \in Gaps,
           NEW h \in Seq(Whitespace), NEW c \in Characters \ Whitespace
    PROVE  GoesOnWith(x, h, c, sep)
<1>1. PICK y \in Seq(Seq(Characters)), z \in Seq(Characters) :
        SplitAt(x, sep) = Append(y, z) /\ Settled(z) /\ Len(z) # 0
  BY SettledParts
<1>2. PICK xh, xhc : xh = x \o h /\ xhc = Append(xh, c)
  OBVIOUS
<1>3. xh \in Seq(Characters) /\ xhc \in Seq(Characters) /\ h \in Seq(Characters)
  BY <1>2, BlankParts, ConcatProperties, AppendProperties
<1>4. GapCut(y, z, h, sep, SplitAt(xh, sep))
  BY <1>1, <1>2, SplitAtGap
<1>5. PICK f \in Seq(Whitespace), B \in Seq(Seq(Whitespace)) :
        /\ SplitAt(xh, sep) = Append(y, z \o f) \o B
        /\ Len(B) = 0 <=> Occurrences(sep, h) = {}
        /\ Len(B) = 0 => f = h
  BY <1>4 DEF GapCut
<1>6. PICK zf, first : zf = z \o f /\ first = Append(y, zf)
  OBVIOUS
<1>7. zf \in Seq(Characters) /\ first \in Seq(Seq(Characters)) /\ B \in Seq(Seq(Characters))
  <2>1. f \in Seq(Characters) /\ B \in Seq(Seq(Characters))
    BY BlankParts
  <2>2. zf \in Seq(Characters)
    BY <1>6, <2>1, ConcatProperties
  <2>3. QED
    BY <1>6, <2>1, <2>2, AppendProperties
<1>8. PICK Y : Y = NonBlank(y)
  OBVIOUS
<1>9. Y \in Seq(Seq(Characters))
  BY <1>8, NonBlankAre
<1>10. zf \notin Seq(Whitespace) /\ z \notin Seq(Whitespace)
  <2>1. zf \notin Seq(Whitespace)
    BY <1>1, <1>6, SettledIsSolid
  <2>2. PICK none : none = <<>>
    OBVIOUS
  <2>3. none \in Seq(Whitespace) /\ z \o none = z
    BY <2>2, ConcatEmptySeq
  <2>4. z \o none \notin Seq(Whitespace)
    BY <1>1, <2>3, SettledIsSolid
  <2>5. QED
    BY <2>1, <2>3, <2>4
<1>11. Cuts(x, sep) = Append(Y, z)
  BY <1>1, <1>8, <1>10, NonBlankAre DEF Cuts
<1>12. NonBlank(first) = Append(Y, zf)
  BY <1>6, <1>7, <1>8, <1>10, NonBlankAre
<1>13. Cuts(xh, sep) = Append(Y, zf)
  BY <1>5, <1>6, <1>7, <1>12, NonBlankBehind DEF Cuts
<1>14. zf \in PartsOf(xh, sep)
  BY <1>3, <1>5, <1>6, <1>7, EachLacks
<1>15. PICK v \in Seq(Seq(Characters)), u \in Seq(Characters) :
         /\ SplitAt(xh, sep) = Append(v, u)
         /\ SplitAt(xhc, sep) = Append(v, Append(u, c))
  <2>1. Lengthens(SplitAt(xh, sep), c, SplitAt(xhc, sep))
    BY <1>2, <1>3, SplitAtSolid
  <2>2. QED
    BY <2>1 DEF Lengthens
<1>16. PICK uc : uc = Append(u, c)
  OBVIOUS
<1>17. uc \in Seq(Characters) /\ uc \notin Seq(Whitespace)
  BY <1>16, AppendProperties, SettledIs
<1>18. Cuts(xhc, sep) = Append(NonBlank(v), uc)
  BY <1>15, <1>16, <1>17, NonBlankAre DEF Cuts
<1>19. uc \in PartsOf(xhc, sep)
  BY <1>3, <1>15, <1>16, <1>17, LastLacks
<1>20. CASE Len(B) = 0
  <2>1. f = h /\ Occurrences(sep, h) = {}
    BY <1>5, <1>20
  <2>2. B = <<>>
    BY <1>20, EmptySeq
  <2>3. first \o <<>> = first
    BY <1>7, ConcatEmptySeq
  <2>4. Append(v, u) = Append(y, zf)
    BY <1>5, <1>6, <1>15, <2>2, <2>3
  <2>5. v = y /\ u = zf
    BY <1>7, <2>4, AppendInjective
  <2>6. Cuts(xhc, sep) = Append(Y, Append(zf, c))
    BY <1>8, <1>16, <1>18, <2>5
  <2>7. QED
    BY <1>1, <1>2, <1>6, <1>9, <1>11, <1>13, <1>14, <2>1, <2>6 DEF GoesOnWith
<1>21. CASE Len(B) # 0
  <2>1. PICK D \in Seq(Seq(Whitespace)), b \in Seq(Whitespace) : B = Append(D, b)
    <3>1. B # <<>>
      BY <1>21
    <3>2. QED
      BY <3>1, SequenceEmptyOrAppend
  <2>2. PICK all : all = first \o D
    OBVIOUS
  <2>3. /\ D \in Seq(Seq(Characters)) /\ b \in Seq(Characters) /\ all \in Seq(Seq(Characters))
    <3>1. D \in Seq(Seq(Characters)) /\ b \in Seq(Characters)
      BY BlankParts
    <3>2. QED
      BY <1>7, <2>2, <3>1, ConcatProperties
  <2>4. Append(all, b) = first \o B
    <3>1. first \in Seq(Seq(Characters))
      BY <1>7
    <3>2. Append(first \o D, b) = first \o Append(D, b)
      BY <2>3, <3>1, PartsAppend, Zenon
    <3>3. QED
      BY <2>1, <2>2, <3>2
  <2>5. Append(v, u) = Append(all, b)
    BY <1>5, <1>6, <1>15, <2>4
  <2>6. v = all /\ u = b
    BY <2>3, <2>5, AppendInjective, SMTT(30)
  <2>7. NonBlank(v) = Append(Y, zf)
    BY <1>7, <1>12, <2>2, <2>6, NonBlankBehind
  <2>8. /\ Append(b, c) \in PartsOf(xhc, sep)
        /\ Cuts(xhc, sep) = Append(Append(Y, zf), Append(b, c))
    BY <1>16, <1>18, <1>19, <2>6, <2>7
  <2>9. Occurrences(sep, h) # {}
    BY <1>5, <1>21
  <2>10. QED
    BY <1>1, <1>2, <1>6, <1>9, <1>11, <1>13, <1>14, <2>8, <2>9 DEF GoesOnWith
<1>22. QED
  BY <1>20, <1>21

\* The first part of all.
StartsWith(h, c, sep) ==
    /\ Len(Cuts(h, sep)) = 0
    /\ \E w \in Seq(Whitespace) : /\ Append(w, c) \in PartsOf(Append(h, c), sep)
                                  /\ Cuts(Append(h, c), sep) = << Append(w, c) >>

LEMMA CutsStart ==
    ASSUME NEW sep \in Gaps, NEW h \in Seq(Whitespace), NEW c \in Characters \ Whitespace
    PROVE  StartsWith(h, c, sep)
<1>1. PICK none, hc : none = <<>> /\ hc = Append(h, c)
  OBVIOUS
<1>2. /\ none \in Seq(Characters) /\ none \in Seq(Seq(Characters)) /\ Len(none) = 0
      /\ Settled(none) /\ h \in Seq(Characters)
  BY <1>1, BlankParts DEF Settled
<1>3. hc \in Seq(Characters) /\ none \o h = h
  BY <1>1, <1>2, AppendProperties, ConcatEmptySeq
<1>4. SplitAt(none, sep) = Append(none, none)
  <2>1. Append(none, none) = << none >>
    BY <1>1
  <2>2. QED
    BY <1>1, <2>1, GapsAre, NothingToSplit
<1>5. GapCut(none, none, h, sep, SplitAt(h, sep))
  BY <1>2, <1>3, <1>4, SplitAtGap
<1>6. PICK f \in Seq(Whitespace), B \in Seq(Seq(Whitespace)) :
        SplitAt(h, sep) = Append(none, none \o f) \o B
  BY <1>5 DEF GapCut
<1>7. PICK one, all : one = << f >> /\ all = SplitAt(h, sep)
  OBVIOUS
<1>8. Append(none, none \o f) = one /\ one \in Seq(Seq(Whitespace))
  <2>1. none \o f = f
    BY <1>1, ConcatEmptySeq
  <2>2. Append(none, f) = one
    BY <1>1, <1>7
  <2>3. one \in Seq(Seq(Whitespace))
    BY <1>7
  <2>4. QED
    BY <2>1, <2>2, <2>3
<1>9. all \in Seq(Seq(Whitespace)) /\ all \in Seq(Seq(Characters))
  <2>1. all = one \o B
    BY <1>6, <1>7, <1>8
  <2>2. all \in Seq(Seq(Whitespace))
    BY <1>8, <2>1, ConcatProperties
  <2>3. QED
    BY <2>2, BlankParts
<1>10. \A C \in Seq(Seq(Whitespace)) : Len(NonBlank(C)) = 0
  <2>1. ASSUME NEW C \in Seq(Seq(Whitespace)) PROVE Len(NonBlank(C)) = 0
    <3>1. none \o C = C
      BY <1>1, ConcatEmptySeq
    <3>2. NonBlank(none \o C) = NonBlank(none)
      BY <1>2, NonBlankBehind
    <3>3. Len(NonBlank(none)) = 0
      BY <1>2, NonBlankAre
    <3>4. QED
      BY <3>1, <3>2, <3>3
  <2>2. QED
    BY <2>1
<1>11. PICK v \in Seq(Seq(Characters)), u \in Seq(Characters) :
         all = Append(v, u) /\ SplitAt(hc, sep) = Append(v, Append(u, c))
  <2>1. Lengthens(SplitAt(h, sep), c, SplitAt(hc, sep))
    BY <1>1, <1>2, SplitAtSolid
  <2>2. QED
    BY <1>7, <2>1 DEF Lengthens
<1>12. v \in Seq(Seq(Whitespace)) /\ u \in Seq(Whitespace)
  <2>1. all # <<>>
    <3>1. Len(Append(v, u)) = Len(v) + 1 /\ Len(v) \in Nat
      BY AppendProperties, LenProperties
    <3>2. Len(all) # 0
      BY <1>11, <3>1
    <3>3. QED
      BY <1>1, <1>2, <3>2
  <2>2. PICK D \in Seq(Seq(Whitespace)), b \in Seq(Whitespace) : all = Append(D, b)
    BY <1>9, <2>1, SequenceEmptyOrAppend
  <2>3. D \in Seq(Seq(Characters)) /\ b \in Seq(Characters)
    BY BlankParts
  <2>4. Append(v, u) = Append(D, b)
    BY <1>11, <2>2
  <2>5. v = D /\ u = b
    BY <2>3, <2>4, AppendInjective
  <2>6. QED
    BY <2>5
<1>13. PICK uc : uc = Append(u, c)
  OBVIOUS
<1>14. uc \in Seq(Characters) /\ uc \notin Seq(Whitespace)
  BY <1>13, AppendProperties, SettledIs
<1>15. NonBlank(v) = none
  <2>1. Len(NonBlank(v)) = 0 /\ NonBlank(v) \in Seq(Seq(Characters))
    BY <1>10, <1>12, NonBlankAre
  <2>2. QED
    BY <1>1, <2>1, EmptySeq
<1>16. Cuts(hc, sep) = Append(NonBlank(v), uc)
  BY <1>11, <1>13, <1>14, NonBlankAre DEF Cuts
<1>17. Cuts(hc, sep) = << uc >>
  BY <1>1, <1>15, <1>16
<1>18. uc \in PartsOf(hc, sep)
  BY <1>3, <1>11, <1>13, <1>14, LastLacks
<1>19. Len(Cuts(h, sep)) = 0
  BY <1>7, <1>9, <1>10 DEF Cuts
<1>20. QED
  BY <1>1, <1>12, <1>13, <1>17, <1>18, <1>19 DEF StartsWith
=============================================================================
