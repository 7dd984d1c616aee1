-------------------------- MODULE NormaliserProofs --------------------------
(***************************************************************************)
(* Proofs about normalize_text, for any document of any pages and lines:   *)
(* every word and every paragraph break survives but for the repeated      *)
(* headers and footers and the page numbers.                               *)
(*                                                                         *)
(* Joining broken words, unwrapping lines and tidying paragraphs are each  *)
(* shown to work piece by piece, on a text and a line behind it; the       *)
(* document is then followed line by line and page by page, in step with   *)
(* the reading of it the property is stated by.                            *)
(***************************************************************************)
EXTENDS SplitterProofs

-----------------------------------------------------------------------------
(* Words of a text without line ends.                                      *)

OneBlank == << Blank >>

\* Where a separator of one character is not found.
LEMMA OccursAlone ==
    ASSUME NEW s \in Seq(Characters), NEW b \in Characters
    PROVE  Occurrences(<< b >>, s) = {} <=> \A i \in 1..Len(s) : s[i] # b
<1>1. PICK one : one = << b >>
  OBVIOUS
<1>2. PICK n \in Nat : n = Len(s)
  BY LenProperties
<1>3. Len(one) = 1 /\ one[1] = b /\ one \in Seq(Characters)
  BY <1>1
<1>4. ASSUME NEW i \in 1..n PROVE SubSeq(s, i, i) = one <=> s[i] = b
  <2>1. \A k \in i..i : s[k] \in Characters
    BY <1>2, <1>4, ElementOfSeq
  <2>2. /\ SubSeq(s, i, i) \in Seq(Characters) /\ Len(SubSeq(s, i, i)) = 1
        /\ SubSeq(s, i, i)[1] = s[i]
    <3>1. i \in Int /\ i - i + 1 = 1 /\ i + 1 - 1 = i /\ 1 \in 1..(i - i + 1)
      OBVIOUS
    <3>2. /\ SubSeq(s, i, i) \in Seq(Characters)
          /\ Len(SubSeq(s, i, i)) = IF i <= i THEN i - i + 1 ELSE 0
          /\ \A k \in 1..(i - i + 1) : SubSeq(s, i, i)[k] = s[i + k - 1]
      BY <2>1, <3>1, SubSeqProperties
    <3>3. QED
      BY <3>1, <3>2
  <2>3. PICK u : u = SubSeq(s, i, i)
    OBVIOUS
  <2>4. u[1] = b => u = one
    BY <1>3, <2>2, <2>3, SeqEqual
  <2>5. QED
    BY <1>3, <2>2, <2>3, <2>4
<1>5. Occurrences(one, s) = { i \in 1..n : SubSeq(s, i, i) = one }
  <2>1. Occurrences(one, s) = { i \in 1..(n - 1 + 1) : SubSeq(s, i, i + 1 - 1) = one }
    BY <1>2, <1>3 DEF Occurrences, OccursAt
  <2>2. n - 1 + 1 = n /\ \A i \in 1..n : i + 1 - 1 = i
    OBVIOUS
  <2>3. QED
    BY <2>1, <2>2
<1>6. Occurrences(one, s) = {} <=> \A i \in 1..n : s[i] # b
  BY <1>4, <1>5
<1>7. QED
  BY <1>1, <1>2, <1>6

LEMMA OneBlankIs ==
    /\ OneBlank \in Gaps /\ OneBlank \in Seq(Characters)
    /\ Blank \in Whitespace /\ NewLine \in Whitespace /\ Blank # NewLine
    /\ Whitespace \subseteq Characters
    /\ Seq({Blank}) \subseteq Seq(Whitespace)
    /\ Seq({Blank}) \subseteq Seq(Characters \ {NewLine})
    /\ Seq(Characters \ {NewLine}) \subseteq Seq(Characters)
<1>1. Blank \in Whitespace /\ NewLine \in Whitespace /\ Blank # NewLine
  BY DEF Whitespace, Blank, NewLine
<1>2. Whitespace \subseteq Characters
  BY DEF Characters
<1>3. PICK one : one = << Blank >>
  OBVIOUS
<1>4. one \in Seq(Whitespace) /\ Len(one) = 1 /\ one \in Seq(Characters)
  BY <1>1, <1>2, <1>3
<1>5. OneBlank \in Gaps /\ OneBlank \in Seq(Characters)
  BY <1>3, <1>4 DEF OneBlank, Gaps
<1>6. {Blank} \subseteq Whitespace /\ {Blank} \subseteq Characters \ {NewLine}
  BY <1>1, <1>2
<1>7. QED
  BY <1>1, <1>2, <1>5, <1>6, SeqMonotonic

\* What is cut at the blanks of a text without line ends has no white space.
LEMMA SolidPart ==
    ASSUME NEW t \in Seq(Characters \ {NewLine}), NEW p \in PartsOf(t, OneBlank)
    PROVE  /\ p \in Seq(Characters)
           /\ \A i \in 1..Len(p) : p[i] \notin Whitespace
<1>1. t \in Seq(Characters) /\ Blank \in Characters /\ NewLine \in Characters
  BY OneBlankIs
<1>2. /\ p \in Seq(Characters) /\ Occurrences(<<Blank>>, p) = {}
      /\ \A o \in Seq(Characters) \ {<<>>} : Occurrences(o, t) = {} => Occurrences(o, p) = {}
  BY DEF PartsOf, OneBlank
<1>3. \A i \in 1..Len(t) : t[i] # NewLine
  BY ElementOfSeq
<1>4. PICK end : end = << NewLine >>
  OBVIOUS
<1>5. end \in Seq(Characters) \ {<<>>}
  BY <1>1, <1>4
<1>6. Occurrences(end, t) = {}
  BY <1>1, <1>3, <1>4, OccursAlone
<1>7. Occurrences(end, p) = {}
  BY <1>2, <1>5, <1>6
<1>8. \A i \in 1..Len(p) : p[i] # NewLine
  BY <1>1, <1>2, <1>4, <1>7, OccursAlone
<1>9. \A i \in 1..Len(p) : p[i] # Blank
  BY <1>1, <1>2, OccursAlone
<1>10. QED
  BY <1>2, <1>8, <1>9 DEF Whitespace

\* So a gap at its end or at its start is none.
LEMMA NoGapInside ==
    ASSUME NEW p \in Seq(Characters), \A i \in 1..Len(p) : p[i] \notin Whitespace,
           NEW z \in Seq(Characters), NEW f \in Seq(Whitespace), NEW c \in Characters
    PROVE  (p = z \o f \/ p = Append(f, c)) => Len(f) = 0
<1>1. PICK n \in Nat, m \in Nat : n = Len(z) /\ m = Len(f)
  BY LenProperties
<1>2. f \in Seq(Characters)
  BY BlankParts
<1>3. ASSUME m # 0, p = z \o f PROVE FALSE
  <2>1. Len(z \o f) = n + m /\ \A i \in 1..(n + m) : (z \o f)[i] = IF i <= n THEN z[i] ELSE f[i - n]
    BY <1>1, <1>2, ConcatProperties
  <2>2. n + 1 \in 1..(n + m) /\ ~ (n + 1 <= n) /\ n + 1 - n = 1 /\ 1 \in 1..m
    BY <1>3
  <2>3. p[n + 1] = f[1] /\ n + 1 \in 1..Len(p)
    BY <1>3, <2>1, <2>2
  <2>4. f[1] \in Whitespace
    BY <1>1, <2>2, ElementOfSeq
  <2>5. QED
    BY <2>3, <2>4
<1>4. ASSUME m # 0, p = Append(f, c) PROVE FALSE
  <2>1. Len(Append(f, c)) = m + 1 /\ \A i \in 1..m : Append(f, c)[i] = f[i]
    BY <1>1, <1>2, AppendProperties
  <2>2. 1 \in 1..m /\ 1 \in 1..(m + 1)
    BY <1>4
  <2>3. f[1] \in Whitespace
    BY <1>1, <2>2, ElementOfSeq
  <2>4. QED
    BY <1>4, <2>1, <2>2, <2>3
<1>5. QED
  BY <1>1, <1>3, <1>4

JoinsOnto(sep, Y, z, p, c) ==
    /\ Join(Append(Y, z), sep) \in Seq(Characters)
    /\ Join(Append(Y, Append(z, c)), sep) = Append(Join(Append(Y, z), sep), c)
    /\ Join(Append(Append(Y, z), p), sep) = Join(Append(Y, z), sep) \o (sep \o p)
    /\ Join(<< p >>, sep) = p

LEMMA JoinOnto ==
    ASSUME NEW sep \in Seq(Characters), NEW Y \in Seq(Seq(Characters)),
           NEW z \in Seq(Characters), NEW p \in Seq(Characters), NEW c \in Characters
    PROVE  JoinsOnto(sep, Y, z, p, c)
<1>1. PICK Yz, one, none : Yz = Append(Y, z) /\ one = << c >> /\ none = <<>>
  OBVIOUS
<1>2. /\ Yz \in Seq(Seq(Characters)) /\ Len(Yz) # 0 /\ one \in Seq(Characters)
      /\ none \in Seq(Seq(Characters)) /\ Len(none) = 0
  <2>1. Len(Yz) = Len(Y) + 1 /\ Len(Y) \in Nat /\ Yz \in Seq(Seq(Characters))
    BY <1>1, AppendProperties, LenProperties
  <2>2. QED
    BY <1>1, <2>1
<1>3. Join(Yz, sep) \in Seq(Characters)
  BY <1>2, JoinAre
<1>4. PICK j : j = Join(Yz, sep)
  OBVIOUS
<1>5. Append(z, c) = z \o one /\ Append(j, c) = j \o one
  BY <1>1, <1>3, <1>4, AppendIsConcat
<1>6. Join(Append(Y, z \o one), sep) = Join(Yz, sep) \o one
  <2>0. one \in Seq(Characters)
    BY <1>2
  <2>1. JoinEndsWith(sep, Y, z, one)
    BY <2>0, JoinEnds
  <2>2. QED
    BY <1>1, <2>1 DEF JoinEndsWith
<1>7. Join(Append(Yz, p), sep) = Join(Yz, sep) \o (sep \o p)
  <2>1. \A q \in Seq(Characters) :
          Join(Append(Yz, q), sep) = IF Len(Yz) = 0 THEN q ELSE Join(Yz, sep) \o (sep \o q)
    <3>1. Yz \in Seq(Seq(Characters))
      BY <1>2
    <3>2. QED
      BY <3>1, JoinAre, ZenonT(30)
  <2>2. QED
    BY <1>2, <2>1
<1>8. Join(Append(none, p), sep) = p /\ Append(none, p) = << p >>
  <2>1. Join(Append(none, p), sep) = p
    BY <1>2, JoinAre
  <2>2. QED
    BY <1>1, <2>1
<1>9. QED
  BY <1>1, <1>3, <1>4, <1>5, <1>6, <1>7, <1>8 DEF JoinsOnto

\* A line's words with one blank between two.
Spaced(q) == Join(Words(q), OneBlank)

SpaceFor(h) == IF Len(h) = 0 THEN <<>> ELSE OneBlank

LEMMA SpaceIs ==
    ASSUME NEW h
    PROVE  /\ SpaceFor(h) \in Seq(Characters) /\ SpaceFor(h) \in Seq(Whitespace)
           /\ Len(h) = 0 => \A s \in Seq(Characters) : s \o SpaceFor(h) = s
<1>1. PICK none : none = <<>>
  OBVIOUS
<1>2. none \in Seq(Characters) /\ none \in Seq(Whitespace) /\ \A s \in Seq(Characters) : s \o none = s
  BY <1>1, ConcatEmptySeq
<1>3. OneBlank \in Seq(Characters) /\ OneBlank \in Seq(Whitespace)
  BY OneBlankIs, GapsAre
<1>4. QED
  BY <1>1, <1>2, <1>3 DEF SpaceFor

\* Of blanks, either there are none or they hold a separator.
LEMMA BlanksCut ==
    ASSUME NEW h \in Seq({Blank})
    PROVE  Occurrences(OneBlank, h) = {} <=> Len(h) = 0
<1>1. h \in Seq(Characters) /\ h \in Seq(Whitespace) /\ Blank \in Characters
  BY OneBlankIs, BlankParts
<1>2. Occurrences(OneBlank, h) = {} <=> \A i \in 1..Len(h) : h[i] # Blank
  BY <1>1, OccursAlone DEF OneBlank
<1>3. \A i \in 1..Len(h) : h[i] = Blank
  <2>1. \A i \in 1..Len(h) : h[i] \in {Blank}
    BY ElementOfSeq
  <2>2. QED
    BY <2>1
<1>4. Len(h) \in Nat
  BY LenProperties
<1>5. Len(h) # 0 => 1 \in 1..Len(h)
  BY <1>4
<1>6. QED
  BY <1>2, <1>3, <1>4, <1>5

LEMMA SpacedGoesOn ==
    ASSUME NEW q \in Seq(Characters \ {NewLine}), Settled(q), Len(q) # 0,
           NEW h \in Seq({Blank}), NEW c \in Characters \ Whitespace
    PROVE  /\ Spaced(q) \in Seq(Characters)
           /\ Spaced(q \o h) = Spaced(q)
           /\ Spaced(Append(q \o h, c)) = Append(Spaced(q) \o SpaceFor(h), c)
<1>1. PICK qh, qhc : qh = q \o h /\ qhc = Append(qh, c)
  OBVIOUS
<1>2. /\ q \in Seq(Characters) /\ h \in Seq(Whitespace) /\ h \in Seq(Characters)
      /\ h \in Seq(Characters \ {NewLine}) /\ OneBlank \in Gaps /\ OneBlank \in Seq(Characters)
  BY OneBlankIs, BlankParts
<1>3. c \in Characters \ {NewLine} /\ c \in Characters
  BY OneBlankIs
<1>4. qh \in Seq(Characters \ {NewLine}) /\ qhc \in Seq(Characters \ {NewLine})
  <2>1. qh \in Seq(Characters \ {NewLine})
    BY <1>1, <1>2, ConcatProperties
  <2>2. QED
    BY <1>1, <1>3, <2>1, AppendProperties
<1>5. GoesOnWith(q, h, c, OneBlank)
  BY <1>2, CutsGoOn
<1>6. PICK Y \in Seq(Seq(Characters)), z \in Seq(Characters), f \in Seq(Whitespace) :
        /\ Cuts(q, OneBlank) = Append(Y, z)
        /\ Cuts(qh, OneBlank) = Append(Y, z \o f)
        /\ z \o f \in PartsOf(qh, OneBlank)
        /\ \/ /\ Occurrences(OneBlank, h) = {}
              /\ Cuts(qhc, OneBlank) = Append(Y, Append(z \o h, c))
           \/ /\ Occurrences(OneBlank, h) # {}
              /\ \E w \in Seq(Whitespace) :
                    /\ Append(w, c) \in PartsOf(qhc, OneBlank)
                    /\ Cuts(qhc, OneBlank) = Append(Append(Y, z \o f), Append(w, c))
  BY <1>1, <1>5 DEF GoesOnWith
<1>7. z \o f = z
  <2>1. PICK p : p = z \o f
    OBVIOUS
  <2>2. p \in Seq(Characters) /\ \A i \in 1..Len(p) : p[i] \notin Whitespace
    BY <1>4, <1>6, <2>1, SolidPart
  <2>3. Len(f) = 0
    BY <1>3, <2>1, <2>2, NoGapInside
  <2>4. f = <<>>
    BY <2>3, EmptySeq
  <2>5. z \o <<>> = z
    BY ConcatEmptySeq
  <2>6. QED
    BY <2>4, <2>5
<1>8. PICK j : j = Join(Append(Y, z), OneBlank)
  OBVIOUS
<1>9. j \in Seq(Characters)
  <2>1. JoinsOnto(OneBlank, Y, z, z, c)
    BY <1>2, <1>3, JoinOnto
  <2>2. QED
    BY <1>8, <2>1 DEF JoinsOnto
<1>10. Spaced(q) = j /\ Spaced(qh) = j
  BY <1>6, <1>7, <1>8 DEF Spaced, Words, Cuts, OneBlank
<1>11. Spaced(qhc) = Join(Cuts(qhc, OneBlank), OneBlank)
  BY DEF Spaced, Words, Cuts, OneBlank
<1>12. CASE Len(h) = 0
  <2>1. Cuts(qhc, OneBlank) = Append(Y, Append(z \o h, c))
    BY <1>6, <1>12, BlanksCut
  <2>2. z \o h = z
    <3>1. h = <<>>
      BY <1>12, EmptySeq
    <3>2. z \o <<>> = z
      BY ConcatEmptySeq
    <3>3. QED
      BY <3>1, <3>2
  <2>3. Join(Append(Y, Append(z, c)), OneBlank) = Append(j, c)
    <3>1. OneBlank \in Seq(Characters) /\ c \in Characters
      BY <1>2, <1>3
    <3>2. JoinsOnto(OneBlank, Y, z, z, c)
      BY <3>1, JoinOnto
    <3>3. QED
      BY <1>8, <3>2 DEF JoinsOnto
  <2>4. j \o SpaceFor(h) = j
    BY <1>9, <1>12, SpaceIs
  <2>5. QED
    BY <1>1, <1>9, <1>10, <1>11, <2>1, <2>2, <2>3, <2>4
<1>13. CASE Len(h) # 0
  <2>1. PICK w \in Seq(Whitespace) :
          /\ Append(w, c) \in PartsOf(qhc, OneBlank)
          /\ Cuts(qhc, OneBlank) = Append(Append(Y, z \o f), Append(w, c))
    BY <1>6, <1>13, BlanksCut
  <2>2. PICK p, one : p = Append(w, c) /\ one = << c >>
    OBVIOUS
  <2>3. p \in Seq(Characters) /\ \A i \in 1..Len(p) : p[i] \notin Whitespace
    BY <1>4, <2>1, <2>2, SolidPart
  <2>4. Len(w) = 0
    <3>1. z \in Seq(Characters) /\ p = Append(w, c)
      BY <2>2
    <3>2. QED
      BY <1>3, <2>3, <3>1, NoGapInside
  <2>5. p = one /\ one \in Seq(Characters)
    <3>1. w = <<>>
      BY <2>4, EmptySeq
    <3>2. QED
      BY <1>3, <2>2, <3>1
  <2>6. Join(Append(Append(Y, z), one), OneBlank) = j \o (OneBlank \o one)
    <3>1. OneBlank \in Seq(Characters) /\ c \in Characters /\ one \in Seq(Characters)
      BY <1>2, <1>3, <2>5
    <3>2. JoinsOnto(OneBlank, Y, z, one, c)
      BY <3>1, JoinOnto
    <3>3. QED
      BY <1>8, <3>2 DEF JoinsOnto
  <2>7. j \o (OneBlank \o one) = Append(j \o OneBlank, c)
    <3>1. OneBlank \o one = Append(OneBlank, c)
      BY <1>2, <1>3, <2>2, AppendIsConcat
    <3>2. Append(j \o OneBlank, c) = j \o Append(OneBlank, c)
      BY <1>2, <1>3, <1>9, TextAppend
    <3>3. QED
      BY <3>1, <3>2
  <2>8. SpaceFor(h) = OneBlank
    BY <1>13 DEF SpaceFor
  <2>9. Spaced(qhc) = Append(j \o OneBlank, c)
    BY <1>7, <1>11, <2>1, <2>2, <2>5, <2>6, <2>7
  <2>10. QED
    BY <1>1, <1>9, <1>10, <2>8, <2>9
<1>14. QED
  BY <1>12, <1>13

LEMMA SpacedStarts ==
    ASSUME NEW h \in Seq({Blank}), NEW c \in Characters \ Whitespace
    PROVE  Spaced(Append(h, c)) = << c >>
<1>1. PICK hc, one : hc = Append(h, c) /\ one = << c >>
  OBVIOUS
<1>2. /\ h \in Seq(Whitespace) /\ h \in Seq(Characters \ {NewLine}) /\ OneBlank \in Gaps
      /\ OneBlank \in Seq(Characters) /\ c \in Characters \ {NewLine} /\ c \in Characters
  BY OneBlankIs
<1>3. hc \in Seq(Characters \ {NewLine}) /\ one \in Seq(Characters)
  BY <1>1, <1>2, AppendProperties
<1>4. StartsWith(h, c, OneBlank)
  BY <1>2, CutsStart
<1>5. PICK w \in Seq(Whitespace) :
        Append(w, c) \in PartsOf(hc, OneBlank) /\ Cuts(hc, OneBlank) = << Append(w, c) >>
  BY <1>1, <1>4 DEF StartsWith
<1>6. PICK p : p = Append(w, c)
  OBVIOUS
<1>7. p \in Seq(Characters) /\ \A i \in 1..Len(p) : p[i] \notin Whitespace
  BY <1>3, <1>5, <1>6, SolidPart
<1>8. Len(w) = 0
  <2>1. one \in Seq(Characters) /\ p = Append(w, c)
    BY <1>3, <1>6
  <2>2. QED
    BY <1>2, <1>7, <2>1, NoGapInside
<1>9. p = one
  <2>1. w = <<>>
    BY <1>8, EmptySeq
  <2>2. QED
    BY <1>1, <1>6, <2>1
<1>10. Spaced(hc) = Join(<< one >>, OneBlank)
  BY <1>5, <1>6, <1>9 DEF Spaced, Words, Cuts, OneBlank
<1>11. Join(<< one >>, OneBlank) = one
  <2>1. PICK none : none = <<>>
    OBVIOUS
  <2>2. none \in Seq(Characters) /\ none \in Seq(Seq(Characters))
    BY <2>1
  <2>3. JoinsOnto(OneBlank, none, none, one, c)
    BY <1>2, <1>3, <2>2, JoinOnto
  <2>4. QED
    BY <2>3 DEF JoinsOnto
<1>12. QED
  BY <1>1, <1>10, <1>11

-----------------------------------------------------------------------------
(* Parts without their line ends.                                          *)

Unended(s) == Without(s, {NewLine})

LEMMA UnendedAre ==
    /\ \A s \in Seq(Characters) : /\ Unended(s) \in Seq(Characters \ {NewLine})
                                  /\ Unended(s) \in Seq(Characters)
    /\ \A s \in Seq(Whitespace) : Unended(s) \in Seq({Blank})
<1>1. /\ Whitespace \ {NewLine} \subseteq {Blank}
      /\ Seq(Characters \ {NewLine}) \subseteq Seq(Characters)
  BY OneBlankIs DEF Whitespace
<1>2. \A s \in Seq(Characters) : Without(s, {NewLine}) \in Seq(Characters \ {NewLine})
  BY WithoutElements
<1>3. \A s \in Seq(Whitespace) : Without(s, {NewLine}) \in Seq(Whitespace \ {NewLine})
  BY WithoutElements
<1>4. \A s \in Seq(Whitespace) : Unended(s) \in Seq({Blank})
  <2>1. ASSUME NEW s \in Seq(Whitespace) PROVE Unended(s) \in Seq({Blank})
    <3>1. Unended(s) \in Seq(Whitespace \ {NewLine})
      BY <1>3 DEF Unended
    <3>2. QED
      BY <1>1, <3>1, SeqMonotonic
  <2>2. QED
    BY <2>1
<1>5. QED
  BY <1>1, <1>2, <1>4 DEF Unended

UnendedJoins(s, t, c) ==
    /\ Unended(s \o t) = Unended(s) \o Unended(t)
    /\ Unended(Append(s, c)) = Append(Unended(s), c)

LEMMA UnendedAppend ==
    ASSUME NEW s \in Seq(Characters), NEW t \in Seq(Characters), NEW c \in Characters \ Whitespace
    PROVE  UnendedJoins(s, t, c)
<1>1. Without(s \o t, {NewLine}) = Without(s, {NewLine}) \o Without(t, {NewLine})
  BY WithoutConcat
<1>2. c \in Characters /\ c \notin {NewLine}
  BY OneBlankIs
<1>3. Without(Append(s, c), {NewLine})
        = IF c \in {NewLine} THEN Without(s, {NewLine}) ELSE Append(Without(s, {NewLine}), c)
  BY <1>2, WithoutAppend
<1>4. QED
  BY <1>1, <1>2, <1>3 DEF UnendedJoins, Unended

LEMMA UnendedSettled ==
    ASSUME NEW z \in Seq(Characters), Settled(z), Len(z) # 0
    PROVE  Settled(Unended(z)) /\ Len(Unended(z)) # 0
<1>1. z # <<>>
  BY EmptySeq
<1>2. PICK t \in Seq(Characters), x \in Characters : z = Append(t, x)
  BY <1>1, SequenceEmptyOrAppend
<1>3. x \in Characters \ Whitespace
  BY <1>2, SettledIs
<1>4. UnendedJoins(t, t, x)
  BY <1>3, UnendedAppend
<1>5. PICK u : u = Unended(t)
  OBVIOUS
<1>6. Unended(z) = Append(u, x) /\ u \in Seq(Characters)
  BY <1>2, <1>4, <1>5, UnendedAre DEF UnendedJoins
<1>7. QED
  BY <1>3, <1>6, SettledIs

Tidy(part) == Spaced(Unended(part))

LEMMA TidyIs ==
    \A p \in Seq(Characters) : Tidy(p) \in Seq(Characters)
<1>1. ASSUME NEW p \in Seq(Characters) PROVE Tidy(p) \in Seq(Characters)
  <2>1. PICK q : q = Unended(p)
    OBVIOUS
  <2>2. q \in Seq(Characters) /\ OneBlank \in Gaps /\ OneBlank \in Seq(Characters)
    BY <2>1, UnendedAre, OneBlankIs
  <2>3. SplitAt(q, OneBlank) \in Seq(Seq(Characters))
    BY <2>2, GapsAre, SplitAtParts
  <2>4. PICK w : w = NonBlank(SplitAt(q, OneBlank))
    OBVIOUS
  <2>5. w \in Seq(Seq(Characters))
    BY <2>3, <2>4, NonBlankAre, EmptySeq
  <2>6. Join(w, OneBlank) \in Seq(Characters)
    BY <2>2, <2>5, JoinAre
  <2>7. QED
    BY <2>1, <2>4, <2>6 DEF Tidy, Spaced, Words, OneBlank
<1>2. QED
  BY <1>1

TidyGoesOnWith(z, h, c) ==
    /\ Tidy(z \o h) = Tidy(z)
    /\ Tidy(Append(z \o h, c)) = Append(Tidy(z) \o SpaceFor(Unended(h)), c)

LEMMA TidyGoesOn ==
    ASSUME NEW z \in Seq(Characters), Settled(z), Len(z) # 0,
           NEW h \in Seq(Whitespace), NEW c \in Characters \ Whitespace
    PROVE  TidyGoesOnWith(z, h, c)
<1>1. PICK q, b, zh : q = Unended(z) /\ b = Unended(h) /\ zh = z \o h
  OBVIOUS
<1>2. h \in Seq(Characters)
  BY BlankParts
<1>3. q \in Seq(Characters \ {NewLine}) /\ b \in Seq({Blank}) /\ Settled(q) /\ Len(q) # 0
  BY <1>1, UnendedAre, UnendedSettled
<1>4. zh \in Seq(Characters)
  BY <1>1, <1>2, ConcatProperties
<1>5. Unended(zh) = q \o b
  BY <1>1, <1>2, UnendedAppend DEF UnendedJoins
<1>6. Unended(Append(zh, c)) = Append(q \o b, c)
  BY <1>4, <1>5, UnendedAppend DEF UnendedJoins
<1>7. /\ Spaced(q \o b) = Spaced(q)
      /\ Spaced(Append(q \o b, c)) = Append(Spaced(q) \o SpaceFor(b), c)
  BY <1>3, SpacedGoesOn
<1>8. QED
  BY <1>1, <1>5, <1>6, <1>7 DEF TidyGoesOnWith, Tidy

LEMMA TidyStarts ==
    ASSUME NEW w \in Seq(Whitespace), NEW c \in Characters \ Whitespace
    PROVE  Tidy(Append(w, c)) = << c >>
<1>1. PICK b : b = Unended(w)
  OBVIOUS
<1>2. w \in Seq(Characters) /\ b \in Seq({Blank})
  BY <1>1, BlankParts, UnendedAre
<1>3. Unended(Append(w, c)) = Append(b, c)
  BY <1>1, <1>2, UnendedAppend DEF UnendedJoins
<1>4. Spaced(Append(b, c)) = << c >>
  BY <1>2, SpacedStarts
<1>5. QED
  BY <1>3, <1>4 DEF Tidy

-----------------------------------------------------------------------------
(* Paragraphs, tidied and joined.                                          *)

EachTidy(parts) == [i \in DOMAIN parts |-> Tidy(parts[i])]

Paragraphs(text) == Join(EachTidy(Cuts(text, Paragraph)), Paragraph)

LEMMA ParagraphIs ==
    /\ Paragraph \in Gaps /\ Paragraph \in Seq(Characters) /\ Len(Paragraph) = 2
    /\ Paragraph[1] = NewLine /\ Paragraph[2] = NewLine
<1>1. PICK two : two = << NewLine, NewLine >>
  OBVIOUS
<1>2. NewLine \in Whitespace /\ NewLine \in Characters
  BY OneBlankIs
<1>3. two \in Seq(Whitespace) /\ two \in Seq(Characters) /\ Len(two) = 2
      /\ two[1] = NewLine /\ two[2] = NewLine
  BY <1>1, <1>2
<1>4. QED
  BY <1>1, <1>3 DEF Paragraph, Gaps

EachTidyAppends(parts, p) ==
    /\ EachTidy(parts) \in Seq(Seq(Characters))
    /\ Len(EachTidy(parts)) = Len(parts)
    /\ EachTidy(Append(parts, p)) = Append(EachTidy(parts), Tidy(p))

LEMMA EachTidyAppend ==
    ASSUME NEW parts \in Seq(Seq(Characters)), NEW p \in Seq(Characters)
    PROVE  EachTidyAppends(parts, p)
<1>1. PICK n \in Nat : n = Len(parts) /\ DOMAIN parts = 1..n
  BY LenProperties
<1>2. \A i \in 1..n : Tidy(parts[i]) \in Seq(Characters)
  BY <1>1, ElementOfSeq, TidyIs
<1>3. Tidy(p) \in Seq(Characters)
  BY TidyIs
<1>4. PICK e, f, more : e = EachTidy(parts) /\ f = EachTidy(more) /\ more = Append(parts, p)
  OBVIOUS
<1>5. e = [i \in 1..n |-> Tidy(parts[i])]
  BY <1>1, <1>4 DEF EachTidy
<1>6. e \in Seq(Seq(Characters)) /\ Len(e) = n
  BY <1>2, <1>5
<1>7. /\ DOMAIN more = 1..(n + 1) /\ more[n + 1] = p /\ \A i \in 1..n : more[i] = parts[i]
  <2>1. more \in Seq(Seq(Characters)) /\ Len(more) = n + 1
    BY <1>1, <1>4, AppendProperties
  <2>2. DOMAIN more = 1..(n + 1)
    BY <2>1, LenProperties
  <2>3. QED
    BY <1>1, <1>4, <2>2, AppendProperties
<1>8. f = [i \in 1..(n + 1) |-> Tidy(more[i])]
  BY <1>4, <1>7 DEF EachTidy
<1>9. \A i \in 1..(n + 1) : f[i] \in Seq(Characters)
  BY <1>2, <1>3, <1>7, <1>8
<1>10. f \in Seq(Seq(Characters)) /\ Len(f) = n + 1
  BY <1>8, <1>9
<1>11. PICK t, g : t = Tidy(p) /\ g = Append(e, t)
  OBVIOUS
<1>12. /\ g \in Seq(Seq(Characters)) /\ Len(g) = n + 1 /\ g[n + 1] = t
       /\ \A i \in 1..n : g[i] = e[i]
  BY <1>3, <1>6, <1>11, AppendProperties
<1>13. \A i \in 1..(n + 1) : f[i] = g[i]
  BY <1>5, <1>7, <1>8, <1>11, <1>12
<1>14. f = g
  BY <1>10, <1>12, <1>13, SeqEqual
<1>15. QED
  BY <1>1, <1>4, <1>6, <1>11, <1>14 DEF EachTidyAppends

\* What a gap becomes.
BreakFor(h) ==
    IF Occurrences(Paragraph, h) # {} THEN Paragraph ELSE SpaceFor(Unended(h))

LEMMA BreakIs ==
    ASSUME NEW h \in Seq(Whitespace)
    PROVE  BreakFor(h) \in Seq(Characters) /\ BreakFor(h) \in Seq(Whitespace)
<1>1. Paragraph \in Seq(Characters) /\ Paragraph \in Seq(Whitespace)
  BY ParagraphIs, GapsAre
<1>2. SpaceFor(Unended(h)) \in Seq(Characters) /\ SpaceFor(Unended(h)) \in Seq(Whitespace)
  BY SpaceIs
<1>3. QED
  BY <1>1, <1>2 DEF BreakFor

ParagraphsGoOnWith(x, h, c) ==
    /\ Paragraphs(x) \in Seq(Characters)
    /\ Paragraphs(x \o h) = Paragraphs(x)
    /\ Paragraphs(Append(x \o h, c)) = Append(Paragraphs(x) \o BreakFor(h), c)

LEMMA ParagraphsGoOn ==
    ASSUME NEW x \in Seq(Characters), Settled(x), Len(x) # 0,
           NEW h \in Seq(Whitespace), NEW c \in Characters \ Whitespace
    PROVE  ParagraphsGoOnWith(x, h, c)
<1>1. PICK xh, xhc, one : xh = x \o h /\ xhc = Append(xh, c) /\ one = << c >>
  OBVIOUS
<1>2. /\ Paragraph \in Gaps /\ Paragraph \in Seq(Characters) /\ c \in Characters
      /\ one \in Seq(Characters) /\ h \in Seq(Characters)
  BY <1>1, ParagraphIs, BlankParts
<1>3. GoesOnWith(x, h, c, Paragraph)
  BY <1>2, CutsGoOn
<1>4. PICK Y \in Seq(Seq(Characters)), z \in Seq(Characters), f \in Seq(Whitespace) :
        /\ Settled(z) /\ Len(z) # 0
        /\ Cuts(x, Paragraph) = Append(Y, z)
        /\ Cuts(xh, Paragraph) = Append(Y, z \o f)
        /\ \/ /\ Occurrences(Paragraph, h) = {}
              /\ Cuts(xhc, Paragraph) = Append(Y, Append(z \o h, c))
           \/ /\ Occurrences(Paragraph, h) # {}
              /\ \E w \in Seq(Whitespace) :
                    Cuts(xhc, Paragraph) = Append(Append(Y, z \o f), Append(w, c))
  BY <1>1, <1>3 DEF GoesOnWith
<1>5. PICK V, t, b, j : /\ V = EachTidy(Y) /\ t = Tidy(z) /\ b = BreakFor(h)
                        /\ j = Join(Append(V, t), Paragraph)
  OBVIOUS
<1>6. t \in Seq(Characters) /\ b \in Seq(Characters)
  BY <1>5, TidyIs, BreakIs
<1>7. V \in Seq(Seq(Characters)) /\ EachTidy(Append(Y, z)) = Append(V, t)
  BY <1>5, EachTidyAppend DEF EachTidyAppends
<1>8. PICK zf, zhc : zf = z \o f /\ zhc = Append(z \o h, c)
  OBVIOUS
<1>9. zf \in Seq(Characters) /\ zhc \in Seq(Characters)
  <2>1. f \in Seq(Characters)
    BY BlankParts
  <2>2. z \o h \in Seq(Characters) /\ z \o f \in Seq(Characters)
    BY <1>2, <2>1, ConcatProperties
  <2>3. QED
    BY <1>2, <1>8, <2>2, AppendProperties
<1>10. Tidy(zf) = t
  <2>1. TidyGoesOnWith(z, f, c)
    BY <1>4, TidyGoesOn
  <2>2. QED
    BY <1>5, <1>8, <2>1 DEF TidyGoesOnWith
<1>11. EachTidy(Append(Y, zf)) = Append(V, t)
  BY <1>5, <1>9, <1>10, EachTidyAppend DEF EachTidyAppends
<1>12. j \in Seq(Characters) /\ Paragraphs(x) = j /\ Paragraphs(xh) = j
  <2>1. JoinsOnto(Paragraph, V, t, t, c)
    BY <1>2, <1>6, <1>7, JoinOnto
  <2>2. j \in Seq(Characters)
    BY <1>5, <2>1 DEF JoinsOnto
  <2>3. Paragraphs(x) = j
    BY <1>4, <1>5, <1>7 DEF Paragraphs
  <2>4. Paragraphs(xh) = j
    BY <1>4, <1>5, <1>8, <1>11 DEF Paragraphs
  <2>5. QED
    BY <2>2, <2>3, <2>4
<1>13. CASE Occurrences(Paragraph, h) = {}
  <2>1. Cuts(xhc, Paragraph) = Append(Y, zhc)
    BY <1>4, <1>8, <1>13
  <2>2. b = SpaceFor(Unended(h))
    BY <1>5, <1>13 DEF BreakFor
  <2>3. Tidy(zhc) = Append(t \o b, c)
    <3>1. TidyGoesOnWith(z, h, c)
      BY <1>4, TidyGoesOn
    <3>2. QED
      BY <1>5, <1>8, <2>2, <3>1 DEF TidyGoesOnWith
  <2>4. PICK tb : tb = t \o b
    OBVIOUS
  <2>5. tb \in Seq(Characters)
    BY <1>6, <2>4, ConcatProperties
  <2>6. EachTidy(Append(Y, zhc)) = Append(V, Append(tb, c))
    BY <1>5, <1>9, <2>3, <2>4, EachTidyAppend DEF EachTidyAppends
  <2>7. JoinsOnto(Paragraph, V, tb, tb, c)
    BY <1>2, <1>7, <2>5, JoinOnto
  <2>8. Join(Append(V, Append(tb, c)), Paragraph) = Append(Join(Append(V, tb), Paragraph), c)
    BY <2>7 DEF JoinsOnto
  <2>9. JoinEndsWith(Paragraph, V, t, b)
    BY <1>2, <1>6, <1>7, JoinEnds
  <2>10. Join(Append(V, tb), Paragraph) = j \o b
    BY <1>5, <2>4, <2>9 DEF JoinEndsWith
  <2>11. Paragraphs(xhc) = Append(j \o b, c)
    BY <2>1, <2>6, <2>8, <2>10 DEF Paragraphs
  <2>12. QED
    BY <1>1, <1>5, <1>12, <2>11 DEF ParagraphsGoOnWith
<1>14. CASE Occurrences(Paragraph, h) # {}
  <2>1. PICK w \in Seq(Whitespace) :
          Cuts(xhc, Paragraph) = Append(Append(Y, z \o f), Append(w, c))
    BY <1>4, <1>14
  <2>2. PICK wc, Yz : wc = Append(w, c) /\ Yz = Append(Y, zf)
    OBVIOUS
  <2>3. wc \in Seq(Characters) /\ Yz \in Seq(Seq(Characters))
    <3>1. w \in Seq(Characters)
      BY BlankParts
    <3>2. QED
      BY <1>2, <1>9, <2>2, <3>1, AppendProperties
  <2>4. Tidy(wc) = one
    BY <1>1, <2>2, TidyStarts
  <2>5. EachTidy(Append(Yz, wc)) = Append(Append(V, t), one)
    <3>1. EachTidy(Append(Yz, wc)) = Append(EachTidy(Yz), Tidy(wc))
      BY <2>3, EachTidyAppend DEF EachTidyAppends
    <3>2. QED
      BY <1>11, <2>2, <2>4, <3>1
  <2>6. Cuts(xhc, Paragraph) = Append(Yz, wc)
    BY <1>8, <2>1, <2>2
  <2>7. JoinsOnto(Paragraph, V, t, one, c)
    BY <1>2, <1>6, <1>7, JoinOnto
  <2>8. Paragraphs(xhc) = j \o (Paragraph \o one)
    BY <1>5, <2>5, <2>6, <2>7 DEF Paragraphs, JoinsOnto
  <2>9. j \o (Paragraph \o one) = Append(j \o Paragraph, c)
    <3>1. Paragraph \o one = Append(Paragraph, c)
      BY <1>1, <1>2, AppendIsConcat
    <3>2. Append(j \o Paragraph, c) = j \o Append(Paragraph, c)
      BY <1>2, <1>12, TextAppend
    <3>3. QED
      BY <3>1, <3>2
  <2>10. b = Paragraph
    BY <1>5, <1>14 DEF BreakFor
  <2>11. Paragraphs(xhc) = Append(j \o b, c)
    BY <2>8, <2>9, <2>10
  <2>12. QED
    BY <1>1, <1>5, <1>12, <2>11 DEF ParagraphsGoOnWith
<1>15. QED
  BY <1>13, <1>14

ParagraphsStartWith(h, c) ==
    /\ Paragraphs(h) = <<>>
    /\ Paragraphs(Append(h, c)) = << c >>

LEMMA ParagraphsStart ==
    ASSUME NEW h \in Seq(Whitespace), NEW c \in Characters \ Whitespace
    PROVE  ParagraphsStartWith(h, c)
<1>1. PICK hc, one, none : hc = Append(h, c) /\ one = << c >> /\ none = <<>>
  OBVIOUS
<1>2. /\ Paragraph \in Gaps /\ Paragraph \in Seq(Characters) /\ c \in Characters
      /\ one \in Seq(Characters) /\ h \in Seq(Characters) /\ none \in Seq(Seq(Characters))
      /\ none \in Seq(Characters) /\ Len(none) = 0
  BY <1>1, ParagraphIs, BlankParts
<1>3. StartsWith(h, c, Paragraph)
  BY <1>2, CutsStart
<1>4. PICK w \in Seq(Whitespace) : Cuts(hc, Paragraph) = << Append(w, c) >>
  BY <1>1, <1>3 DEF StartsWith
<1>5. Len(Cuts(h, Paragraph)) = 0
  BY <1>3 DEF StartsWith
<1>6. Cuts(h, Paragraph) = none
  <2>1. SplitAt(h, Paragraph) \in Seq(Seq(Characters))
    BY <1>2, GapsAre, SplitAtParts
  <2>2. Cuts(h, Paragraph) \in Seq(Seq(Characters))
    BY <1>2, <2>1, NonBlankAre DEF Cuts
  <2>3. QED
    BY <1>1, <1>5, <2>2, EmptySeq
<1>7. PICK wc : wc = Append(w, c)
  OBVIOUS
<1>8. wc \in Seq(Characters) /\ Tidy(wc) = one
  <2>1. w \in Seq(Characters)
    BY BlankParts
  <2>2. QED
    BY <1>1, <1>2, <1>7, <2>1, AppendProperties, TidyStarts
<1>9. EachTidyAppends(none, wc)
  BY <1>2, <1>8, EachTidyAppend
<1>10. EachTidy(none) = none
  <2>1. EachTidy(none) \in Seq(Seq(Characters)) /\ Len(EachTidy(none)) = 0
    BY <1>2, <1>9 DEF EachTidyAppends
  <2>2. QED
    BY <1>1, <2>1, EmptySeq
<1>11. Append(none, wc) = << wc >> /\ Append(none, one) = << one >>
  BY <1>1
<1>12. EachTidy(<< wc >>) = << one >>
  BY <1>8, <1>9, <1>10, <1>11 DEF EachTidyAppends
<1>13. JoinsOnto(Paragraph, none, none, one, c)
  BY <1>2, JoinOnto
<1>14. Paragraphs(hc) = one
  BY <1>4, <1>7, <1>12, <1>13 DEF Paragraphs, JoinsOnto
<1>15. Paragraphs(h) = none
  <2>1. Len(none) = 0 => Join(none, Paragraph) = <<>>
    BY <1>2, JoinAre
  <2>2. QED
    BY <1>1, <1>2, <1>6, <1>10, <2>1 DEF Paragraphs
<1>16. QED
  BY <1>1, <1>14, <1>15 DEF ParagraphsStartWith

-----------------------------------------------------------------------------
(* Line breaks on their own are blanks.                                    *)

Lone(t, i) == IsNewLine(t, i) /\ ~IsNewLine(t, i - 1) /\ ~IsNewLine(t, i + 1)

LEMMA UnwrapAre ==
    ASSUME NEW t \in Seq(Characters)
    PROVE  /\ Unwrap(t) \in Seq(Characters) /\ Len(Unwrap(t)) = Len(t)
           /\ t \in Seq(Whitespace) => Unwrap(t) \in Seq(Whitespace)
           /\ \A i \in 1..Len(t) : /\ Unwrap(t)[i] = IF Lone(t, i) THEN Blank ELSE t[i]
                                   /\ IsNewLine(t, i) <=> t[i] = NewLine
           /\ \A i \in Int : i \notin 1..Len(t) => ~IsNewLine(t, i)
<1>1. PICK n \in Nat : n = Len(t) /\ DOMAIN t = 1..n
  BY LenProperties
<1>2. PICK w : w = Unwrap(t)
  OBVIOUS
<1>3. w = [i \in 1..n |-> IF Lone(t, i) THEN Blank ELSE t[i]]
  BY <1>1, <1>2 DEF Unwrap, Lone
<1>4. \A i \in 1..n : t[i] \in Characters /\ (t \in Seq(Whitespace) => t[i] \in Whitespace)
  BY <1>1, ElementOfSeq
<1>5. \A i \in 1..n : w[i] \in Characters /\ (t \in Seq(Whitespace) => w[i] \in Whitespace)
  BY <1>3, <1>4, OneBlankIs
<1>6. w \in Seq(Characters) /\ Len(w) = n /\ (t \in Seq(Whitespace) => w \in Seq(Whitespace))
  BY <1>3, <1>5
<1>7. \A i \in Int : IsNewLine(t, i) <=> i \in 1..n /\ t[i] = NewLine
  BY <1>1 DEF IsNewLine
<1>8. QED
  BY <1>1, <1>2, <1>3, <1>6, <1>7

UnwrapJoins(u, g, c) ==
    /\ Unwrap(u \o g) = Unwrap(u) \o Unwrap(g)
    /\ Unwrap(Append(u \o g, c)) = Append(Unwrap(u) \o Unwrap(g), c)

LEMMA UnwrapBehind ==
    ASSUME NEW u \in Seq(Characters), Settled(u), NEW g \in Seq(Characters)
    PROVE  Unwrap(u \o g) = Unwrap(u) \o Unwrap(g)
<1>1. PICK n \in Nat, m \in Nat : n = Len(u) /\ m = Len(g)
  BY LenProperties
<1>2. PICK x, U, G : x = u \o g /\ U = Unwrap(u) /\ G = Unwrap(g)
  OBVIOUS
<1>3. /\ x \in Seq(Characters) /\ Len(x) = n + m
      /\ \A i \in 1..(n + m) : x[i] = IF i <= n THEN u[i] ELSE g[i - n]
  BY <1>1, <1>2, ConcatProperties
<1>4. U \in Seq(Characters) /\ Len(U) = n /\ G \in Seq(Characters) /\ Len(G) = m
  BY <1>1, <1>2, UnwrapAre
<1>5. \A i \in 0..n : IsNewLine(x, i) <=> IsNewLine(u, i)
  <2>1. ASSUME NEW i \in 0..n PROVE IsNewLine(x, i) <=> IsNewLine(u, i)
    <3>1. CASE i = 0
      <4>1. i \notin 1..Len(x) /\ i \notin 1..Len(u) /\ i \in Int
        BY <3>1
      <4>2. QED
        BY <1>3, <4>1, UnwrapAre
    <3>2. CASE i # 0
      <4>1. i \in 1..n /\ i \in 1..(n + m) /\ i <= n
        BY <3>2
      <4>2. x[i] = u[i]
        BY <1>3, <4>1
      <4>3. IsNewLine(x, i) <=> x[i] = NewLine
        BY <1>3, <4>1, UnwrapAre
      <4>4. IsNewLine(u, i) <=> u[i] = NewLine
        BY <1>1, <4>1, UnwrapAre
      <4>5. QED
        BY <4>2, <4>3, <4>4
    <3>3. QED
      BY <3>1, <3>2
  <2>2. QED
    BY <2>1
<1>6. ~ IsNewLine(u, n)
  <2>1. CASE n = 0
    <3>1. n \in Int /\ n \notin 1..Len(u)
      BY <1>1, <2>1
    <3>2. QED
      BY <3>1, UnwrapAre
  <2>2. CASE n # 0
    <3>1. n \in 1..n /\ u[n] \notin Whitespace
      BY <1>1, <2>2 DEF Settled
    <3>2. u[n] # NewLine
      BY <3>1, OneBlankIs
    <3>3. QED
      BY <1>1, <3>1, <3>2, UnwrapAre
  <2>3. QED
    BY <2>1, <2>2
<1>7. \A k \in 0..(m + 1) : IsNewLine(x, n + k) <=> IsNewLine(g, k)
  <2>1. ASSUME NEW k \in 0..(m + 1) PROVE IsNewLine(x, n + k) <=> IsNewLine(g, k)
    <3>1. CASE k = 0
      <4>1. ~ IsNewLine(g, k)
        <5>1. k \in Int /\ k \notin 1..Len(g)
          BY <3>1
        <5>2. QED
          BY <5>1, UnwrapAre
      <4>2. ~ IsNewLine(x, n)
        <5>1. n \in 0..n
          OBVIOUS
        <5>2. QED
          BY <1>5, <1>6, <5>1
      <4>3. n + k = n
        BY <3>1
      <4>4. QED
        BY <4>1, <4>2, <4>3
    <3>2. CASE k = m + 1
      <4>1. k \in Int /\ k \notin 1..Len(g) /\ n + k \in Int /\ n + k \notin 1..Len(x)
        BY <1>1, <1>3, <3>2
      <4>2. QED
        BY <1>3, <4>1, UnwrapAre
    <3>3. CASE k # 0 /\ k # m + 1
      <4>1. k \in 1..m /\ n + k \in 1..(n + m) /\ ~ (n + k <= n) /\ n + k - n = k
        BY <3>3
      <4>2. x[n + k] = g[k]
        BY <1>3, <4>1
      <4>3. QED
        BY <1>1, <1>3, <4>1, <4>2, UnwrapAre
    <3>4. QED
      BY <3>1, <3>2, <3>3
  <2>2. QED
    BY <2>1
<1>8. \A i \in 1..n : Lone(x, i) <=> Lone(u, i)
  <2>1. ASSUME NEW i \in 1..n PROVE Lone(x, i) <=> Lone(u, i)
    <3>1. i \in 0..n /\ i - 1 \in 0..n
      OBVIOUS
    <3>2. CASE i = n
      BY <1>5, <1>6, <3>1, <3>2 DEF Lone
    <3>3. CASE i # n
      <4>1. i + 1 \in 0..n
        BY <3>3
      <4>2. QED
        BY <1>5, <3>1, <4>1 DEF Lone
    <3>4. QED
      BY <3>2, <3>3
  <2>2. QED
    BY <2>1
<1>9. \A k \in 1..m : Lone(x, n + k) <=> Lone(g, k)
  <2>1. ASSUME NEW k \in 1..m PROVE Lone(x, n + k) <=> Lone(g, k)
    <3>1. k \in 0..(m + 1) /\ k - 1 \in 0..(m + 1) /\ k + 1 \in 0..(m + 1)
      OBVIOUS
    <3>2. n + k - 1 = n + (k - 1) /\ n + k + 1 = n + (k + 1)
      OBVIOUS
    <3>3. QED
      BY <1>7, <3>1, <3>2 DEF Lone
  <2>2. QED
    BY <2>1
<1>10. PICK X, UG : X = Unwrap(x) /\ UG = U \o G
  OBVIOUS
<1>11. /\ UG \in Seq(Characters) /\ Len(UG) = n + m
       /\ \A i \in 1..(n + m) : UG[i] = IF i <= n THEN U[i] ELSE G[i - n]
  BY <1>4, <1>10, ConcatProperties
<1>12. X \in Seq(Characters) /\ Len(X) = n + m
  BY <1>3, <1>10, UnwrapAre
<1>13. \A i \in 1..(n + m) : X[i] = UG[i]
  <2>1. ASSUME NEW i \in 1..(n + m) PROVE X[i] = UG[i]
    <3>1. X[i] = IF Lone(x, i) THEN Blank ELSE x[i]
      BY <1>3, <1>10, UnwrapAre
    <3>2. CASE i <= n
      <4>1. i \in 1..n
        BY <3>2
      <4>2. U[i] = IF Lone(u, i) THEN Blank ELSE u[i]
        BY <1>1, <1>2, <4>1, UnwrapAre
      <4>3. x[i] = u[i] /\ UG[i] = U[i]
        BY <1>3, <1>11, <3>2
      <4>4. QED
        BY <1>8, <3>1, <4>1, <4>2, <4>3
    <3>3. CASE ~ (i <= n)
      <4>1. PICK k \in 1..m : i = n + k /\ i - n = k
        <5>1. i - n \in 1..m /\ i = n + (i - n)
          BY <3>3
        <5>2. QED
          BY <5>1
      <4>2. G[k] = IF Lone(g, k) THEN Blank ELSE g[k]
        BY <1>1, <1>2, <4>1, UnwrapAre
      <4>3. x[i] = g[k] /\ UG[i] = G[k]
        BY <1>3, <1>11, <3>3, <4>1
      <4>4. QED
        BY <1>9, <3>1, <4>1, <4>2, <4>3
    <3>4. QED
      BY <3>2, <3>3
  <2>2. QED
    BY <2>1
<1>14. X = UG
  BY <1>11, <1>12, <1>13, SeqEqual
<1>15. QED
  BY <1>2, <1>10, <1>14

LEMMA UnwrapSolid ==
    ASSUME NEW x \in Seq(Characters), NEW c \in Characters \ Whitespace
    PROVE  Unwrap(Append(x, c)) = Append(Unwrap(x), c)
<1>1. PICK n \in Nat : n = Len(x)
  BY LenProperties
<1>2. PICK xc, W, Wc, Z : xc = Append(x, c) /\ W = Unwrap(x) /\ Wc = Append(W, c) /\ Z = Unwrap(xc)
  OBVIOUS
<1>3. /\ xc \in Seq(Characters) /\ Len(xc) = n + 1 /\ xc[n + 1] = c
      /\ \A i \in 1..n : xc[i] = x[i]
  BY <1>1, <1>2, AppendProperties
<1>4. W \in Seq(Characters) /\ Len(W) = n /\ \A i \in 1..n : W[i] = IF Lone(x, i) THEN Blank ELSE x[i]
  BY <1>1, <1>2, UnwrapAre
<1>5. /\ Wc \in Seq(Characters) /\ Len(Wc) = n + 1 /\ Wc[n + 1] = c
      /\ \A i \in 1..n : Wc[i] = W[i]
  BY <1>2, <1>4, AppendProperties
<1>6. /\ Z \in Seq(Characters) /\ Len(Z) = n + 1
      /\ \A i \in 1..(n + 1) : Z[i] = IF Lone(xc, i) THEN Blank ELSE xc[i]
  BY <1>2, <1>3, UnwrapAre
<1>7. \A i \in 0..(n + 1) : IsNewLine(xc, i) <=> IsNewLine(x, i)
  <2>1. ASSUME NEW i \in 0..(n + 1) PROVE IsNewLine(xc, i) <=> IsNewLine(x, i)
    <3>1. CASE i = 0
      <4>1. i \in Int /\ i \notin 1..Len(x) /\ i \notin 1..Len(xc)
        BY <3>1
      <4>2. QED
        BY <1>3, <4>1, UnwrapAre
    <3>2. CASE i = n + 1
      <4>1. i \in Int /\ i \notin 1..Len(x) /\ i \in 1..Len(xc) /\ xc[i] # NewLine
        BY <1>1, <1>3, <3>2, OneBlankIs
      <4>2. QED
        BY <1>3, <4>1, UnwrapAre
    <3>3. CASE i # 0 /\ i # n + 1
      <4>1. i \in 1..n /\ i \in 1..(n + 1)
        BY <3>3
      <4>2. QED
        BY <1>1, <1>3, <4>1, UnwrapAre
    <3>4. QED
      BY <3>1, <3>2, <3>3
  <2>2. QED
    BY <2>1
<1>8. ASSUME NEW i \in 1..n PROVE Lone(xc, i) <=> Lone(x, i)
  <2>1. i \in 0..(n + 1) /\ i - 1 \in 0..(n + 1) /\ i + 1 \in 0..(n + 1)
    OBVIOUS
  <2>2. QED
    BY <1>7, <2>1 DEF Lone
<1>9. ~ Lone(xc, n + 1)
  <2>1. n + 1 \in 1..Len(xc) /\ xc[n + 1] # NewLine
    BY <1>3, OneBlankIs
  <2>2. ~ IsNewLine(xc, n + 1)
    BY <1>3, <2>1, UnwrapAre
  <2>3. QED
    BY <2>2 DEF Lone
<1>10. \A i \in 1..(n + 1) : Z[i] = Wc[i]
  <2>1. ASSUME NEW i \in 1..(n + 1) PROVE Z[i] = Wc[i]
    <3>1. CASE i = n + 1
      BY <1>3, <1>5, <1>6, <1>9, <3>1
    <3>2. CASE i # n + 1
      <4>1. i \in 1..n
        BY <3>2
      <4>2. QED
        BY <1>3, <1>4, <1>5, <1>6, <1>8, <4>1
    <3>3. QED
      BY <3>1, <3>2
  <2>2. QED
    BY <2>1
<1>11. Z = Wc
  BY <1>5, <1>6, <1>10, SeqEqual
<1>12. QED
  BY <1>2, <1>11

LEMMA UnwrapAppend ==
    ASSUME NEW u \in Seq(Characters), Settled(u), NEW g \in Seq(Characters),
           NEW c \in Characters \ Whitespace
    PROVE  UnwrapJoins(u, g, c) /\ Settled(Unwrap(u))
<1>1. PICK x : x = u \o g
  OBVIOUS
<1>2. x \in Seq(Characters)
  BY <1>1, ConcatProperties
<1>3. Unwrap(x) = Unwrap(u) \o Unwrap(g)
  BY <1>1, UnwrapBehind
<1>4. Unwrap(Append(x, c)) = Append(Unwrap(x), c)
  BY <1>2, UnwrapSolid
<1>5. Settled(Unwrap(u))
  <2>1. PICK n \in Nat : n = Len(u)
    BY LenProperties
  <2>2. Len(Unwrap(u)) = n
    BY <2>1, UnwrapAre
  <2>3. CASE n = 0
    BY <2>2, <2>3 DEF Settled
  <2>4. CASE n # 0
    <3>1. n \in 1..n /\ u[n] \notin Whitespace
      BY <2>1, <2>4 DEF Settled
    <3>2. ~ Lone(u, n)
      <4>1. u[n] # NewLine
        BY <3>1, OneBlankIs
      <4>2. ~ IsNewLine(u, n)
        BY <2>1, <3>1, <4>1, UnwrapAre
      <4>3. QED
        BY <4>2 DEF Lone
    <3>3. Unwrap(u)[n] = u[n]
      BY <2>1, <3>1, <3>2, UnwrapAre
    <3>4. QED
      BY <2>2, <3>1, <3>3 DEF Settled
  <2>5. QED
    BY <2>3, <2>4
<1>6. QED
  BY <1>1, <1>3, <1>4, <1>5 DEF UnwrapJoins

\* An empty line: two line ends side by side.
Pair(g) == \E i \in 1..(Len(g) - 1) : g[i] = NewLine /\ g[i + 1] = NewLine

LEMMA PairOccurs ==
    ASSUME NEW s \in Seq(Characters)
    PROVE  Occurrences(Paragraph, s) # {} <=> Pair(s)
<1>1. PICK n \in Nat : n = Len(s)
  BY LenProperties
<1>2. PICK two : two = Paragraph
  OBVIOUS
<1>3. two \in Seq(Characters) /\ Len(two) = 2 /\ two[1] = NewLine /\ two[2] = NewLine
  BY <1>2, ParagraphIs
<1>4. ASSUME NEW i \in 1..(n - 1)
      PROVE  SubSeq(s, i, i + 1) = two <=> s[i] = NewLine /\ s[i + 1] = NewLine
  <2>1. \A k \in i..(i + 1) : s[k] \in Characters
    <3>1. \A k \in i..(i + 1) : k \in 1..n
      BY <1>4
    <3>2. QED
      BY <1>1, <3>1, ElementOfSeq
  <2>2. PICK v : v = SubSeq(s, i, i + 1)
    OBVIOUS
  <2>3. /\ v \in Seq(Characters) /\ Len(v) = 2 /\ v[1] = s[i] /\ v[2] = s[i + 1]
    <3>1. /\ i \in Int /\ i + 1 \in Int /\ i <= i + 1 /\ (i + 1) - i + 1 = 2
          /\ 1 \in 1..2 /\ 2 \in 1..2 /\ i + 1 - 1 = i /\ i + 2 - 1 = i + 1
      OBVIOUS
    <3>2. /\ v \in Seq(Characters)
          /\ Len(v) = IF i <= i + 1 THEN (i + 1) - i + 1 ELSE 0
          /\ \A k \in 1..((i + 1) - i + 1) : v[k] = s[i + k - 1]
      BY <2>1, <2>2, <3>1, SubSeqProperties
    <3>3. QED
      BY <3>1, <3>2
  <2>4. v[1] = NewLine /\ v[2] = NewLine => v = two
    <3>1. \A k \in 1..2 : k = 1 \/ k = 2
      OBVIOUS
    <3>2. QED
      BY <1>3, <2>3, <3>1, SeqEqual
  <2>5. QED
    BY <1>3, <2>2, <2>3, <2>4
<1>5. Occurrences(two, s) = { i \in 1..(n - 1) : SubSeq(s, i, i + 1) = two }
  <2>1. Occurrences(two, s) = { i \in 1..(n - 2 + 1) : SubSeq(s, i, i + 2 - 1) = two }
    BY <1>1, <1>3 DEF Occurrences, OccursAt
  <2>2. n - 2 + 1 = n - 1 /\ \A i \in 1..(n - 1) : i + 2 - 1 = i + 1
    OBVIOUS
  <2>3. QED
    BY <2>1, <2>2
<1>6. QED
  BY <1>1, <1>2, <1>4, <1>5 DEF Pair

LEMMA UnwrapPairs ==
    ASSUME NEW g \in Seq(Whitespace)
    PROVE  /\ Pair(Unwrap(g)) <=> Pair(g)
           /\ ~ Pair(g) => Unwrap(g) \in Seq({Blank})
<1>1. PICK n \in Nat : n = Len(g)
  BY LenProperties
<1>2. g \in Seq(Characters) /\ \A i \in 1..n : g[i] = Blank \/ g[i] = NewLine
  <2>1. \A i \in 1..n : g[i] \in Whitespace
    BY <1>1, ElementOfSeq
  <2>2. QED
    BY <2>1, BlankParts DEF Whitespace
<1>3. PICK U : U = Unwrap(g)
  OBVIOUS
<1>4. /\ U \in Seq(Characters) /\ Len(U) = n
      /\ \A i \in 1..n : U[i] = IF Lone(g, i) THEN Blank ELSE g[i]
      /\ \A i \in 1..n : IsNewLine(g, i) <=> g[i] = NewLine
      /\ \A i \in Int : i \notin 1..n => ~ IsNewLine(g, i)
  BY <1>1, <1>2, <1>3, UnwrapAre
<1>5. Blank # NewLine
  BY OneBlankIs
<1>6. ASSUME Pair(g) PROVE Pair(U)
  <2>1. PICK i \in 1..(n - 1) : g[i] = NewLine /\ g[i + 1] = NewLine
    BY <1>1, <1>6 DEF Pair
  <2>2. i \in 1..n /\ i + 1 \in 1..n /\ i + 1 - 1 = i
    OBVIOUS
  <2>3. IsNewLine(g, i) /\ IsNewLine(g, i + 1)
    BY <1>4, <2>1, <2>2
  <2>4. ~ Lone(g, i) /\ ~ Lone(g, i + 1)
    BY <2>2, <2>3 DEF Lone
  <2>5. U[i] = NewLine /\ U[i + 1] = NewLine
    BY <1>4, <2>1, <2>2, <2>4
  <2>6. QED
    BY <1>4, <2>5 DEF Pair
<1>7. ASSUME Pair(U) PROVE Pair(g)
  <2>1. PICK i \in 1..(n - 1) : U[i] = NewLine /\ U[i + 1] = NewLine
    BY <1>4, <1>7 DEF Pair
  <2>2. i \in 1..n /\ i + 1 \in 1..n
    OBVIOUS
  <2>3. g[i] = NewLine /\ g[i + 1] = NewLine
    BY <1>4, <1>5, <2>1, <2>2
  <2>4. QED
    BY <1>1, <2>3 DEF Pair
<1>8. ASSUME ~ Pair(g) PROVE U \in Seq({Blank})
  <2>1. ASSUME NEW i \in 1..n PROVE U[i] = Blank
    <3>1. CASE g[i] = Blank
      BY <1>4, <3>1
    <3>2. CASE g[i] = NewLine
      <4>1. ~ IsNewLine(g, i + 1)
        <5>1. ASSUME IsNewLine(g, i + 1) PROVE FALSE
          <6>1. i + 1 \in Int /\ i + 1 \in 1..n
            BY <1>4, <5>1
          <6>2. i \in 1..(n - 1) /\ g[i + 1] = NewLine
            BY <1>4, <5>1, <6>1
          <6>3. QED
            BY <1>1, <1>8, <3>2, <6>2 DEF Pair
        <5>2. QED
          BY <5>1
      <4>2. ~ IsNewLine(g, i - 1)
        <5>1. ASSUME IsNewLine(g, i - 1) PROVE FALSE
          <6>1. i - 1 \in Int /\ i - 1 \in 1..n
            BY <1>4, <5>1
          <6>2. i - 1 \in 1..(n - 1) /\ g[i - 1] = NewLine /\ i - 1 + 1 = i
            BY <1>4, <5>1, <6>1
          <6>3. QED
            BY <1>1, <1>8, <3>2, <6>2 DEF Pair
        <5>2. QED
          BY <5>1
      <4>3. Lone(g, i)
        BY <1>4, <3>2, <4>1, <4>2 DEF Lone
      <4>4. QED
        BY <1>4, <4>3
    <3>3. QED
      BY <1>2, <3>1, <3>2
  <2>2. \A i \in 1..Len(U) : U[i] \in {Blank}
    BY <1>4, <2>1
  <2>3. U \in [1..n -> {Blank}]
    BY <1>4, <2>2, LenProperties
  <2>4. QED
    BY <2>3
<1>9. QED
  BY <1>3, <1>6, <1>7, <1>8

\* What a gap between two words becomes.
Between(g) ==
    IF Len(g) = 0 THEN <<>> ELSE IF Pair(g) THEN Paragraph ELSE OneBlank

LEMMA BreakOfUnwrap ==
    ASSUME NEW g \in Seq(Whitespace)
    PROVE  BreakFor(Unwrap(g)) = Between(g) /\ Between(g) \in Seq(Characters)
<1>1. PICK U : U = Unwrap(g)
  OBVIOUS
<1>2. g \in Seq(Characters) /\ Len(g) \in Nat
  BY BlankParts, LenProperties
<1>3. U \in Seq(Characters) /\ U \in Seq(Whitespace) /\ Len(U) = Len(g)
  BY <1>1, <1>2, UnwrapAre
<1>4. Occurrences(Paragraph, U) # {} <=> Pair(g)
  BY <1>1, <1>3, PairOccurs, UnwrapPairs
<1>5. Pair(g) => Len(g) # 0
  BY <1>2 DEF Pair
<1>6. ~ Pair(g) => (Len(Unended(U)) = 0 <=> Len(g) = 0)
  <2>1. ASSUME ~ Pair(g) PROVE Len(Unended(U)) = 0 <=> Len(g) = 0
    <3>1. U \in Seq({Blank})
      BY <1>1, <2>1, UnwrapPairs
    <3>2. Unended(U) = <<>> <=> ToSet(U) \subseteq {NewLine}
      BY <1>3, WithoutAll DEF Unended
    <3>3. ToSet(U) \subseteq {NewLine} <=> Len(U) = 0
      <4>1. DOMAIN U = 1..Len(U)
        BY <3>1, LenProperties
      <4>2. \A i \in 1..Len(U) : U[i] \in {Blank}
        BY <3>1, ElementOfSeq
      <4>3. Len(U) # 0 => 1 \in 1..Len(U)
        BY <1>2, <1>3
      <4>4. ToSet(U) = { U[i] : i \in 1..Len(U) }
        BY <4>1 DEF ToSet
      <4>5. Len(U) = 0 => ToSet(U) \subseteq {NewLine}
        BY <4>4
      <4>6. Len(U) # 0 => ~ (ToSet(U) \subseteq {NewLine})
        BY <4>2, <4>3, <4>4, OneBlankIs
      <4>7. QED
        BY <4>5, <4>6
    <3>4. Unended(U) = <<>> <=> Len(Unended(U)) = 0
      <4>1. Unended(U) \in Seq(Characters)
        BY <1>3, UnendedAre
      <4>2. QED
        BY <4>1, EmptySeq
    <3>5. QED
      BY <1>3, <3>2, <3>3, <3>4
  <2>2. QED
    BY <2>1
<1>7. BreakFor(U) = Between(g)
  BY <1>4, <1>5, <1>6 DEF BreakFor, Between, SpaceFor
<1>8. BreakFor(U) \in Seq(Characters)
  BY <1>3, BreakIs
<1>9. QED
  BY <1>1, <1>7, <1>8

-----------------------------------------------------------------------------
(* What normalisation makes of a text without broken words.                *)

Prose(text) == Paragraphs(Unwrap(text))

GapFor(u, g) == IF Len(u) = 0 THEN <<>> ELSE Between(g)

ProseGoesOnWith(u, g, c) ==
    /\ Prose(u) \in Seq(Characters) /\ GapFor(u, g) \in Seq(Characters)
    /\ Len(u) = 0 => Prose(u) = <<>>
    /\ Prose(u \o g) = Prose(u)
    /\ Prose(Append(u \o g, c)) = Append(Prose(u) \o GapFor(u, g), c)

LEMMA ProseGoesOn ==
    ASSUME NEW u \in Seq(Characters), Settled(u), NEW g \in Seq(Whitespace),
           NEW c \in Characters \ Whitespace
    PROVE  ProseGoesOnWith(u, g, c)
<1>1. PICK U, G, none : U = Unwrap(u) /\ G = Unwrap(g) /\ none = <<>>
  OBVIOUS
<1>2. g \in Seq(Characters) /\ none \in Seq(Characters) /\ none \in Seq(Whitespace)
  BY <1>1, BlankParts
<1>3. /\ U \in Seq(Characters) /\ Len(U) = Len(u) /\ Settled(U)
      /\ G \in Seq(Whitespace) /\ G \in Seq(Characters)
      /\ Unwrap(u \o g) = U \o G /\ Unwrap(Append(u \o g, c)) = Append(U \o G, c)
  <2>1. UnwrapJoins(u, g, c) /\ Settled(Unwrap(u))
    BY <1>2, UnwrapAppend
  <2>2. Unwrap(u) \in Seq(Characters) /\ Len(Unwrap(u)) = Len(u)
    BY UnwrapAre
  <2>3. Unwrap(g) \in Seq(Whitespace) /\ Unwrap(g) \in Seq(Characters)
    BY <1>2, UnwrapAre
  <2>4. QED
    BY <1>1, <2>1, <2>2, <2>3 DEF UnwrapJoins
<1>4. BreakFor(G) = Between(g) /\ Between(g) \in Seq(Characters)
  BY <1>1, BreakOfUnwrap
<1>5. CASE Len(u) # 0
  <2>1. ParagraphsGoOnWith(U, G, c)
    BY <1>3, <1>5, ParagraphsGoOn
  <2>2. GapFor(u, g) = Between(g)
    BY <1>5 DEF GapFor
  <2>3. QED
    BY <1>1, <1>3, <1>4, <1>5, <2>1, <2>2 DEF ParagraphsGoOnWith, ProseGoesOnWith, Prose
<1>6. CASE Len(u) = 0
  <2>1. U = none /\ none \o G = G
    BY <1>1, <1>3, <1>6, EmptySeq, ConcatEmptySeq
  <2>2. ParagraphsStartWith(G, c) /\ ParagraphsStartWith(none, c)
    BY <1>2, <1>3, ParagraphsStart
  <2>3. Paragraphs(U) = none /\ Paragraphs(U \o G) = none /\ Paragraphs(Append(U \o G, c)) = << c >>
    BY <1>1, <2>1, <2>2 DEF ParagraphsStartWith
  <2>4. GapFor(u, g) = none /\ none \o none = none /\ Append(none, c) = << c >>
    BY <1>1, <1>2, <1>6, ConcatEmptySeq DEF GapFor
  <2>5. QED
    BY <1>1, <1>2, <1>3, <2>3, <2>4 DEF ProseGoesOnWith, Prose
<1>7. QED
  BY <1>5, <1>6

\* What a line says, of its stripped text.
Pen(said) ==
    FlattenSeq([i \in DOMAIN said |->
                  IF said[i] = Blank THEN <<>>
                  ELSE IF i > 1 /\ said[i - 1] = Blank THEN << Blank, said[i] >>
                  ELSE << said[i] >>])

PenAppends(s, c) ==
    /\ Pen(s) \in Seq(Characters)
    /\ Len(s) = 0 => Pen(s) = <<>>
    /\ Pen(Append(s, c))
         = IF c = Blank THEN Pen(s)
           ELSE IF Len(s) # 0 /\ s[Len(s)] = Blank THEN Append(Pen(s) \o OneBlank, c)
           ELSE Append(Pen(s), c)

LEMMA PenAppend ==
    ASSUME NEW s \in Seq(Characters), NEW c \in Characters
    PROVE  PenAppends(s, c)
<1>1. PICK n \in Nat : n = Len(s) /\ DOMAIN s = 1..n
  BY LenProperties
<1>2. PICK sc : sc = Append(s, c)
  OBVIOUS
<1>3. /\ sc \in Seq(Characters) /\ Len(sc) = n + 1 /\ sc[n + 1] = c
      /\ \A i \in 1..n : sc[i] = s[i]
  BY <1>1, <1>2, AppendProperties
<1>4. DOMAIN sc = 1..(n + 1)
  BY <1>3, LenProperties
<1>5. PICK f, g :
        /\ f = [i \in 1..n |-> IF s[i] = Blank THEN <<>>
                               ELSE IF i > 1 /\ s[i - 1] = Blank THEN << Blank, s[i] >>
                               ELSE << s[i] >>]
        /\ g = [i \in 1..(n + 1) |-> IF sc[i] = Blank THEN <<>>
                               ELSE IF i > 1 /\ sc[i - 1] = Blank THEN << Blank, sc[i] >>
                               ELSE << sc[i] >>]
  OBVIOUS
<1>6. Pen(s) = FlattenSeq(f) /\ Pen(sc) = FlattenSeq(g)
  BY <1>1, <1>4, <1>5 DEF Pen
<1>7. \A x \in Characters : << x >> \in Seq(Characters) /\ << Blank, x >> \in Seq(Characters)
  BY OneBlankIs
<1>8. <<>> \in Seq(Characters)
  OBVIOUS
<1>9. \A i \in 1..n : s[i] \in Characters
  BY <1>1, ElementOfSeq
<1>10. \A i \in 1..(n + 1) : sc[i] \in Characters
  BY <1>3, ElementOfSeq
<1>11. f \in [1..n -> Seq(Characters)]
  BY <1>5, <1>7, <1>8, <1>9
<1>12. g \in [1..(n + 1) -> Seq(Characters)]
  BY <1>5, <1>7, <1>8, <1>10
<1>13. ASSUME NEW i \in 1..n PROVE g[i] = f[i]
  <2>1. i \in 1..(n + 1) /\ sc[i] = s[i]
    BY <1>3
  <2>2. i > 1 => sc[i - 1] = s[i - 1]
    <3>1. i > 1 => i - 1 \in 1..n
      OBVIOUS
    <3>2. QED
      BY <1>3, <3>1
  <2>3. QED
    BY <1>5, <2>1, <2>2
<1>14. GoesOnAs(Characters, n, f, g)
  BY <1>11, <1>12, <1>13 DEF GoesOnAs
<1>15. /\ FlattenSeq(f) \in Seq(Characters)
       /\ FlattenSeq(g) = FlattenSeq(f) \o g[n + 1]
       /\ n = 0 => FlattenSeq(f) = <<>>
  BY <1>14, FlattenGrows
<1>16. PICK p : p = Pen(s)
  OBVIOUS
<1>17. p \in Seq(Characters) /\ Pen(sc) = p \o g[n + 1] /\ (n = 0 => p = <<>>)
  BY <1>6, <1>15, <1>16
<1>18. g[n + 1] = IF c = Blank THEN <<>>
                  ELSE IF n # 0 /\ s[n] = Blank THEN << Blank, c >>
                  ELSE << c >>
  <2>1. n + 1 \in 1..(n + 1) /\ n + 1 - 1 = n /\ (n + 1 > 1 <=> n # 0)
    OBVIOUS
  <2>2. n # 0 => sc[n] = s[n]
    <3>1. n # 0 => n \in 1..n
      OBVIOUS
    <3>2. QED
      BY <1>3, <3>1
  <2>3. QED
    BY <1>3, <1>5, <2>1, <2>2
<1>19. PICK one : one = << c >>
  OBVIOUS
<1>20. p \o <<>> = p /\ Append(p, c) = p \o one
  BY <1>17, <1>19, ConcatEmptySeq, AppendIsConcat
<1>21. Append(p \o OneBlank, c) = p \o << Blank, c >>
  <2>1. OneBlank \in Seq(Characters)
    BY OneBlankIs
  <2>2. Append(p \o OneBlank, c) = p \o Append(OneBlank, c)
    BY <1>17, <2>1, TextAppend
  <2>3. Append(OneBlank, c) = << Blank, c >>
    <3>1. PICK bl : bl = Blank
      OBVIOUS
    <3>2. PICK b1, b2, b3 : b1 = << bl >> /\ b2 = << bl, c >> /\ b3 = Append(b1, c)
      OBVIOUS
    <3>3. bl \in Characters
      BY <3>1, OneBlankIs
    <3>4. /\ b1 \in Seq(Characters) /\ Len(b1) = 1 /\ b1[1] = bl
          /\ b2 \in Seq(Characters) /\ Len(b2) = 2 /\ b2[1] = bl /\ b2[2] = c
      BY <3>2, <3>3
    <3>5. /\ b3 \in Seq(Characters) /\ Len(b3) = 2 /\ b3[2] = c
          /\ \A i \in 1..1 : b3[i] = b1[i]
      BY <3>2, <3>4, AppendProperties
    <3>6. \A i \in 1..2 : b3[i] = b2[i]
      <4>1. \A i \in 1..2 : i = 1 \/ i = 2
        OBVIOUS
      <4>2. QED
        BY <3>4, <3>5, <4>1
    <3>7. b3 = b2
      BY <3>4, <3>5, <3>6, SeqEqual
    <3>8. QED
      BY <3>1, <3>2, <3>7 DEF OneBlank
  <2>4. QED
    BY <2>2, <2>3
<1>22. QED
  BY <1>1, <1>2, <1>16, <1>17, <1>18, <1>19, <1>20, <1>21 DEF PenAppends

\* A text is a settled one and white space.
TailedIn(X, l) == \E v \in Seq(X), b \in Seq(X \cap Whitespace) : l = v \o b /\ Settled(v)

LEMMA Tailed ==
    ASSUME NEW X, X \subseteq Characters, NEW l \in Seq(X)
    PROVE  TailedIn(X, l)
<1> DEFINE P == { s \in Seq(X) : TailedIn(X, s) }
<1>1. <<>> \in P
  <2>1. PICK none : none = <<>>
    OBVIOUS
  <2>2. /\ none \in Seq(X) /\ none \in Seq(X \cap Whitespace) /\ Len(none) = 0
        /\ none = none \o none
    BY <2>1, ConcatEmptySeq
  <2>3. QED
    BY <2>1, <2>2 DEF TailedIn, Settled
<1>2. ASSUME NEW s \in Seq(X), NEW c \in X, s \in P PROVE Append(s, c) \in P
  <2>1. PICK v \in Seq(X), b \in Seq(X \cap Whitespace) : s = v \o b /\ Settled(v)
    BY <1>2 DEF TailedIn
  <2>2. PICK sc : sc = Append(s, c)
    OBVIOUS
  <2>3. sc \in Seq(X) /\ sc \in Seq(Characters) /\ s \in Seq(Characters) /\ c \in Characters
    BY <2>2, AppendProperties, SeqMonotonic
  <2>4. CASE c \in Whitespace
    <3>1. PICK bc : bc = Append(b, c)
      OBVIOUS
    <3>2. bc \in Seq(X \cap Whitespace)
      BY <2>4, <3>1, AppendProperties
    <3>3. b \in Seq(Characters) /\ v \in Seq(Characters)
      <4>1. X \cap Whitespace \subseteq Characters
        OBVIOUS
      <4>2. QED
        BY <4>1, SeqMonotonic
    <3>4. Append(v \o b, c) = v \o Append(b, c)
      BY <2>3, <3>3, TextAppend
    <3>5. sc = v \o bc
      BY <2>1, <2>2, <3>1, <3>4
    <3>6. QED
      BY <2>1, <2>2, <2>3, <3>2, <3>5 DEF TailedIn
  <2>5. CASE c \notin Whitespace
    <3>1. Settled(sc)
      BY <2>2, <2>3, <2>5, SettledIs
    <3>2. PICK none : none = <<>>
      OBVIOUS
    <3>3. none \in Seq(X \cap Whitespace) /\ sc = sc \o none
      BY <2>3, <3>2, ConcatEmptySeq
    <3>4. QED
      BY <2>2, <2>3, <3>1, <3>3 DEF TailedIn
  <2>6. QED
    BY <2>4, <2>5
<1>3. QED
  <2> HIDE DEF P
  <2>1. Seq(X) \subseteq P
    BY <1>1, <1>2, SequenceInduction
  <2>2. QED
    BY <2>1 DEF P

\* A settled text that is not empty settles what it is put behind.
LEMMA SettledJoins ==
    ASSUME NEW x \in Seq(Characters), NEW v \in Seq(Characters), Settled(v), Len(v) # 0
    PROVE  Settled(x \o v) /\ Len(x \o v) # 0 /\ x \o v \in Seq(Characters)
<1>1. PICK n \in Nat, m \in Nat : n = Len(x) /\ m = Len(v)
  BY LenProperties
<1>2. PICK y : y = x \o v
  OBVIOUS
<1>3. /\ y \in Seq(Characters) /\ Len(y) = n + m
      /\ \A i \in 1..(n + m) : y[i] = IF i <= n THEN x[i] ELSE v[i - n]
  BY <1>1, <1>2, ConcatProperties
<1>4. n + m \in 1..(n + m) /\ ~ (n + m <= n) /\ n + m - n = m
  BY <1>1
<1>5. y[n + m] = v[m]
  BY <1>3, <1>4
<1>6. QED
  BY <1>1, <1>2, <1>3, <1>4, <1>5 DEF Settled

LEMMA HyphenIsSolid == Hyphen \in Characters \ Whitespace
BY DEF Hyphen, Characters, Whitespace, Blank, NewLine

LEMMA ProseEnds ==
    ASSUME NEW u \in Seq(Characters), Settled(u), NEW g \in Seq(Whitespace)
    PROVE  Prose(u \o g) = Prose(u) /\ Prose(u) \in Seq(Characters)
<1>1. ProseGoesOnWith(u, g, Hyphen)
  BY HyphenIsSolid, ProseGoesOn
<1>2. QED
  BY <1>1 DEF ProseGoesOnWith

\* One more character of a line.
LineGoesOn(x, p, l, c) ==
    Prose(x \o Append(l, c)) = p \o Pen(Append(l, c))

LEMMA LineStep ==
    ASSUME NEW x \in Seq(Characters), NEW p \in Seq(Characters),
           NEW l \in Seq(Characters \ {NewLine}), Len(l) # 0, l[1] \notin Whitespace,
           Prose(x \o l) = p \o Pen(l), NEW c \in Characters \ {NewLine}
    PROVE  LineGoesOn(x, p, l, c)
<1>1. /\ l \in Seq(Characters) /\ c \in Characters /\ Characters \ {NewLine} \subseteq Characters
      /\ OneBlank \in Seq(Characters)
  BY OneBlankIs
<1>2. TailedIn(Characters \ {NewLine}, l)
  BY <1>1, Tailed
<1>3. PICK v \in Seq(Characters), b \in Seq({Blank}) : l = v \o b /\ Settled(v)
  <2>1. PICK v \in Seq(Characters \ {NewLine}), b \in Seq((Characters \ {NewLine}) \cap Whitespace) :
          l = v \o b /\ Settled(v)
    BY <1>2 DEF TailedIn
  <2>2. v \in Seq(Characters)
    BY OneBlankIs
  <2>3. (Characters \ {NewLine}) \cap Whitespace \subseteq {Blank}
    BY DEF Whitespace
  <2>4. b \in Seq({Blank})
    BY <2>3, SeqMonotonic
  <2>5. QED
    BY <2>1, <2>2, <2>4
<1>4. b \in Seq(Whitespace) /\ b \in Seq(Characters)
  BY OneBlankIs, BlankParts
<1>5. PICK n \in Nat, k \in Nat : n = Len(v) /\ k = Len(b)
  BY LenProperties
<1>6. Len(l) = n + k /\ \A i \in 1..(n + k) : l[i] = IF i <= n THEN v[i] ELSE b[i - n]
  BY <1>3, <1>4, <1>5, ConcatProperties
<1>7. n # 0
  <2>1. ASSUME n = 0 PROVE FALSE
    <3>1. 1 \in 1..(n + k) /\ ~ (1 <= n) /\ 1 - n = 1 /\ 1 \in 1..k
      BY <1>6, <2>1
    <3>2. l[1] = b[1] /\ b[1] \in Whitespace
      BY <1>4, <1>5, <1>6, <3>1, ElementOfSeq
    <3>3. QED
      BY <3>2
  <2>2. QED
    BY <2>1
<1>8. l[n + k] = Blank <=> k # 0
  <2>1. CASE k = 0
    <3>1. n + k = n /\ n \in 1..(n + k) /\ n <= n
      BY <1>7, <2>1
    <3>2. l[n + k] = v[n] /\ v[n] \notin Whitespace
      BY <1>3, <1>5, <1>6, <1>7, <3>1 DEF Settled
    <3>3. QED
      BY <2>1, <3>2, OneBlankIs
  <2>2. CASE k # 0
    <3>1. n + k \in 1..(n + k) /\ ~ (n + k <= n) /\ n + k - n = k /\ k \in 1..k
      BY <2>2
    <3>2. l[n + k] = b[k] /\ b[k] \in {Blank}
      BY <1>5, <1>6, <3>1, ElementOfSeq
    <3>3. QED
      BY <2>2, <3>2
  <2>3. QED
    BY <2>1, <2>2
<1>9. PICK y, q : y = x \o v /\ q = Pen(l)
  OBVIOUS
<1>10. y \in Seq(Characters) /\ Settled(y) /\ Len(y) # 0
  BY <1>3, <1>5, <1>7, <1>9, SettledJoins
<1>11. x \o l = y \o b
  <2>1. (x \o v) \o b = x \o (v \o b)
    BY <1>4, ConcatAssociative, SMTT(30)
  <2>2. QED
    BY <1>3, <1>9, <2>1
<1>12. x \o Append(l, c) = Append(y \o b, c)
  <2>1. Append(x \o l, c) = x \o Append(l, c)
    BY <1>1, TextAppend
  <2>2. QED
    BY <1>11, <2>1
<1>13. Prose(y) = p \o q /\ q \in Seq(Characters)
  <2>1. Prose(y \o b) = Prose(y)
    BY <1>4, <1>10, ProseEnds
  <2>2. PenAppends(l, c)
    BY <1>1, PenAppend
  <2>3. QED
    BY <1>9, <1>11, <2>1, <2>2 DEF PenAppends
<1>14. /\ c = Blank => Pen(Append(l, c)) = q
       /\ c # Blank /\ k # 0 => Pen(Append(l, c)) = Append(q \o OneBlank, c)
       /\ c # Blank /\ k = 0 => Pen(Append(l, c)) = Append(q, c)
  <2>1. PenAppends(l, c)
    BY <1>1, PenAppend
  <2>2. Len(l) # 0 /\ (l[Len(l)] = Blank <=> k # 0)
    BY <1>6, <1>8
  <2>3. QED
    BY <1>9, <2>1, <2>2 DEF PenAppends
<1>15. CASE c = Blank
  <2>1. PICK bc : bc = Append(b, c)
    OBVIOUS
  <2>2. bc \in Seq(Whitespace)
    BY <1>4, <1>15, <2>1, OneBlankIs, AppendProperties
  <2>3. Append(y \o b, c) = y \o Append(b, c)
    <3>1. y \in Seq(Characters) /\ b \in Seq(Characters) /\ c \in Characters
      BY <1>1, <1>4, <1>10
    <3>2. QED
      BY <3>1, TextAppend
  <2>4. Prose(y \o bc) = Prose(y)
    BY <1>10, <2>2, ProseEnds
  <2>5. QED
    BY <1>12, <1>13, <1>14, <1>15, <2>1, <2>3, <2>4 DEF LineGoesOn
<1>16. CASE c # Blank
  <2>1. c \in Characters \ Whitespace
    BY <1>16 DEF Whitespace
  <2>2. Prose(Append(y \o b, c)) = Append((p \o q) \o GapFor(y, b), c)
    <3>1. ProseGoesOnWith(y, b, c)
      BY <1>4, <1>10, <2>1, ProseGoesOn
    <3>2. QED
      BY <1>13, <3>1 DEF ProseGoesOnWith
  <2>3. ~ Pair(b)
    <3>1. \A i \in 1..(Len(b) - 1) : i \in 1..Len(b)
      BY <1>5
    <3>2. \A i \in 1..(Len(b) - 1) : b[i] \in {Blank}
      BY <3>1, ElementOfSeq
    <3>3. QED
      BY <3>2, OneBlankIs DEF Pair
  <2>4. GapFor(y, b) = IF k = 0 THEN <<>> ELSE OneBlank
    BY <1>5, <1>10, <2>3 DEF GapFor, Between
  <2>5. p \o q \in Seq(Characters)
    BY <1>13, ConcatProperties
  <2>6. CASE k = 0
    <3>1. (p \o q) \o <<>> = p \o q
      BY <2>5, ConcatEmptySeq
    <3>2. Append(p \o q, c) = p \o Append(q, c)
      BY <1>1, <1>13, TextAppend
    <3>3. QED
      BY <1>12, <1>14, <1>16, <2>2, <2>4, <2>6, <3>1, <3>2 DEF LineGoesOn
  <2>7. CASE k # 0
    <3>1. PICK qb : qb = q \o OneBlank
      OBVIOUS
    <3>2. qb \in Seq(Characters) /\ (p \o q) \o OneBlank = p \o qb
      <4>1. q \in Seq(Characters) /\ OneBlank \in Seq(Characters)
        BY <1>1, <1>13
      <4>2. (p \o q) \o OneBlank = p \o (q \o OneBlank)
        BY <4>1, ConcatAssociative, SMTT(30)
      <4>3. QED
        BY <3>1, <4>1, <4>2, ConcatProperties
    <3>3. Append(p \o qb, c) = p \o Append(qb, c)
      BY <1>1, <3>2, TextAppend
    <3>4. QED
      BY <1>12, <1>14, <1>16, <2>2, <2>4, <2>7, <3>1, <3>2, <3>3 DEF LineGoesOn
  <2>8. QED
    BY <2>6, <2>7
<1>17. QED
  BY <1>15, <1>16

\* A line behind a gap.
ProseOfLine(u, g, l) ==
    Prose((u \o g) \o l) = (Prose(u) \o GapFor(u, g)) \o Pen(l)

LEMMA ProseLine ==
    ASSUME NEW u \in Seq(Characters), Settled(u), NEW g \in Seq(Whitespace)
    PROVE  \A l \in Seq(Characters \ {NewLine}) :
              Len(l) # 0 /\ l[1] \notin Whitespace => ProseOfLine(u, g, l)
<1> DEFINE P == { l \in Seq(Characters \ {NewLine}) :
                    Len(l) # 0 /\ l[1] \notin Whitespace => ProseOfLine(u, g, l) }
<1>1. PICK x, p : x = u \o g /\ p = Prose(u) \o GapFor(u, g)
  OBVIOUS
<1>2. x \in Seq(Characters) /\ p \in Seq(Characters)
  <2>1. g \in Seq(Characters)
    BY BlankParts
  <2>2. ProseGoesOnWith(u, g, Hyphen)
    BY HyphenIsSolid, ProseGoesOn
  <2>3. Prose(u) \in Seq(Characters) /\ GapFor(u, g) \in Seq(Characters)
    BY <2>2 DEF ProseGoesOnWith
  <2>4. QED
    BY <1>1, <2>1, <2>3, ConcatProperties
<1>3. <<>> \in P
  <2>1. PICK none : none = <<>>
    OBVIOUS
  <2>2. none \in Seq(Characters \ {NewLine}) /\ Len(none) = 0
    BY <2>1
  <2>3. QED
    BY <2>1, <2>2
<1>4. ASSUME NEW l \in Seq(Characters \ {NewLine}), NEW c \in Characters \ {NewLine}, l \in P
      PROVE  Append(l, c) \in P
  <2>1. PICK lc : lc = Append(l, c)
    OBVIOUS
  <2>2. /\ lc \in Seq(Characters \ {NewLine})
        /\ \A i \in 1..Len(l) : lc[i] = l[i]
        /\ lc[Len(l) + 1] = c
    BY <2>1, AppendProperties
  <2>3. Len(l) \in Nat
    BY LenProperties
  <2>4. ASSUME lc[1] \notin Whitespace PROVE ProseOfLine(u, g, lc)
    <3>1. CASE Len(l) # 0
      <4>1. 1 \in 1..Len(l)
        BY <2>3, <3>1
      <4>2. l[1] \notin Whitespace
        BY <2>2, <2>4, <4>1
      <4>3. Prose(x \o l) = p \o Pen(l)
        BY <1>1, <1>4, <3>1, <4>2 DEF ProseOfLine
      <4>4. LineGoesOn(x, p, l, c)
        BY <1>2, <3>1, <4>2, <4>3, LineStep
      <4>5. QED
        BY <1>1, <2>1, <4>4 DEF LineGoesOn, ProseOfLine
    <3>2. CASE Len(l) = 0
      <4>1. l = <<>> /\ c \notin Whitespace /\ c \in Characters
        BY <2>2, <2>4, <3>2, EmptySeq
      <4>2. PICK one : one = << c >>
        OBVIOUS
      <4>3. lc = one
        BY <2>1, <4>1, <4>2
      <4>4. Prose(Append(x, c)) = Append(p, c)
        <5>1. ProseGoesOnWith(u, g, c)
          BY <4>1, ProseGoesOn
        <5>2. QED
          BY <1>1, <5>1 DEF ProseGoesOnWith
      <4>5. Append(x, c) = x \o one /\ Append(p, c) = p \o one
        BY <1>2, <4>1, <4>2, AppendIsConcat
      <4>6. Pen(lc) = one
        <5>1. l \in Seq(Characters)
          BY OneBlankIs
        <5>2. PenAppends(l, c)
          BY <4>1, <5>1, PenAppend
        <5>3. c # Blank
          BY <4>1, OneBlankIs
        <5>4. Pen(l) = l /\ Pen(lc) = Append(Pen(l), c)
          BY <2>1, <3>2, <4>1, <5>2, <5>3 DEF PenAppends
        <5>5. QED
          BY <2>1, <4>3, <5>4
      <4>7. QED
        BY <1>1, <4>3, <4>4, <4>5, <4>6 DEF ProseOfLine
    <3>3. QED
      BY <3>1, <3>2
  <2>5. QED
    BY <2>1, <2>2, <2>4
<1>5. QED
  <2> HIDE DEF P
  <2>1. Seq(Characters \ {NewLine}) \subseteq P
    BY <1>3, <1>4, SequenceInduction
  <2>2. QED
    BY <2>1 DEF P

-----------------------------------------------------------------------------
(* Words broken at the end of a line.                                      *)

IsBreak(t, a, b) ==
    /\ a \in 2..Len(t) /\ b \in 3..Len(t)
    /\ t[a] = Hyphen /\ t[a - 1] \in WordChars /\ t[b] \in WordChars
    /\ \E i \in (a + 1)..(b - 1) : t[i] = NewLine
    /\ \A i \in (a + 1)..(b - 1) : t[i] \in Whitespace

Dropped(t) == UNION { b[1]..(b[2] - 1) : b \in HyphenBreaks(t) }

LEMMA DroppedIs ==
    ASSUME NEW t \in Seq(Characters)
    PROVE  /\ JoinHyphens(t) = Picked(t, Dropped(t))
           /\ JoinHyphens(t) \in Seq(Characters)
           /\ Len(t) = 0 => JoinHyphens(t) = <<>>
           /\ \A k \in Int : k \in Dropped(t) <=>
                \E a \in 2..Len(t), b \in 3..Len(t) : IsBreak(t, a, b) /\ k \in a..(b - 1)
<1>1. JoinHyphens(t) = Picked(t, Dropped(t))
  BY DEF JoinHyphens, Picked, Dropped
<1>2. \A a \in 2..Len(t), b \in 3..Len(t) : << a, b >> \in HyphenBreaks(t) <=> IsBreak(t, a, b)
  BY DEF HyphenBreaks, IsBreak
<1>3. \A c \in HyphenBreaks(t) : \E a \in 2..Len(t), b \in 3..Len(t) : c = << a, b >>
  BY DEF HyphenBreaks
<1>4. ASSUME NEW k \in Int
      PROVE  k \in Dropped(t) <=>
               \E a \in 2..Len(t), b \in 3..Len(t) : IsBreak(t, a, b) /\ k \in a..(b - 1)
  <2>1. ASSUME k \in Dropped(t)
        PROVE  \E a \in 2..Len(t), b \in 3..Len(t) : IsBreak(t, a, b) /\ k \in a..(b - 1)
    <3>1. PICK c \in HyphenBreaks(t) : k \in c[1]..(c[2] - 1)
      BY <2>1 DEF Dropped
    <3>2. PICK a \in 2..Len(t), b \in 3..Len(t) : c = << a, b >>
      BY <1>3
    <3>3. c[1] = a /\ c[2] = b
      BY <3>2
    <3>4. IsBreak(t, a, b) /\ k \in a..(b - 1)
      BY <1>2, <3>1, <3>2, <3>3
    <3>5. QED
      BY <3>4
  <2>2. ASSUME NEW a \in 2..Len(t), NEW b \in 3..Len(t), IsBreak(t, a, b), k \in a..(b - 1)
        PROVE  k \in Dropped(t)
    <3>1. PICK c : c = << a, b >>
      OBVIOUS
    <3>2. c \in HyphenBreaks(t) /\ c[1] = a /\ c[2] = b
      BY <1>2, <2>2, <3>1
    <3>3. k \in c[1]..(c[2] - 1)
      BY <2>2, <3>2
    <3>4. QED
      BY <3>2, <3>3 DEF Dropped
  <2>3. QED
    BY <2>1, <2>2
<1>5. Picked(t, Dropped(t)) \in Seq(Characters) /\ (Len(t) = 0 => Picked(t, Dropped(t)) = <<>>)
  BY HyphenIsSolid, PickedAppend
<1>6. QED
  BY <1>1, <1>4, <1>5

LEMMA WordsAreSolid ==
    /\ \A c \in WordChars : c \notin Whitespace
    /\ WordChars \subseteq Characters
<1>1. ASSUME NEW c \in Whitespace PROVE c \notin WordChars
  <2>1. << c >> \in ToSet(Separators) /\ Separators \in Seq(Seq(Characters \ WordChars) \ {<<>>})
    BY SeparatorsAssumption
  <2>2. PICK i \in DOMAIN Separators : Separators[i] = << c >>
    BY <2>1 DEF ToSet
  <2>3. i \in 1..Len(Separators)
    BY <2>1, LenProperties
  <2>4. Separators[i] \in Seq(Characters \ WordChars) \ {<<>>}
    BY <2>1, <2>3, ElementOfSeq
  <2>5. PICK one : one = << c >>
    OBVIOUS
  <2>6. one \in Seq(Characters \ WordChars) /\ 1 \in 1..Len(one) /\ one[1] = c
    BY <2>2, <2>4, <2>5
  <2>7. one[1] \in Characters \ WordChars
    BY <2>6, ElementOfSeq
  <2>8. QED
    BY <2>6, <2>7
<1>2. WordChars \subseteq Characters
  BY DEF Characters
<1>3. QED
  BY <1>1, <1>2

\* The word before is broken off at its end.
BrokenEnd(t) == Len(t) >= 2 /\ t[Len(t)] = Hyphen /\ t[Len(t) - 1] \in WordChars

Breaks(u, s) == BrokenEnd(u) /\ s[1] \in WordChars

\* Three texts in a row.
InARow(x, u, g, s, n, m, k) ==
    /\ n = Len(u) /\ m = Len(g) /\ k = Len(s)
    /\ x = (u \o g) \o s /\ x \in Seq(Characters) /\ u \o g \in Seq(Characters)
    /\ Len(x) = n + m + k /\ Len(u \o g) = n + m
    /\ \A i \in 1..n : x[i] = u[i] /\ (u \o g)[i] = u[i]
    /\ \A i \in 1..m : x[n + i] = g[i] /\ (u \o g)[n + i] = g[i]
    /\ \A i \in 1..k : x[n + m + i] = s[i]

LEMMA RowOfThree ==
    ASSUME NEW u \in Seq(Characters), NEW g \in Seq(Characters), NEW s \in Seq(Characters)
    PROVE  \E n \in Nat, m \in Nat, k \in Nat : InARow((u \o g) \o s, u, g, s, n, m, k)
<1>1. PICK n \in Nat, m \in Nat, k \in Nat : n = Len(u) /\ m = Len(g) /\ k = Len(s)
  BY LenProperties
<1>2. PICK y, x : y = u \o g /\ x = y \o s
  OBVIOUS
<1>3. /\ y \in Seq(Characters) /\ Len(y) = n + m
      /\ \A i \in 1..(n + m) : y[i] = IF i <= n THEN u[i] ELSE g[i - n]
  BY <1>1, <1>2, ConcatProperties
<1>4. /\ x \in Seq(Characters) /\ Len(x) = n + m + k
      /\ \A i \in 1..(n + m + k) : x[i] = IF i <= n + m THEN y[i] ELSE s[i - (n + m)]
  BY <1>1, <1>2, <1>3, ConcatProperties
<1>5. \A i \in 1..n : x[i] = u[i] /\ y[i] = u[i]
  <2>1. \A i \in 1..n : i \in 1..(n + m) /\ i \in 1..(n + m + k) /\ i <= n /\ i <= n + m
    OBVIOUS
  <2>2. QED
    BY <1>3, <1>4, <2>1
<1>6. \A i \in 1..m : x[n + i] = g[i] /\ y[n + i] = g[i]
  <2>1. \A i \in 1..m : /\ n + i \in 1..(n + m) /\ n + i \in 1..(n + m + k) /\ ~ (n + i <= n)
                        /\ n + i <= n + m /\ n + i - n = i
    OBVIOUS
  <2>2. QED
    BY <1>3, <1>4, <2>1
<1>7. \A i \in 1..k : x[n + m + i] = s[i]
  <2>1. \A i \in 1..k : /\ n + m + i \in 1..(n + m + k) /\ ~ (n + m + i <= n + m)
                        /\ n + m + i - (n + m) = i
    OBVIOUS
  <2>2. QED
    BY <1>4, <2>1
<1>8. InARow(x, u, g, s, n, m, k)
  BY <1>1, <1>2, <1>3, <1>4, <1>5, <1>6, <1>7 DEF InARow
<1>9. QED
  BY <1>2, <1>8

\* A break stays where more follows.
LEMMA BreakStays ==
    ASSUME NEW u \in Seq(Characters), NEW x \in Seq(Characters), Len(u) <= Len(x),
           \A i \in 1..Len(u) : x[i] = u[i], NEW a \in Int, NEW b \in Int, b <= Len(u)
    PROVE  IsBreak(x, a, b) <=> IsBreak(u, a, b)
<1>1. PICK n \in Nat, k \in Nat : n = Len(u) /\ k = Len(x)
  BY LenProperties
<1>2. ASSUME IsBreak(x, a, b) PROVE IsBreak(u, a, b)
  <2>1. PICK i \in (a + 1)..(b - 1) : x[i] = NewLine
    BY <1>2 DEF IsBreak
  <2>2. a \in 2..n /\ b \in 3..n /\ a \in 1..n /\ a - 1 \in 1..n /\ b \in 1..n
    <3>1. a \in 2..k /\ b \in 3..k
      BY <1>1, <1>2 DEF IsBreak
    <3>2. QED
      BY <1>1, <3>1
  <2>3. \A j \in (a + 1)..(b - 1) : j \in 1..n
    BY <2>2
  <2>4. \A j \in (a + 1)..(b - 1) : x[j] = u[j]
    BY <1>1, <2>3
  <2>5. x[a] = u[a] /\ x[a - 1] = u[a - 1] /\ x[b] = u[b]
    BY <1>1, <2>2
  <2>6. QED
    BY <1>1, <1>2, <2>1, <2>2, <2>4, <2>5 DEF IsBreak
<1>3. ASSUME IsBreak(u, a, b) PROVE IsBreak(x, a, b)
  <2>1. a \in 2..n /\ b \in 3..n /\ a \in 1..n /\ a - 1 \in 1..n /\ b \in 1..n
    BY <1>1, <1>3 DEF IsBreak
  <2>2. a \in 2..k /\ b \in 3..k
    BY <1>1, <2>1
  <2>3. \A j \in (a + 1)..(b - 1) : j \in 1..n
    BY <2>1
  <2>4. \A j \in (a + 1)..(b - 1) : x[j] = u[j]
    BY <1>1, <2>3
  <2>5. x[a] = u[a] /\ x[a - 1] = u[a - 1] /\ x[b] = u[b]
    BY <1>1, <2>1
  <2>6. QED
    BY <1>1, <1>3, <2>2, <2>4, <2>5 DEF IsBreak
<1>4. QED
  BY <1>2, <1>3

\* The breaks where a line follows.
LEMMA BreaksOfLine ==
    ASSUME NEW u \in Seq(Characters), Settled(u), NEW g \in Seq(Whitespace),
           NEW s \in Seq(Characters \ {NewLine}), Len(s) # 0, s[1] \notin Whitespace,
           Len(u) # 0 => \E i \in 1..Len(g) : g[i] = NewLine,
           NEW n \in Nat, NEW m \in Nat, NEW k \in Nat, NEW x, InARow(x, u, g, s, n, m, k),
           NEW a \in Int, NEW b \in Int
    PROVE  IsBreak(x, a, b) <=> IsBreak(u, a, b) \/ (Breaks(u, s) /\ a = n /\ b = n + m + 1)
<1>1. /\ n = Len(u) /\ m = Len(g) /\ k = Len(s) /\ k # 0
      /\ x \in Seq(Characters) /\ Len(x) = n + m + k
      /\ \A i \in 1..n : x[i] = u[i]
      /\ \A i \in 1..m : x[n + i] = g[i]
      /\ \A i \in 1..k : x[n + m + i] = s[i]
  BY DEF InARow
<1>2. \A i \in 1..m : g[i] \in Whitespace
  BY <1>1, ElementOfSeq
<1>3. \A i \in 1..k : s[i] # NewLine
  <2>1. \A i \in 1..k : s[i] \in Characters \ {NewLine}
    BY <1>1, ElementOfSeq
  <2>2. QED
    BY <2>1
<1>4. \A i \in Int : i \in (n + 1)..(n + m) => x[i] \in Whitespace
  <2>1. ASSUME NEW i \in Int, i \in (n + 1)..(n + m) PROVE x[i] \in Whitespace
    <3>1. PICK j \in 1..m : i = n + j
      <4>1. i - n \in 1..m /\ i = n + (i - n)
        BY <2>1
      <4>2. QED
        BY <4>1
    <3>2. QED
      BY <1>1, <1>2, <3>1
  <2>2. QED
    BY <2>1
<1>5. \A i \in Int : i \in (n + m + 1)..(n + m + k) => x[i] # NewLine
  <2>1. ASSUME NEW i \in Int, i \in (n + m + 1)..(n + m + k) PROVE x[i] # NewLine
    <3>1. PICK j \in 1..k : i = n + m + j
      <4>1. i - (n + m) \in 1..k /\ i = n + m + (i - (n + m))
        BY <2>1
      <4>2. QED
        BY <4>1
    <3>2. QED
      BY <1>1, <1>3, <3>1
  <2>2. QED
    BY <2>1
<1>6. x[n + m + 1] = s[1] /\ x[n + m + 1] \notin Whitespace
  <2>1. 1 \in 1..k
    BY <1>1
  <2>2. QED
    BY <1>1, <2>1
<1>7. n # 0 => x[n] = u[n] /\ u[n] \notin Whitespace
  <2>1. n # 0 => n \in 1..n
    OBVIOUS
  <2>2. QED
    BY <1>1, <2>1 DEF Settled
<1>8. CASE b <= n
  <2>1. Len(u) <= Len(x) /\ b <= Len(u) /\ ~ (b = n + m + 1)
    BY <1>1, <1>8
  <2>2. \A i \in 1..Len(u) : x[i] = u[i]
    BY <1>1
  <2>3. IsBreak(x, a, b) <=> IsBreak(u, a, b)
    BY <1>1, <2>1, <2>2, BreakStays
  <2>4. QED
    BY <2>1, <2>3
<1>9. CASE ~ (b <= n)
  <2>1. ~ IsBreak(u, a, b)
    <3>1. ASSUME IsBreak(u, a, b) PROVE FALSE
      <4>1. b \in 3..n
        BY <1>1, <3>1 DEF IsBreak
      <4>2. QED
        BY <1>9, <4>1
    <3>2. QED
      BY <3>1
  <2>2. ASSUME IsBreak(x, a, b) PROVE Breaks(u, s) /\ a = n /\ b = n + m + 1
    <3>1. /\ a \in 2..(n + m + k) /\ b \in 3..(n + m + k)
          /\ x[a] = Hyphen /\ x[a - 1] \in WordChars /\ x[b] \in WordChars
          /\ \E i \in (a + 1)..(b - 1) : x[i] = NewLine
          /\ \A i \in (a + 1)..(b - 1) : x[i] \in Whitespace
      BY <1>1, <2>2 DEF IsBreak
    <3>2. PICK i \in (a + 1)..(b - 1) : x[i] = NewLine
      BY <3>1
    <3>3. x[a] \notin Whitespace /\ x[b] \notin Whitespace
      BY <3>1, HyphenIsSolid, WordsAreSolid
    <3>4. b \notin (n + 1)..(n + m) /\ a \notin (n + 1)..(n + m)
      BY <1>4, <3>3
    <3>5. b >= n + m + 1
      BY <1>9, <3>1, <3>4
    <3>6. a <= n
      <4>1. ~ (a >= n + m + 1)
        <5>1. ASSUME a >= n + m + 1 PROVE FALSE
          <6>1. i \in Int /\ i \in (n + m + 1)..(n + m + k)
            BY <3>1, <3>2, <5>1
          <6>2. QED
            BY <1>5, <3>2, <6>1
        <5>2. QED
          BY <5>1
      <4>2. QED
        BY <3>1, <3>4, <4>1
    <3>7. b = n + m + 1
      <4>1. ASSUME b # n + m + 1 PROVE FALSE
        <5>1. n + m + 1 \in (a + 1)..(b - 1)
          BY <3>1, <3>5, <3>6, <4>1
        <5>2. QED
          BY <1>6, <3>1, <5>1
      <4>2. QED
        BY <4>1
    <3>8. a = n
      <4>1. ASSUME a # n PROVE FALSE
        <5>0. a \in 2..(n + m + k)
          BY <3>1
        <5>1. n \in (a + 1)..(b - 1) /\ n # 0
          BY <3>6, <3>7, <4>1, <5>0
        <5>2. QED
          BY <1>7, <3>1, <5>1
      <4>2. QED
        BY <4>1
    <3>9. n >= 2 /\ n \in 1..n /\ n - 1 \in 1..n
      BY <3>1, <3>8
    <3>10. u[n] = Hyphen /\ u[n - 1] \in WordChars /\ s[1] \in WordChars
      BY <1>1, <1>6, <3>1, <3>7, <3>8, <3>9
    <3>11. QED
      BY <1>1, <3>7, <3>8, <3>9, <3>10 DEF Breaks, BrokenEnd
  <2>3. ASSUME Breaks(u, s), a = n, b = n + m + 1 PROVE IsBreak(x, a, b)
    <3>1. n >= 2 /\ u[n] = Hyphen /\ u[n - 1] \in WordChars /\ s[1] \in WordChars
      BY <1>1, <2>3 DEF Breaks, BrokenEnd
    <3>2. n \in 1..n /\ n - 1 \in 1..n /\ n # 0
      BY <3>1
    <3>3. x[a] = Hyphen /\ x[a - 1] \in WordChars /\ x[b] \in WordChars
      BY <1>1, <1>6, <2>3, <3>1, <3>2
    <3>4. PICK i \in 1..m : g[i] = NewLine
      BY <1>1, <3>2
    <3>5. n + i \in (a + 1)..(b - 1) /\ x[n + i] = NewLine
      BY <1>1, <2>3, <3>4
    <3>6. \A j \in (a + 1)..(b - 1) : x[j] \in Whitespace
      <4>1. \A j \in (a + 1)..(b - 1) : j \in Int /\ j \in (n + 1)..(n + m)
        BY <2>3
      <4>2. QED
        BY <1>4, <4>1
    <3>7. a \in 2..(n + m + k) /\ b \in 3..(n + m + k)
      BY <1>1, <2>3, <3>1, <3>4
    <3>8. QED
      BY <1>1, <3>3, <3>5, <3>6, <3>7 DEF IsBreak
  <2>4. QED
    BY <2>1, <2>2, <2>3
<1>10. QED
  BY <1>8, <1>9

\* No break reaches into white space at the end.
GapBehind(x, u, g, n, m) ==
    /\ n = Len(u) /\ m = Len(g) /\ Len(x) = n + m
    /\ \A i \in 1..n : x[i] = u[i]
    /\ \A i \in 1..m : x[n + i] = g[i]

LEMMA BreaksOfGap ==
    ASSUME NEW u \in Seq(Characters), NEW g \in Seq(Whitespace),
           NEW n \in Nat, NEW m \in Nat, NEW x \in Seq(Characters), GapBehind(x, u, g, n, m),
           NEW a \in Int, NEW b \in Int
    PROVE  IsBreak(x, a, b) <=> IsBreak(u, a, b)
<1>0. /\ n = Len(u) /\ m = Len(g) /\ Len(x) = n + m
      /\ \A i \in 1..n : x[i] = u[i]
      /\ \A i \in 1..m : x[n + i] = g[i]
  BY DEF GapBehind
<1>1. CASE b <= n
  <2>1. Len(u) <= Len(x) /\ b <= Len(u) /\ \A i \in 1..Len(u) : x[i] = u[i]
    BY <1>0, <1>1
  <2>2. QED
    BY <2>1, BreakStays
<1>2. CASE ~ (b <= n)
  <2>1. ASSUME IsBreak(u, a, b) PROVE FALSE
    <3>1. b \in 3..n
      BY <1>0, <2>1 DEF IsBreak
    <3>2. QED
      BY <1>2, <3>1
  <2>2. ASSUME IsBreak(x, a, b) PROVE FALSE
    <3>1. b \in 3..(n + m) /\ x[b] \in WordChars
      BY <1>0, <2>2 DEF IsBreak
    <3>2. PICK j \in 1..m : b = n + j
      <4>1. b - n \in 1..m /\ b = n + (b - n)
        BY <1>2, <3>1
      <4>2. QED
        BY <4>1
    <3>3. x[b] = g[j] /\ g[j] \in Whitespace
      BY <1>0, <3>2, ElementOfSeq
    <3>4. QED
      BY <3>1, <3>3, WordsAreSolid
  <2>3. QED
    BY <2>1, <2>2
<1>3. QED
  BY <1>1, <1>2

\* What is dropped of a text is dropped of a longer one, but for a new break.
OneMoreBreak(u, x, n, p, new) ==
    /\ n = Len(u) /\ n <= Len(x)
    /\ new => n \in 2..Len(x) /\ p \in 3..Len(x)
    /\ \A a \in Int, b \in Int : IsBreak(x, a, b) <=> IsBreak(u, a, b) \/ (new /\ a = n /\ b = p)

OneMoreDrop(u, x, n, p, new) ==
    /\ \A k \in Int : k \in Dropped(x) <=> k \in Dropped(u) \/ (new /\ k \in n..(p - 1))
    /\ \A k \in Int : k \in Dropped(u) => k \in 1..(n - 1)

LEMMA DropsFollow ==
    ASSUME NEW u \in Seq(Characters), NEW x \in Seq(Characters), NEW n \in Nat, NEW p \in Nat,
           NEW new \in BOOLEAN, OneMoreBreak(u, x, n, p, new)
    PROVE  OneMoreDrop(u, x, n, p, new)
<1>0. /\ n = Len(u) /\ n <= Len(x)
      /\ new => n \in 2..Len(x) /\ p \in 3..Len(x)
      /\ \A a \in Int, b \in Int : IsBreak(x, a, b) <=> IsBreak(u, a, b) \/ (new /\ a = n /\ b = p)
  BY DEF OneMoreBreak
<1>1. \A k \in Int : k \in Dropped(u) <=>
        \E a \in 2..Len(u), b \in 3..Len(u) : IsBreak(u, a, b) /\ k \in a..(b - 1)
  BY DroppedIs
<1>2. \A k \in Int : k \in Dropped(x) <=>
        \E a \in 2..Len(x), b \in 3..Len(x) : IsBreak(x, a, b) /\ k \in a..(b - 1)
  BY DroppedIs
<1>3. ASSUME NEW k \in Int, k \in Dropped(u) PROVE k \in 1..(n - 1) /\ k \in Dropped(x)
  <2>1. PICK a \in 2..n, b \in 3..n : IsBreak(u, a, b) /\ k \in a..(b - 1)
    BY <1>0, <1>1, <1>3
  <2>2. k \in 1..(n - 1) /\ a \in 2..Len(x) /\ b \in 3..Len(x)
    <3>1. Len(x) \in Nat
      BY LenProperties
    <3>2. QED
      BY <1>0, <2>1, <3>1
  <2>3. IsBreak(x, a, b)
    BY <1>0, <2>1
  <2>4. QED
    BY <1>2, <2>1, <2>2, <2>3
<1>4. ASSUME NEW k \in Int, new, k \in n..(p - 1) PROVE k \in Dropped(x)
  <2>1. IsBreak(x, n, p) /\ n \in 2..Len(x) /\ p \in 3..Len(x)
    BY <1>0, <1>4
  <2>2. QED
    BY <1>2, <1>4, <2>1
<1>5. ASSUME NEW k \in Int, k \in Dropped(x) PROVE k \in Dropped(u) \/ (new /\ k \in n..(p - 1))
  <2>1. PICK a \in 2..Len(x), b \in 3..Len(x) : IsBreak(x, a, b) /\ k \in a..(b - 1)
    BY <1>2, <1>5
  <2>2. CASE new /\ a = n /\ b = p
    BY <2>1, <2>2
  <2>3. CASE IsBreak(u, a, b)
    <3>1. a \in 2..Len(u) /\ b \in 3..Len(u)
      BY <2>3 DEF IsBreak
    <3>2. QED
      BY <1>1, <2>1, <2>3, <3>1
  <2>4. QED
    BY <1>0, <2>1, <2>2, <2>3
<1>6. QED
  BY <1>3, <1>4, <1>5 DEF OneMoreDrop

\* White space at the end changes nothing before it.
LEMMA JoinedBehind ==
    ASSUME NEW u \in Seq(Characters), NEW g \in Seq(Whitespace)
    PROVE  JoinHyphens(u \o g) = JoinHyphens(u) \o g
<1>1. PICK n \in Nat, m \in Nat : n = Len(u) /\ m = Len(g)
  BY LenProperties
<1>2. PICK x : x = u \o g
  OBVIOUS
<1>3. g \in Seq(Characters)
  BY BlankParts
<1>4. /\ x \in Seq(Characters) /\ Len(x) = n + m
      /\ \A i \in 1..(n + m) : x[i] = IF i <= n THEN u[i] ELSE g[i - n]
  BY <1>1, <1>2, <1>3, ConcatProperties
<1>5. /\ \A i \in 1..n : x[i] = u[i]
      /\ \A i \in 1..m : x[n + i] = g[i]
  <2>1. \A i \in 1..n : i \in 1..(n + m) /\ i <= n
    OBVIOUS
  <2>2. \A i \in 1..m : n + i \in 1..(n + m) /\ ~ (n + i <= n) /\ n + i - n = i
    OBVIOUS
  <2>3. QED
    BY <1>4, <2>1, <2>2
<1>6. \A a \in Int, b \in Int : IsBreak(x, a, b) <=> IsBreak(u, a, b)
  <2>1. GapBehind(x, u, g, n, m)
    BY <1>1, <1>4, <1>5 DEF GapBehind
  <2>2. QED
    BY <1>4, <2>1, BreaksOfGap
<1>7. /\ \A k \in Int : k \in Dropped(x) <=> k \in Dropped(u)
      /\ \A k \in Int : k \in Dropped(u) => k \in 1..(n - 1)
  <2>1. PICK new : new = FALSE
    OBVIOUS
  <2>2. new \in BOOLEAN
    BY <2>1
  <2>3. \A a \in Int, b \in Int : IsBreak(x, a, b) <=> IsBreak(u, a, b) \/ (new /\ a = n /\ b = 0)
    BY <1>6, <2>1
  <2>4. new => n \in 2..Len(x) /\ 0 \in 3..Len(x)
    BY <2>1
  <2>5. n <= Len(x) /\ n = Len(u)
    BY <1>1, <1>4
  <2>6. OneMoreBreak(u, x, n, 0, new)
    BY <2>3, <2>4, <2>5 DEF OneMoreBreak
  <2>7. OneMoreDrop(u, x, n, 0, new)
    BY <1>4, <2>2, <2>6, DropsFollow
  <2>8. QED
    BY <2>1, <2>7 DEF OneMoreDrop
<1>8. \A i \in 1..m : n + i \notin Dropped(u)
  BY <1>7
<1>9. Picked(u \o g, Dropped(u)) = Picked(u, Dropped(u)) \o g
  <2>1. PickedOnto(u, g, Dropped(u))
    BY <1>3, PickedBehind
  <2>2. QED
    BY <1>1, <1>8, <2>1 DEF PickedOnto
<1>10. Picked(x, Dropped(x)) = Picked(x, Dropped(u))
  <2>1. \A i \in 1..Len(x) : i \in Dropped(x) <=> i \in Dropped(u)
    BY <1>7
  <2>2. QED
    BY <1>4, <2>1, PickedSame
<1>11. QED
  BY <1>2, <1>4, <1>9, <1>10, DroppedIs

\* A line, behind what ends in a broken word or not.
JoinsLine(u, g, s) ==
    /\ ~ Breaks(u, s) => JoinHyphens((u \o g) \o s) = (JoinHyphens(u) \o g) \o s
    /\ Breaks(u, s) =>
         \E r \in Seq(Characters) : /\ JoinHyphens(u) = Append(r, Hyphen)
                                    /\ JoinHyphens((u \o g) \o s) = r \o s

LEMMA JoinedLine ==
    ASSUME NEW u \in Seq(Characters), Settled(u), NEW g \in Seq(Whitespace),
           NEW s \in Seq(Characters \ {NewLine}), Len(s) # 0, s[1] \notin Whitespace,
           Len(u) # 0 => \E i \in 1..Len(g) : g[i] = NewLine
    PROVE  JoinsLine(u, g, s)
<1>1. g \in Seq(Characters) /\ s \in Seq(Characters)
  BY BlankParts, OneBlankIs
<1>2. PICK x, y : y = u \o g /\ x = y \o s
  OBVIOUS
<1>3. PICK n \in Nat, m \in Nat, k \in Nat : InARow(x, u, g, s, n, m, k)
  BY <1>1, <1>2, RowOfThree
<1>4. /\ n = Len(u) /\ m = Len(g) /\ k = Len(s) /\ x \in Seq(Characters) /\ y \in Seq(Characters)
      /\ Len(x) = n + m + k /\ Len(y) = n + m
  BY <1>2, <1>3 DEF InARow
<1>5. PICK new : new = Breaks(u, s)
  OBVIOUS
<1>6. PICK p \in Nat : p = n + m + 1
  OBVIOUS
<1>7. \A a \in Int, b \in Int : IsBreak(x, a, b) <=> IsBreak(u, a, b) \/ (new /\ a = n /\ b = p)
  <2>1. ASSUME NEW a \in Int, NEW b \in Int
        PROVE  IsBreak(x, a, b) <=> IsBreak(u, a, b) \/ (Breaks(u, s) /\ a = n /\ b = n + m + 1)
    BY <1>3, BreaksOfLine
  <2>2. QED
    BY <1>5, <1>6, <2>1
<1>8. new \in BOOLEAN /\ n <= Len(x) /\ (new => n \in 2..Len(x) /\ p \in 3..Len(x))
  <2>1. new => n >= 2
    BY <1>4, <1>5 DEF Breaks, BrokenEnd
  <2>2. new \in BOOLEAN
    BY <1>5 DEF Breaks, BrokenEnd
  <2>3. QED
    BY <1>4, <1>6, <2>1, <2>2
<1>9. /\ \A i \in Int : i \in Dropped(x) <=> i \in Dropped(u) \/ (new /\ i \in n..(p - 1))
      /\ \A i \in Int : i \in Dropped(u) => i \in 1..(n - 1)
  <2>1. OneMoreBreak(u, x, n, p, new)
    BY <1>4, <1>7, <1>8 DEF OneMoreBreak
  <2>2. OneMoreDrop(u, x, n, p, new)
    BY <1>4, <1>8, <2>1, DropsFollow
  <2>3. QED
    BY <2>2 DEF OneMoreDrop
<1>10. PICK D, E : D = Dropped(u) /\ E = Dropped(x)
  OBVIOUS
<1>11. JoinHyphens(x) = Picked(x, E) /\ JoinHyphens(u) = Picked(u, D)
  BY <1>4, <1>10, DroppedIs
<1>12. CASE ~ new
  <2>1. \A i \in 1..Len(x) : i \in E <=> i \in D
    BY <1>9, <1>10, <1>12
  <2>2. Picked(x, E) = Picked(x, D)
    BY <1>4, <2>1, PickedSame
  <2>3. \A i \in 1..m : n + i \notin D
    BY <1>9, <1>10
  <2>4. Picked(u \o g, D) = Picked(u, D) \o g
    <3>1. PickedOnto(u, g, D)
      BY <1>1, PickedBehind
    <3>2. QED
      BY <1>4, <2>3, <3>1 DEF PickedOnto
  <2>5. \A i \in 1..k : (n + m) + i \notin D
    BY <1>9, <1>10
  <2>6. Picked(y \o s, D) = Picked(y, D) \o s
    <3>1. PickedOnto(y, s, D)
      BY <1>1, <1>4, PickedBehind
    <3>2. QED
      BY <1>4, <2>5, <3>1 DEF PickedOnto
  <2>7. JoinHyphens(x) = (JoinHyphens(u) \o g) \o s
    BY <1>2, <1>11, <2>2, <2>4, <2>6
  <2>8. QED
    BY <1>2, <1>5, <1>12, <2>7 DEF JoinsLine
<1>13. CASE new
  <2>1. n >= 2 /\ u[n] = Hyphen
    BY <1>4, <1>5, <1>13 DEF Breaks, BrokenEnd
  <2>2. PICK v \in Seq(Characters), c \in Characters : u = Append(v, c)
    <3>1. u # <<>>
      BY <1>4, <2>1
    <3>2. QED
      BY <3>1, SequenceEmptyOrAppend
  <2>3. Len(v) = n - 1 /\ Len(v) \in Nat /\ c = Hyphen
    <3>1. Len(u) = Len(v) + 1 /\ u[Len(v) + 1] = c /\ Len(v) \in Nat
      BY <2>2, AppendProperties, LenProperties
    <3>2. QED
      BY <1>4, <2>1, <3>1
  <2>4. \A i \in 1..m : n + i \in E
    BY <1>6, <1>9, <1>10, <1>13
  <2>5. \A i \in 1..k : (n + m) + i \notin E
    BY <1>6, <1>9, <1>10
  <2>6. Picked(y \o s, E) = Picked(y, E) \o s
    <3>1. PickedOnto(y, s, E)
      BY <1>1, <1>4, PickedBehind
    <3>2. QED
      BY <1>4, <2>5, <3>1 DEF PickedOnto
  <2>7. Picked(u \o g, E) = Picked(u, E)
    <3>1. PickedOnto(u, g, E)
      BY <1>1, PickedBehind
    <3>2. QED
      BY <1>4, <2>4, <3>1 DEF PickedOnto
  <2>8. n \in E /\ n \notin D
    BY <1>6, <1>9, <1>10, <1>13
  <2>9. PICK r : r = Picked(v, D)
    OBVIOUS
  <2>10. Picked(u, E) = Picked(v, E)
    <3>1. Len(v) + 1 \in E
      BY <2>3, <2>8
    <3>2. Picked(Append(v, c), E)
            = IF Len(v) + 1 \in E THEN Picked(v, E) ELSE Append(Picked(v, E), c)
      BY PickedAppend
    <3>3. QED
      BY <2>2, <3>1, <3>2
  <2>11. r \in Seq(Characters) /\ Picked(u, D) = Append(r, Hyphen)
    <3>1. Len(v) + 1 \notin D
      BY <2>3, <2>8
    <3>2. /\ Picked(v, D) \in Seq(Characters)
          /\ Picked(Append(v, c), D)
               = IF Len(v) + 1 \in D THEN Picked(v, D) ELSE Append(Picked(v, D), c)
      BY PickedAppend
    <3>3. QED
      BY <2>2, <2>3, <2>9, <3>1, <3>2
  <2>12. Picked(v, E) = r
    <3>1. \A i \in 1..Len(v) : i \in E <=> i \in D
      <4>1. \A i \in 1..Len(v) : i \in Int /\ ~ (i \in n..(p - 1))
        BY <2>3
      <4>2. QED
        BY <1>9, <1>10, <4>1
    <3>2. QED
      BY <2>9, <3>1, PickedSame
  <2>13. JoinHyphens(x) = r \o s
    BY <1>2, <1>11, <2>6, <2>7, <2>10, <2>12
  <2>14. JoinHyphens(u) = Append(r, Hyphen)
    BY <1>11, <2>11
  <2>15. QED
    BY <1>2, <1>5, <1>13, <2>11, <2>13, <2>14 DEF JoinsLine
<1>14. QED
  BY <1>8, <1>12, <1>13

-----------------------------------------------------------------------------
(* How a line begins and ends, and what it says.                           *)

LEMMA BrokenAppend ==
    ASSUME NEW q \in Seq(Characters), NEW d \in Characters, NEW c \in Characters
    PROVE  /\ BrokenEnd(Append(Append(q, d), c)) <=> c = Hyphen /\ d \in WordChars
           /\ Len(q) = 0 => ~ BrokenEnd(Append(q, d))
           /\ Len(q) = 0 => ~ BrokenEnd(q)
<1>1. PICK n \in Nat : n = Len(q)
  BY LenProperties
<1>2. PICK qd, t : qd = Append(q, d) /\ t = Append(qd, c)
  OBVIOUS
<1>3. qd \in Seq(Characters) /\ Len(qd) = n + 1 /\ qd[n + 1] = d
  BY <1>1, <1>2, AppendProperties
<1>4. /\ Len(t) = n + 2 /\ t[n + 2] = c
      /\ \A i \in 1..(n + 1) : t[i] = qd[i]
  <2>1. /\ Len(t) = Len(qd) + 1 /\ t[Len(qd) + 1] = c
        /\ \A i \in 1..Len(qd) : t[i] = qd[i]
    BY <1>2, <1>3, AppendProperties
  <2>2. n + 1 + 1 = n + 2
    OBVIOUS
  <2>3. QED
    BY <1>3, <2>1, <2>2
<1>5. n + 1 \in 1..(n + 1) /\ n + 2 - 1 = n + 1 /\ n + 2 >= 2
  OBVIOUS
<1>6. BrokenEnd(t) <=> c = Hyphen /\ d \in WordChars
  BY <1>3, <1>4, <1>5 DEF BrokenEnd
<1>7. Len(q) = 0 => ~ BrokenEnd(qd) /\ ~ BrokenEnd(q)
  BY <1>1, <1>3 DEF BrokenEnd
<1>8. QED
  BY <1>2, <1>6, <1>7

\* What is put before it does not matter, unless it ends in a word.
BrokenBehind(x, s) ==
    /\ BrokenEnd(s) => BrokenEnd(x \o s)
    /\ (Len(x) = 0 \/ x[Len(x)] \in Whitespace) /\ Len(s) # 0 => (BrokenEnd(x \o s) => BrokenEnd(s))

LEMMA BrokenConcat ==
    ASSUME NEW x \in Seq(Characters), NEW s \in Seq(Characters)
    PROVE  BrokenBehind(x, s)
<1>1. PICK n \in Nat, m \in Nat : n = Len(x) /\ m = Len(s)
  BY LenProperties
<1>2. PICK y : y = x \o s
  OBVIOUS
<1>3. /\ y \in Seq(Characters) /\ Len(y) = n + m
      /\ \A i \in 1..(n + m) : y[i] = IF i <= n THEN x[i] ELSE s[i - n]
  BY <1>1, <1>2, ConcatProperties
<1>4. m # 0 => y[n + m] = s[m]
  <2>1. m # 0 => n + m \in 1..(n + m) /\ ~ (n + m <= n) /\ n + m - n = m
    OBVIOUS
  <2>2. QED
    BY <1>3, <2>1
<1>5. m >= 2 => y[n + m - 1] = s[m - 1]
  <2>1. m >= 2 => n + m - 1 \in 1..(n + m) /\ ~ (n + m - 1 <= n) /\ n + m - 1 - n = m - 1
    OBVIOUS
  <2>2. QED
    BY <1>3, <2>1
<1>6. BrokenEnd(s) => BrokenEnd(y)
  <2>1. ASSUME BrokenEnd(s) PROVE BrokenEnd(y)
    <3>1. m >= 2 /\ s[m] = Hyphen /\ s[m - 1] \in WordChars
      BY <1>1, <2>1 DEF BrokenEnd
    <3>2. n + m >= 2 /\ m # 0
      BY <3>1
    <3>3. QED
      BY <1>3, <1>4, <1>5, <3>1, <3>2 DEF BrokenEnd
  <2>2. QED
    BY <2>1
<1>7. ASSUME n = 0 \/ x[n] \in Whitespace, m # 0, BrokenEnd(y) PROVE BrokenEnd(s)
  <2>1. n + m >= 2 /\ y[n + m] = Hyphen /\ y[n + m - 1] \in WordChars
    BY <1>3, <1>7 DEF BrokenEnd
  <2>2. m >= 2
    <3>1. ASSUME m = 1 PROVE FALSE
      <4>1. n # 0 /\ n \in 1..(n + m) /\ n <= n /\ n + m - 1 = n
        BY <2>1, <3>1
      <4>2. y[n + m - 1] = x[n]
        BY <1>3, <4>1
      <4>3. QED
        BY <1>7, <2>1, <4>1, <4>2, WordsAreSolid
    <3>2. QED
      BY <1>7, <3>1
  <2>3. QED
    BY <1>1, <1>4, <1>5, <1>7, <2>1, <2>2 DEF BrokenEnd
<1>8. QED
  BY <1>1, <1>2, <1>6, <1>7 DEF BrokenBehind

LEMMA PenStarts ==
    \A s \in Seq(Characters) :
       Len(s) # 0 /\ s[1] \notin Whitespace => Len(Pen(s)) # 0 /\ Pen(s)[1] = s[1]
<1> DEFINE P == { s \in Seq(Characters) :
                    Len(s) # 0 /\ s[1] \notin Whitespace => Len(Pen(s)) # 0 /\ Pen(s)[1] = s[1] }
<1>1. <<>> \in P
  <2>1. PICK none : none = <<>>
    OBVIOUS
  <2>2. none \in Seq(Characters) /\ Len(none) = 0
    BY <2>1
  <2>3. QED
    BY <2>1, <2>2
<1>2. ASSUME NEW s \in Seq(Characters), NEW c \in Characters, s \in P PROVE Append(s, c) \in P
  <2>1. PICK sc, q, n : sc = Append(s, c) /\ q = Pen(s) /\ n = Len(s)
    OBVIOUS
  <2>2. /\ n \in Nat
        /\ sc \in Seq(Characters) /\ sc[n + 1] = c
        /\ \A i \in 1..n : sc[i] = s[i]
    BY <2>1, LenProperties, AppendProperties
  <2>3. /\ q \in Seq(Characters) /\ (n = 0 => q = <<>>)
        /\ Pen(sc) = IF c = Blank THEN q
                     ELSE IF n # 0 /\ s[n] = Blank THEN Append(q \o OneBlank, c)
                     ELSE Append(q, c)
    BY <2>1, PenAppend DEF PenAppends
  <2>4. ASSUME sc[1] \notin Whitespace PROVE Len(Pen(sc)) # 0 /\ Pen(sc)[1] = sc[1]
    <3>1. CASE n = 0
      <4>1. c \notin Whitespace /\ c # Blank /\ sc[1] = c
        BY <2>2, <2>4, <3>1, OneBlankIs
      <4>2. PICK none, one : none = <<>> /\ one = << c >>
        OBVIOUS
      <4>3. Pen(sc) = one
        BY <2>3, <3>1, <4>1, <4>2
      <4>4. QED
        BY <4>1, <4>2, <4>3
    <3>2. CASE n # 0
      <4>1. 1 \in 1..n
        BY <2>2, <3>2
      <4>2. Len(q) # 0 /\ q[1] = sc[1]
        BY <1>2, <2>1, <2>2, <2>4, <3>2, <4>1
      <4>3. PICK k \in Nat : k = Len(q)
        BY <2>3, LenProperties
      <4>4. 1 \in 1..k
        BY <4>2, <4>3
      <4>5. Len(Append(q, c)) # 0 /\ Append(q, c)[1] = q[1]
        <5>1. Len(Append(q, c)) = k + 1 /\ \A i \in 1..k : Append(q, c)[i] = q[i]
          BY <2>3, <4>3, AppendProperties
        <5>2. QED
          BY <4>4, <5>1
      <4>6. Len(Append(q \o OneBlank, c)) # 0 /\ Append(q \o OneBlank, c)[1] = q[1]
        <5>1. OneBlank \in Seq(Characters)
          BY OneBlankIs
        <5>2. PICK l, qb : l = Len(OneBlank) /\ qb = q \o OneBlank
          OBVIOUS
        <5>3. qb \in Seq(Characters) /\ Len(qb) = k + l /\ l \in Nat
              /\ \A i \in 1..(k + l) : qb[i] = IF i <= k THEN q[i] ELSE OneBlank[i - k]
          BY <2>3, <4>3, <5>1, <5>2, ConcatProperties, LenProperties
        <5>4. 1 \in 1..(k + l) /\ 1 <= k
          BY <4>4, <5>3
        <5>5. qb[1] = q[1]
          BY <5>3, <5>4
        <5>6. Len(Append(qb, c)) = k + l + 1 /\ \A i \in 1..(k + l) : Append(qb, c)[i] = qb[i]
          BY <4>3, <5>2, <5>3, AppendProperties
        <5>7. QED
          BY <4>3, <5>2, <5>4, <5>5, <5>6
      <4>7. QED
        BY <2>3, <4>2, <4>5, <4>6
    <3>3. QED
      BY <3>1, <3>2
  <2>5. QED
    BY <2>1, <2>2, <2>4
<1>3. QED
  <2> HIDE DEF P
  <2>1. Seq(Characters) \subseteq P
    BY <1>1, <1>2, SequenceInduction
  <2>2. QED
    BY <2>1 DEF P

LEMMA PenEnds ==
    ASSUME NEW s \in Seq(Characters), Settled(s), Len(s) # 0
    PROVE  BrokenEnd(Pen(s)) <=> BrokenEnd(s)
<1>1. s # <<>>
  BY EmptySeq
<1>2. PICK v \in Seq(Characters), c \in Characters : s = Append(v, c)
  BY <1>1, SequenceEmptyOrAppend
<1>3. c \notin Whitespace /\ c # Blank
  BY <1>2, SettledIs, OneBlankIs
<1>4. PICK q : q = Pen(v)
  OBVIOUS
<1>5. /\ q \in Seq(Characters) /\ (Len(v) = 0 => q = <<>>)
      /\ Pen(s) = IF Len(v) # 0 /\ v[Len(v)] = Blank THEN Append(q \o OneBlank, c) ELSE Append(q, c)
  BY <1>2, <1>3, <1>4, PenAppend DEF PenAppends
<1>6. CASE Len(v) = 0
  <2>1. Len(q) = 0 /\ Pen(s) = Append(q, c)
    BY <1>5, <1>6
  <2>2. QED
    BY <1>2, <1>5, <1>6, <2>1, BrokenAppend
<1>7. CASE Len(v) # 0
  <2>1. v # <<>>
    BY <1>7, EmptySeq
  <2>2. PICK w \in Seq(Characters), d \in Characters : v = Append(w, d)
    BY <2>1, SequenceEmptyOrAppend
  <2>3. v[Len(v)] = d
    <3>1. Len(v) = Len(w) + 1 /\ v[Len(w) + 1] = d
      BY <2>2, AppendProperties
    <3>2. QED
      BY <3>1
  <2>4. BrokenEnd(s) <=> c = Hyphen /\ d \in WordChars
    BY <1>2, <2>2, BrokenAppend
  <2>5. CASE d = Blank
    <3>1. Pen(s) = Append(q \o OneBlank, c)
      BY <1>5, <1>7, <2>3, <2>5
    <3>2. q \o OneBlank = Append(q, Blank) /\ Blank \in Characters
      BY <1>5, OneBlankIs, AppendIsConcat DEF OneBlank
    <3>3. ~ BrokenEnd(Pen(s))
      BY <1>5, <3>1, <3>2, BrokenAppend, OneBlankIs, WordsAreSolid
    <3>4. QED
      BY <2>4, <2>5, <3>3, OneBlankIs, WordsAreSolid
  <2>6. CASE d # Blank
    <3>1. Pen(s) = Append(q, c)
      BY <1>5, <1>7, <2>3, <2>6
    <3>2. PICK r \in Seq(Characters) : q = Append(r, d)
      <4>1. PICK p, pb : p = Pen(w) /\ pb = p \o OneBlank
        OBVIOUS
      <4>2. p \in Seq(Characters) /\ (q = Append(pb, d) \/ q = Append(p, d))
        BY <1>4, <2>2, <2>6, <4>1, PenAppend DEF PenAppends
      <4>3. pb \in Seq(Characters)
        BY <4>1, <4>2, OneBlankIs, ConcatProperties
      <4>4. QED
        BY <4>2, <4>3
    <3>3. BrokenEnd(Pen(s)) <=> c = Hyphen /\ d \in WordChars
      BY <3>1, <3>2, BrokenAppend
    <3>4. QED
      BY <2>4, <3>3
  <2>7. QED
    BY <2>5, <2>6
<1>8. QED
  BY <1>6, <1>7

-----------------------------------------------------------------------------
(* A line and its stripped text.                                           *)

LEMMA BlankSpan ==
    ASSUME NEW t \in Seq(Characters \ {NewLine}), NEW i \in Int, NEW j \in Int, 1 <= i, j <= Len(t),
           \A k \in Solid(t) : k < i \/ k > j
    PROVE  SubSeq(t, i, j) \in Seq({Blank})
<1>1. PICK n \in Nat : n = Len(t)
  BY LenProperties
<1>2. \A k \in 1..n : t[k] \in Characters \ {NewLine}
  BY <1>1, ElementOfSeq
<1>3. DOMAIN t = 1..n
  BY <1>1, LenProperties
<1>4. \A k \in i..j : t[k] \in {Blank}
  <2>1. ASSUME NEW k \in i..j PROVE t[k] \in {Blank}
    <3>1. k \in 1..n /\ ~ (k < i) /\ ~ (k > j)
      BY <1>1, <2>1
    <3>2. k \notin Solid(t)
      BY <3>1
    <3>3. t[k] \in Whitespace
      BY <1>3, <3>1, <3>2 DEF Solid
    <3>4. QED
      BY <1>2, <3>1, <3>3 DEF Whitespace
  <2>2. QED
    BY <2>1
<1>5. QED
  BY <1>4, SubSeqProperties

\* What is stripped of a line are blanks.
StripsTo(t, b1, s, b2) ==
    /\ t = (b1 \o s) \o b2 /\ s = Strip(t)
    /\ b1 \in Seq({Blank}) /\ b2 \in Seq({Blank}) /\ s \in Seq(Characters \ {NewLine})
    /\ Len(s) # 0 /\ s[1] \notin Whitespace /\ Settled(s)

StripsWell(t) ==
    IF Len(Strip(t)) = 0 THEN t \in Seq({Blank}) ELSE \E b1, s, b2 : StripsTo(t, b1, s, b2)

LEMMA StripParts ==
    ASSUME NEW t \in Seq(Characters \ {NewLine})
    PROVE  StripsWell(t)
<1>1. PICK n \in Nat : n = Len(t)
  BY LenProperties
<1>2. t \in Seq(Characters)
  BY OneBlankIs
<1>3. /\ Solid(t) \in SUBSET (1..n) /\ IsFiniteSet(Solid(t))
      /\ Solid(t) # {} <=> t \notin Seq(Whitespace)
  BY <1>1, <1>2, SolidIs
<1>4. CASE Solid(t) = {}
  <2>1. PICK none : none = <<>>
    OBVIOUS
  <2>2. Strip(t) = none
    BY <1>4, <2>1 DEF Strip
  <2>3. Len(none) = 0
    BY <2>1
  <2>4. SubSeq(t, 1, n) \in Seq({Blank})
    BY <1>1, <1>4, BlankSpan
  <2>5. SubSeq(t, 1, n) = t
    BY <1>1, SubSeqFull
  <2>6. QED
    BY <2>2, <2>3, <2>4, <2>5 DEF StripsWell
<1>5. CASE Solid(t) # {}
  <2>1. PICK a, b, s : /\ a = Min(Solid(t)) /\ b = Max(Solid(t)) /\ s = SubSeq(t, a, b)
    OBVIOUS
  <2>2. Solid(t) \in SUBSET Int
    BY <1>3
  <2>3. a \in Solid(t) /\ \A x \in Solid(t) : a <= x
    BY <1>3, <1>5, <2>1, <2>2, LeastInteger
  <2>4. b \in Solid(t) /\ \A x \in Solid(t) : x <= b
    BY <1>3, <1>5, <2>1, <2>2, LargestInteger
  <2>5. a \in 1..n /\ b \in 1..n /\ a <= b
    BY <1>3, <2>3, <2>4
  <2>6. Strip(t) = s
    BY <1>5, <2>1 DEF Strip
  <2>7. /\ s \in Seq(Characters \ {NewLine}) /\ Len(s) = b - a + 1
        /\ \A k \in 1..(b - a + 1) : s[k] = t[a + k - 1]
    <3>1. /\ s \in Seq(Characters \ {NewLine}) /\ Len(s) = IF a <= b THEN b - a + 1 ELSE 0
          /\ \A k \in 1..(b - a + 1) : s[k] = t[a + k - 1]
      BY <1>1, <2>1, <2>5, PartOfText
    <3>2. QED
      BY <2>5, <3>1
  <2>8. t[a] \notin Whitespace /\ t[b] \notin Whitespace
    BY <2>3, <2>4 DEF Solid
  <2>9. Len(s) # 0 /\ s[1] = t[a] /\ s[Len(s)] = t[b]
    <3>1. /\ 1 \in 1..(b - a + 1) /\ a + 1 - 1 = a
          /\ b - a + 1 \in 1..(b - a + 1) /\ a + (b - a + 1) - 1 = b
      BY <2>5
    <3>2. Len(s) # 0
      BY <2>5, <2>7
    <3>3. QED
      BY <2>7, <3>1, <3>2
  <2>10. PICK x, y, z : x = SubSeq(t, 1, a - 1) /\ y = SubSeq(t, 1, b) /\ z = SubSeq(t, b + 1, n)
    OBVIOUS
  <2>11. x \in Seq({Blank})
    <3>1. a - 1 \in Int /\ 1 \in Int /\ a - 1 <= n /\ 1 <= 1
      BY <2>5
    <3>2. \A k \in Solid(t) : k < 1 \/ k > a - 1
      BY <2>2, <2>3, <2>5
    <3>3. QED
      BY <1>1, <2>10, <3>1, <3>2, BlankSpan
  <2>12. z \in Seq({Blank})
    <3>1. b + 1 \in Int /\ n \in Int /\ n <= n /\ 1 <= b + 1
      BY <2>5
    <3>2. \A k \in Solid(t) : k < b + 1 \/ k > n
      BY <2>2, <2>4, <2>5
    <3>3. QED
      BY <1>1, <2>10, <3>1, <3>2, BlankSpan
  <2>13. t = y \o z
    <3>1. 1 \in 1..(n + 1) /\ b \in (1 - 1)..n /\ n \in b..n
      BY <2>5
    <3>2. SubSeq(t, 1, b) \o SubSeq(t, b + 1, n) = SubSeq(t, 1, n)
      BY <1>1, <3>1, ConcatAdjacentSubSeq
    <3>3. SubSeq(t, 1, n) = t
      BY <1>1, SubSeqFull
    <3>4. QED
      BY <2>10, <3>2, <3>3
  <2>14. y = x \o s
    <3>1. 1 \in 1..(n + 1) /\ a - 1 \in (1 - 1)..n /\ b \in (a - 1)..n /\ (a - 1) + 1 = a
      BY <2>5
    <3>2. SubSeq(t, 1, a - 1) \o SubSeq(t, (a - 1) + 1, b) = SubSeq(t, 1, b)
      BY <1>1, <3>1, ConcatAdjacentSubSeq
    <3>3. QED
      BY <2>1, <2>10, <3>1, <3>2
  <2>15. StripsTo(t, x, s, z)
    BY <2>6, <2>7, <2>8, <2>9, <2>11, <2>12, <2>13, <2>14 DEF StripsTo, Settled
  <2>16. QED
    BY <2>6, <2>9, <2>15 DEF StripsWell
<1>6. QED
  BY <1>4, <1>5

LEMMA WithoutAgrees ==
    ASSUME NEW X, NEW D, NEW E
    PROVE  \A s \in Seq(X) :
              (\A i \in 1..Len(s) : s[i] \in D <=> s[i] \in E) => Without(s, D) = Without(s, E)
<1> DEFINE P == { s \in Seq(X) : (\A i \in 1..Len(s) : s[i] \in D <=> s[i] \in E)
                                    => Without(s, D) = Without(s, E) }
<1>1. <<>> \in P
  <2>1. PICK none : none = <<>>
    OBVIOUS
  <2>2. none \in Seq(X) /\ Without(none, D) = none /\ Without(none, E) = none
    <3>1. none \in Seq({0}) /\ 0 \in {0}
      BY <2>1
    <3>2. Without(<<>>, D) = <<>> /\ Without(<<>>, E) = <<>>
      BY <3>1, WithoutAppend
    <3>3. QED
      BY <2>1, <3>2
  <2>3. QED
    BY <2>1, <2>2
<1>2. ASSUME NEW s \in Seq(X), NEW x \in X, s \in P PROVE Append(s, x) \in P
  <2>1. PICK n \in Nat : n = Len(s)
    BY LenProperties
  <2>2. PICK t : t = Append(s, x)
    OBVIOUS
  <2>3. t \in Seq(X) /\ Len(t) = n + 1 /\ t[n + 1] = x /\ \A i \in 1..n : t[i] = s[i]
    BY <2>1, <2>2, AppendProperties
  <2>4. ASSUME \A i \in 1..Len(t) : t[i] \in D <=> t[i] \in E PROVE Without(t, D) = Without(t, E)
    <3>1. n + 1 \in 1..Len(t) /\ \A i \in 1..n : i \in 1..Len(t)
      BY <2>3
    <3>2. (x \in D <=> x \in E) /\ \A i \in 1..n : s[i] \in D <=> s[i] \in E
      BY <2>3, <2>4, <3>1
    <3>3. Without(s, D) = Without(s, E)
      BY <1>2, <2>1, <3>2
    <3>4. /\ Without(t, D) = IF x \in D THEN Without(s, D) ELSE Append(Without(s, D), x)
          /\ Without(t, E) = IF x \in E THEN Without(s, E) ELSE Append(Without(s, E), x)
      BY <2>2, WithoutAppend
    <3>5. QED
      BY <3>2, <3>3, <3>4
  <2>5. QED
    BY <2>2, <2>3, <2>4
<1>3. QED
  <2> HIDE DEF P
  <2>1. Seq(X) \subseteq P
    BY <1>1, <1>2, SequenceInduction
  <2>2. QED
    BY <2>1 DEF P

-----------------------------------------------------------------------------
(* A line behind a text, in the document as the code returns it.           *)

\* What is told of a text that ends in a solid character.
Tells(u, out) ==
    /\ u \in Seq(Characters) /\ Settled(u)
    /\ JoinHyphens(u) \in Seq(Characters) /\ Settled(JoinHyphens(u))
    /\ Len(JoinHyphens(u)) = 0 <=> Len(u) = 0
    /\ Prose(JoinHyphens(u)) = out

LineFollows(u, g, s, out, more) ==
    /\ Tells((u \o g) \o s, more) /\ Len((u \o g) \o s) # 0
    /\ BrokenEnd((u \o g) \o s) <=> BrokenEnd(Pen(s))
    /\ ~ Breaks(u, s) => more = (out \o GapFor(u, g)) \o Pen(s)
    /\ Breaks(u, s) => \E r \in Seq(Characters) : out = Append(r, Hyphen) /\ more = r \o Pen(s)

LEMMA EndsInGap ==
    ASSUME NEW u \in Seq(Characters), NEW g \in Seq(Whitespace), Len(u) # 0 => Len(g) # 0
    PROVE  Len(u \o g) = 0 \/ (u \o g)[Len(u \o g)] \in Whitespace
<1>1. PICK n \in Nat, m \in Nat : n = Len(u) /\ m = Len(g)
  BY LenProperties
<1>2. PICK x : x = u \o g
  OBVIOUS
<1>3. g \in Seq(Characters)
  BY BlankParts
<1>4. /\ Len(x) = n + m
      /\ \A i \in 1..(n + m) : x[i] = IF i <= n THEN u[i] ELSE g[i - n]
  BY <1>1, <1>2, <1>3, ConcatProperties
<1>5. CASE m = 0
  BY <1>1, <1>2, <1>4, <1>5
<1>6. CASE m # 0
  <2>1. n + m \in 1..(n + m) /\ ~ (n + m <= n) /\ n + m - n = m /\ m \in 1..m
    BY <1>6
  <2>2. x[n + m] = g[m]
    BY <1>4, <2>1
  <2>3. g[m] \in Whitespace
    BY <1>1, <2>1, ElementOfSeq
  <2>4. QED
    BY <1>2, <1>4, <2>2, <2>3
<1>7. QED
  BY <1>5, <1>6

\* A word broken at the end of the text goes on with the line.
LEMMA BrokenGoesOn ==
    ASSUME NEW r \in Seq(Characters), NEW s \in Seq(Characters \ {NewLine}),
           Len(s) # 0, s[1] \notin Whitespace
    PROVE  \E q \in Seq(Characters) :
              Prose(Append(r, Hyphen)) = Append(q, Hyphen) /\ Prose(r \o s) = q \o Pen(s)
<1>1. TailedIn(Characters, r)
  BY Tailed
<1>2. PICK v \in Seq(Characters), b \in Seq(Whitespace) : r = v \o b /\ Settled(v)
  <2>1. PICK v \in Seq(Characters), b \in Seq(Characters \cap Whitespace) : r = v \o b /\ Settled(v)
    BY <1>1 DEF TailedIn
  <2>2. Characters \cap Whitespace = Whitespace
    BY OneBlankIs
  <2>3. QED
    BY <2>1, <2>2
<1>3. ProseGoesOnWith(v, b, Hyphen)
  BY <1>2, HyphenIsSolid, ProseGoesOn
<1>4. ProseOfLine(v, b, s)
  BY <1>2, ProseLine
<1>5. PICK q : q = Prose(v) \o GapFor(v, b)
  OBVIOUS
<1>6. q \in Seq(Characters)
  BY <1>3, <1>5, ConcatProperties DEF ProseGoesOnWith
<1>7. Prose(Append(r, Hyphen)) = Append(q, Hyphen)
  BY <1>2, <1>3, <1>5 DEF ProseGoesOnWith
<1>8. Prose(r \o s) = q \o Pen(s)
  BY <1>2, <1>4, <1>5 DEF ProseOfLine
<1>9. QED
  BY <1>6, <1>7, <1>8

LEMMA LineJoins ==
    ASSUME NEW u, NEW out, Tells(u, out), NEW g \in Seq(Whitespace),
           NEW s \in Seq(Characters \ {NewLine}), Len(s) # 0, s[1] \notin Whitespace, Settled(s),
           Len(u) # 0 => \E i \in 1..Len(g) : g[i] = NewLine
    PROVE  \E more : LineFollows(u, g, s, out, more)
<1>0. /\ u \in Seq(Characters) /\ Settled(u)
      /\ JoinHyphens(u) \in Seq(Characters) /\ Settled(JoinHyphens(u))
      /\ Len(JoinHyphens(u)) = 0 <=> Len(u) = 0
      /\ Prose(JoinHyphens(u)) = out
  BY DEF Tells
<1>1. PICK J, x, w : J = JoinHyphens(u) /\ w = u \o g /\ x = w \o s
  OBVIOUS
<1>2. g \in Seq(Characters) /\ s \in Seq(Characters)
  BY BlankParts, OneBlankIs
<1>3. w \in Seq(Characters)
  BY <1>0, <1>1, <1>2, ConcatProperties
<1>4. Settled(x) /\ Len(x) # 0 /\ x \in Seq(Characters)
  BY <1>1, <1>2, <1>3, SettledJoins
<1>5. BrokenEnd(x) <=> BrokenEnd(Pen(s))
  <2>1. Len(u) # 0 => Len(g) # 0
    <3>1. Len(g) = 0 => ~ \E i \in 1..Len(g) : g[i] = NewLine
      OBVIOUS
    <3>2. QED
      BY <3>1
  <2>2. Len(w) = 0 \/ w[Len(w)] \in Whitespace
    BY <1>0, <1>1, <2>1, EndsInGap
  <2>3. BrokenBehind(w, s)
    BY <1>2, <1>3, BrokenConcat
  <2>4. BrokenEnd(x) <=> BrokenEnd(s)
    BY <1>1, <2>2, <2>3 DEF BrokenBehind
  <2>5. BrokenEnd(Pen(s)) <=> BrokenEnd(s)
    BY <1>2, PenEnds
  <2>6. QED
    BY <2>4, <2>5
<1>6. JoinsLine(u, g, s)
  BY <1>0, JoinedLine
<1>7. CASE ~ Breaks(u, s)
  <2>1. PICK y, z : y = J \o g /\ z = y \o s
    OBVIOUS
  <2>2. JoinHyphens(x) = z
    BY <1>1, <1>6, <1>7, <2>1 DEF JoinsLine
  <2>3. y \in Seq(Characters)
    BY <1>0, <1>1, <1>2, <2>1, ConcatProperties
  <2>4. Settled(z) /\ Len(z) # 0 /\ z \in Seq(Characters)
    BY <1>2, <2>1, <2>3, SettledJoins
  <2>5. ProseOfLine(J, g, s)
    BY <1>0, <1>1, ProseLine
  <2>6. GapFor(J, g) = GapFor(u, g)
    BY <1>0, <1>1 DEF GapFor
  <2>7. Prose(z) = (out \o GapFor(u, g)) \o Pen(s)
    BY <1>0, <1>1, <2>1, <2>5, <2>6 DEF ProseOfLine
  <2>8. Tells(x, Prose(z))
    BY <1>4, <2>2, <2>4 DEF Tells
  <2>9. LineFollows(u, g, s, out, Prose(z))
    BY <1>1, <1>4, <1>5, <1>7, <2>7, <2>8 DEF LineFollows
  <2>10. QED
    BY <2>9
<1>8. CASE Breaks(u, s)
  <2>1. PICK r \in Seq(Characters) : JoinHyphens(u) = Append(r, Hyphen) /\ JoinHyphens(x) = r \o s
    BY <1>1, <1>6, <1>8 DEF JoinsLine
  <2>2. PICK z : z = r \o s
    OBVIOUS
  <2>3. Settled(z) /\ Len(z) # 0 /\ z \in Seq(Characters)
    BY <1>2, <2>2, SettledJoins
  <2>4. PICK q \in Seq(Characters) :
           Prose(Append(r, Hyphen)) = Append(q, Hyphen) /\ Prose(r \o s) = q \o Pen(s)
    BY BrokenGoesOn
  <2>5. out = Append(q, Hyphen) /\ Prose(z) = q \o Pen(s)
    BY <1>0, <2>1, <2>2, <2>4
  <2>6. Tells(x, Prose(z))
    BY <1>4, <2>1, <2>2, <2>3 DEF Tells
  <2>7. LineFollows(u, g, s, out, Prose(z))
    BY <1>1, <1>4, <1>5, <1>8, <2>5, <2>6 DEF LineFollows
  <2>8. QED
    BY <2>7
<1>9. QED
  BY <1>7, <1>8

-----------------------------------------------------------------------------
(* The text of a document, without the lines of a set.                     *)

TextLines == Seq(Characters \ {NewLine})

EndOfLine == << NewLine >>

PageText(page, noise) == Join(Without(page, noise), EndOfLine)

PageTexts(doc, noise) == [p \in DOMAIN doc |-> PageText(doc[p], noise)]

Raw(doc, noise) == Join(PageTexts(doc, noise), Paragraph)

LEMMA EndOfLineIs ==
    /\ EndOfLine \in Seq(Characters) /\ EndOfLine \in Seq(Whitespace)
    /\ Len(EndOfLine) = 1 /\ EndOfLine[1] = NewLine
    /\ TextLines \subseteq Seq(Characters)
<1>1. PICK one : one = << NewLine >>
  OBVIOUS
<1>2. NewLine \in Whitespace /\ NewLine \in Characters
  BY OneBlankIs
<1>3. one \in Seq(Characters) /\ one \in Seq(Whitespace) /\ Len(one) = 1 /\ one[1] = NewLine
  BY <1>1, <1>2
<1>4. QED
  BY <1>1, <1>3, OneBlankIs DEF EndOfLine, TextLines

\* A page with one more line.
PageTextGrows(page, l, noise) ==
    /\ PageText(page, noise) \in Seq(Characters)
    /\ Without(page, noise) \in Seq(TextLines)
    /\ Len(Without(page, noise)) = 0 => PageText(page, noise) = <<>>
    /\ Without(Append(page, l), noise)
         = IF l \in noise THEN Without(page, noise) ELSE Append(Without(page, noise), l)
    /\ PageText(Append(page, l), noise)
         = IF l \in noise THEN PageText(page, noise)
           ELSE IF Len(Without(page, noise)) = 0 THEN l
           ELSE PageText(page, noise) \o (EndOfLine \o l)

LEMMA PageTextAppend ==
    ASSUME NEW noise, NEW page \in Seq(TextLines), NEW l \in TextLines
    PROVE  PageTextGrows(page, l, noise)
<1>1. PICK w : w = Without(page, noise)
  OBVIOUS
<1>2. w \in Seq(TextLines)
  BY <1>1, WithoutAll
<1>3. w \in Seq(Seq(Characters)) /\ l \in Seq(Characters)
  BY <1>2, EndOfLineIs, SeqMonotonic
<1>4. Without(Append(page, l), noise) = IF l \in noise THEN w ELSE Append(w, l)
  BY <1>1, WithoutAppend
<1>5. /\ Join(w, EndOfLine) \in Seq(Characters)
      /\ Len(w) = 0 => Join(w, EndOfLine) = <<>>
      /\ Join(Append(w, l), EndOfLine) = IF Len(w) = 0 THEN l ELSE Join(w, EndOfLine) \o (EndOfLine \o l)
  BY <1>3, EndOfLineIs, JoinAre
<1>6. QED
  BY <1>1, <1>2, <1>4, <1>5 DEF PageTextGrows, PageText

LEMMA PageTextIs ==
    ASSUME NEW noise, NEW page \in Seq(TextLines)
    PROVE  PageText(page, noise) \in Seq(Characters)
<1>1. PICK none : none = <<>>
  OBVIOUS
<1>2. none \in TextLines
  BY <1>1 DEF TextLines
<1>3. PageTextGrows(page, none, noise)
  BY <1>2, PageTextAppend
<1>4. QED
  BY <1>3 DEF PageTextGrows

\* A document with one more page.
PageTextsGrow(doc, page, noise) ==
    /\ PageTexts(doc, noise) \in Seq(Seq(Characters))
    /\ Len(PageTexts(doc, noise)) = Len(doc)
    /\ PageTexts(Append(doc, page), noise) = Append(PageTexts(doc, noise), PageText(page, noise))

LEMMA PageTextsAppend ==
    ASSUME NEW noise, NEW doc \in Seq(Seq(TextLines)), NEW page \in Seq(TextLines)
    PROVE  PageTextsGrow(doc, page, noise)
<1>1. PICK n \in Nat : n = Len(doc) /\ DOMAIN doc = 1..n
  BY LenProperties
<1>2. \A i \in 1..n : PageText(doc[i], noise) \in Seq(Characters)
  BY <1>1, ElementOfSeq, PageTextIs
<1>3. PageText(page, noise) \in Seq(Characters)
  BY PageTextIs
<1>4. PICK e, f, more :
        e = PageTexts(doc, noise) /\ f = PageTexts(more, noise) /\ more = Append(doc, page)
  OBVIOUS
<1>5. e = [i \in 1..n |-> PageText(doc[i], noise)]
  BY <1>1, <1>4 DEF PageTexts
<1>6. e \in Seq(Seq(Characters)) /\ Len(e) = n
  BY <1>2, <1>5
<1>7. /\ DOMAIN more = 1..(n + 1) /\ more[n + 1] = page /\ \A i \in 1..n : more[i] = doc[i]
  <2>1. more \in Seq(Seq(TextLines)) /\ Len(more) = n + 1
    BY <1>1, <1>4, AppendProperties
  <2>2. DOMAIN more = 1..(n + 1)
    BY <2>1, LenProperties
  <2>3. QED
    BY <1>1, <1>4, <2>2, AppendProperties
<1>8. f = [i \in 1..(n + 1) |-> PageText(more[i], noise)]
  BY <1>4, <1>7 DEF PageTexts
<1>9. \A i \in 1..(n + 1) : f[i] \in Seq(Characters)
  BY <1>2, <1>3, <1>7, <1>8
<1>10. f \in Seq(Seq(Characters)) /\ Len(f) = n + 1
  BY <1>8, <1>9
<1>11. PICK t, g : t = PageText(page, noise) /\ g = Append(e, t)
  OBVIOUS
<1>12. /\ g \in Seq(Seq(Characters)) /\ Len(g) = n + 1 /\ g[n + 1] = t
       /\ \A i \in 1..n : g[i] = e[i]
  BY <1>3, <1>6, <1>11, AppendProperties
<1>13. \A i \in 1..(n + 1) : f[i] = g[i]
  BY <1>5, <1>7, <1>8, <1>11, <1>12
<1>14. f = g
  BY <1>10, <1>12, <1>13, SeqEqual
<1>15. QED
  BY <1>1, <1>4, <1>6, <1>11, <1>14 DEF PageTextsGrow

RawGrows(doc, page, l, noise) ==
    /\ Raw(Append(doc, page), noise) \in Seq(Characters)
    /\ Raw(Append(doc, Append(page, l)), noise)
         = IF l \in noise THEN Raw(Append(doc, page), noise)
           ELSE IF Len(Without(page, noise)) = 0 THEN Raw(Append(doc, page), noise) \o l
           ELSE Raw(Append(doc, page), noise) \o (EndOfLine \o l)

LEMMA RawLine ==
    ASSUME NEW noise, NEW doc \in Seq(Seq(TextLines)), NEW page \in Seq(TextLines), NEW l \in TextLines
    PROVE  RawGrows(doc, page, l, noise)
<1>1. PICK e, p, more : /\ e = PageTexts(doc, noise) /\ p = PageText(page, noise)
                        /\ more = PageText(Append(page, l), noise)
  OBVIOUS
<1>2. Append(page, l) \in Seq(TextLines) /\ l \in Seq(Characters)
  BY AppendProperties, EndOfLineIs
<1>3. e \in Seq(Seq(Characters)) /\ Raw(Append(doc, page), noise) = Join(Append(e, p), Paragraph)
  <2>1. PageTextsGrow(doc, page, noise)
    BY PageTextsAppend
  <2>2. QED
    BY <1>1, <2>1 DEF PageTextsGrow, Raw
<1>4. Raw(Append(doc, Append(page, l)), noise) = Join(Append(e, more), Paragraph)
  <2>1. PageTextsGrow(doc, Append(page, l), noise)
    BY <1>2, PageTextsAppend
  <2>2. QED
    BY <1>1, <2>1 DEF PageTextsGrow, Raw
<1>5. /\ p \in Seq(Characters)
      /\ Len(Without(page, noise)) = 0 => p = <<>>
      /\ more = IF l \in noise THEN p
                ELSE IF Len(Without(page, noise)) = 0 THEN l ELSE p \o (EndOfLine \o l)
  <2>1. PageTextGrows(page, l, noise)
    BY PageTextAppend
  <2>2. QED
    BY <1>1, <2>1 DEF PageTextGrows
<1>6. Append(e, p) \in Seq(Seq(Characters)) /\ Paragraph \in Seq(Characters)
  BY <1>3, <1>5, AppendProperties, ParagraphIs
<1>7. Join(Append(e, p), Paragraph) \in Seq(Characters)
  BY <1>6, JoinAre
<1>8. Len(Without(page, noise)) = 0 => more = p \o l \/ l \in noise
  <2>1. <<>> \o l = l
    BY <1>2, ConcatEmptySeq
  <2>2. QED
    BY <1>5, <2>1
<1>9. JoinEndsWith(Paragraph, e, p, l)
  BY <1>2, <1>3, <1>5, <1>6, JoinEnds
<1>10. JoinEndsWith(Paragraph, e, p, EndOfLine \o l)
  <2>1. EndOfLine \o l \in Seq(Characters)
    BY <1>2, EndOfLineIs, ConcatProperties
  <2>2. QED
    BY <1>3, <1>5, <1>6, <2>1, JoinEnds
<1>11. CASE l \in noise
  BY <1>3, <1>4, <1>5, <1>7, <1>11 DEF RawGrows
<1>12. CASE l \notin noise /\ Len(Without(page, noise)) = 0
  BY <1>3, <1>4, <1>7, <1>8, <1>9, <1>12 DEF RawGrows, JoinEndsWith
<1>13. CASE l \notin noise /\ Len(Without(page, noise)) # 0
  BY <1>3, <1>4, <1>5, <1>7, <1>10, <1>13 DEF RawGrows, JoinEndsWith
<1>14. QED
  BY <1>11, <1>12, <1>13

\* A document with one more page that is empty so far.
RawTurns(doc, noise) ==
    /\ Raw(doc, noise) \in Seq(Characters)
    /\ Raw(Append(doc, <<>>), noise)
         = IF Len(doc) = 0 THEN Raw(doc, noise) ELSE Raw(doc, noise) \o Paragraph
    /\ Len(doc) = 0 => Raw(doc, noise) = <<>>
    /\ Without(<<>>, noise) = <<>>

LEMMA RawPage ==
    ASSUME NEW noise, NEW doc \in Seq(Seq(TextLines))
    PROVE  RawTurns(doc, noise)
<1>1. PICK none, e : none = <<>> /\ e = PageTexts(doc, noise)
  OBVIOUS
<1>2. none \in Seq(TextLines) /\ none \in Seq(Characters) /\ none \in TextLines /\ Len(none) = 0
  BY <1>1 DEF TextLines
<1>3. Without(none, noise) = none
  BY <1>1, <1>2, WithoutAppend
<1>4. PageText(none, noise) = none
  <2>1. PageTextGrows(none, none, noise)
    BY <1>2, PageTextAppend
  <2>2. QED
    BY <1>1, <1>2, <1>3, <2>1 DEF PageTextGrows
<1>5. /\ e \in Seq(Seq(Characters)) /\ Len(e) = Len(doc)
      /\ PageTexts(Append(doc, none), noise) = Append(e, none)
  <2>1. PageTextsGrow(doc, none, noise)
    BY <1>2, PageTextsAppend
  <2>2. QED
    BY <1>1, <1>4, <2>1 DEF PageTextsGrow
<1>6. /\ Join(e, Paragraph) \in Seq(Characters)
      /\ Len(e) = 0 => Join(e, Paragraph) = <<>>
      /\ Join(Append(e, none), Paragraph)
           = IF Len(e) = 0 THEN none ELSE Join(e, Paragraph) \o (Paragraph \o none)
  <2>1. none \in Seq(Characters) /\ Paragraph \in Seq(Characters) /\ e \in Seq(Seq(Characters))
    BY <1>2, <1>5, ParagraphIs
  <2>2. /\ Join(e, Paragraph) \in Seq(Characters)
        /\ Len(e) = 0 => Join(e, Paragraph) = <<>>
    BY <2>1, JoinAre
  <2>3. Join(Append(e, none), Paragraph)
           = IF Len(e) = 0 THEN none ELSE Join(e, Paragraph) \o (Paragraph \o none)
    BY <2>1, JoinAre
  <2>4. QED
    BY <2>2, <2>3
<1>7. Paragraph \o none = Paragraph
  BY <1>1, ParagraphIs, ConcatEmptySeq
<1>8. QED
  BY <1>1, <1>3, <1>5, <1>6, <1>7 DEF RawTurns, Raw

-----------------------------------------------------------------------------
(* The places of a document's lines.                                       *)

PlacesOn(p, page) == [i \in DOMAIN page |-> << p, i >>]

PlacesOnGrow(p, page, l) ==
    /\ PlacesOn(p, page) \in Seq(Nat \X Nat)
    /\ PlacesOn(p, Append(page, l)) = Append(PlacesOn(p, page), << p, Len(page) + 1 >>)
    /\ Len(page) = 0 => Len(PlacesOn(p, page)) = 0

LEMMA PlacesOnAppend ==
    ASSUME NEW p \in Nat, NEW page \in Seq(TextLines), NEW l \in TextLines
    PROVE  PlacesOnGrow(p, page, l)
<1>1. PICK n \in Nat : n = Len(page) /\ DOMAIN page = 1..n
  BY LenProperties
<1>2. PICK more, e, f, y : /\ more = Append(page, l) /\ e = PlacesOn(p, page)
                           /\ f = PlacesOn(p, more) /\ y = << p, n + 1 >>
  OBVIOUS
<1>3. DOMAIN more = 1..(n + 1)
  <2>1. more \in Seq(TextLines) /\ Len(more) = n + 1
    BY <1>1, <1>2, AppendProperties
  <2>2. QED
    BY <2>1, LenProperties
<1>4. e = [i \in 1..n |-> << p, i >>] /\ f = [i \in 1..(n + 1) |-> << p, i >>]
  BY <1>1, <1>2, <1>3 DEF PlacesOn
<1>5. y \in Nat \X Nat /\ n + 1 \in Nat /\ \A i \in 1..(n + 1) : << p, i >> \in Nat \X Nat
  BY <1>2
<1>6. e \in Seq(Nat \X Nat) /\ f \in Seq(Nat \X Nat) /\ Len(e) = n /\ Len(f) = n + 1
  <2>1. \A i \in 1..n : << p, i >> \in Nat \X Nat
    BY <1>5
  <2>2. e \in Seq(Nat \X Nat) /\ Len(e) = n
    BY <1>4, <2>1
  <2>3. f \in Seq(Nat \X Nat) /\ Len(f) = n + 1
    BY <1>4, <1>5
  <2>4. QED
    BY <2>2, <2>3
<1>7. PICK g : g = Append(e, y)
  OBVIOUS
<1>8. /\ g \in Seq(Nat \X Nat) /\ Len(g) = n + 1 /\ g[n + 1] = y
      /\ \A i \in 1..n : g[i] = e[i]
  BY <1>5, <1>6, <1>7, AppendProperties
<1>9. \A i \in 1..(n + 1) : f[i] = g[i]
  BY <1>2, <1>4, <1>8
<1>10. f = g
  BY <1>6, <1>8, <1>9, SeqEqual
<1>11. QED
  BY <1>1, <1>2, <1>6, <1>7, <1>10 DEF PlacesOnGrow

PlacesGrow(doc, page) ==
    /\ Places(doc) \in Seq(Nat \X Nat) /\ Places(Append(doc, page)) \in Seq(Nat \X Nat)
    /\ Places(Append(doc, page)) = Places(doc) \o PlacesOn(Len(doc) + 1, page)
    /\ Len(doc) = 0 => Places(doc) = <<>>

LEMMA PlacesAppend ==
    ASSUME NEW doc \in Seq(Seq(TextLines)), NEW page \in Seq(TextLines)
    PROVE  PlacesGrow(doc, page)
<1>1. PICK n \in Nat : n = Len(doc) /\ DOMAIN doc = 1..n
  BY LenProperties
<1>2. PICK more, f, g : /\ more = Append(doc, page)
                        /\ f = [p \in DOMAIN doc |-> PlacesOn(p, doc[p])]
                        /\ g = [p \in DOMAIN more |-> PlacesOn(p, more[p])]
  OBVIOUS
<1>3. /\ DOMAIN more = 1..(n + 1) /\ more[n + 1] = page
      /\ \A p \in 1..n : more[p] = doc[p]
      /\ \A p \in 1..(n + 1) : more[p] \in Seq(TextLines)
  <2>1. more \in Seq(Seq(TextLines)) /\ Len(more) = n + 1
    BY <1>1, <1>2, AppendProperties
  <2>2. DOMAIN more = 1..(n + 1)
    BY <2>1, LenProperties
  <2>3. \A p \in 1..(n + 1) : more[p] \in Seq(TextLines)
    BY <2>1, ElementOfSeq
  <2>4. QED
    BY <1>1, <1>2, <2>2, <2>3, AppendProperties
<1>4. \A p \in 1..(n + 1) : PlacesOn(p, more[p]) \in Seq(Nat \X Nat)
  <2>1. ASSUME NEW p \in 1..(n + 1) PROVE PlacesOn(p, more[p]) \in Seq(Nat \X Nat)
    <3>1. PICK none : none = <<>>
      OBVIOUS
    <3>2. none \in TextLines /\ p \in Nat /\ more[p] \in Seq(TextLines)
      BY <1>3, <3>1 DEF TextLines
    <3>3. PlacesOnGrow(p, more[p], none)
      BY <3>2, PlacesOnAppend
    <3>4. QED
      BY <3>3 DEF PlacesOnGrow
  <2>2. QED
    BY <2>1
<1>5. g \in [1..(n + 1) -> Seq(Nat \X Nat)]
  BY <1>2, <1>3, <1>4
<1>6. f \in [1..n -> Seq(Nat \X Nat)] /\ \A p \in 1..n : g[p] = f[p]
  <2>1. \A p \in 1..n : p \in 1..(n + 1) /\ more[p] = doc[p]
    BY <1>3
  <2>2. \A p \in 1..n : PlacesOn(p, doc[p]) = PlacesOn(p, more[p])
    BY <2>1
  <2>3. \A p \in 1..n : PlacesOn(p, doc[p]) \in Seq(Nat \X Nat)
    BY <1>4, <2>1
  <2>4. f \in [1..n -> Seq(Nat \X Nat)]
    BY <1>1, <1>2, <2>3
  <2>5. \A p \in 1..n : g[p] = f[p]
    BY <1>1, <1>2, <1>3, <2>1, <2>2
  <2>6. QED
    BY <2>4, <2>5
<1>7. GoesOnAs(Nat \X Nat, n, f, g)
  BY <1>5, <1>6 DEF GoesOnAs
<1>8. /\ FlattenSeq(f) \in Seq(Nat \X Nat) /\ FlattenSeq(g) \in Seq(Nat \X Nat)
      /\ FlattenSeq(g) = FlattenSeq(f) \o g[n + 1]
      /\ n = 0 => FlattenSeq(f) = <<>>
  <2>1. PICK X : X = Nat \X Nat
    OBVIOUS
  <2>2. GoesOnAs(X, n, f, g)
    BY <1>7, <2>1
  <2>3. FlattenSeq(f) \in Seq(X) /\ FlattenSeq(g) \in Seq(X)
    BY <2>2, FlattenGrows
  <2>4. FlattenSeq(g) = FlattenSeq(f) \o g[n + 1]
    <3>1. OneMoreFlattened(n, f, g)
      BY <2>2, FlattenOneMore
    <3>2. QED
      BY <3>1 DEF OneMoreFlattened
  <2>5. n = 0 => FlattenSeq(f) = <<>>
    BY <2>2, FlattenGrows
  <2>6. QED
    BY <2>1, <2>3, <2>4, <2>5
<1>9. g[n + 1] = PlacesOn(n + 1, page)
  <2>1. n + 1 \in 1..(n + 1)
    OBVIOUS
  <2>2. QED
    BY <1>2, <1>3, <2>1
<1>10. Places(doc) = FlattenSeq(f) /\ Places(more) = FlattenSeq(g)
  BY <1>2 DEF Places, PlacesOn
<1>11. QED
  BY <1>1, <1>2, <1>8, <1>9, <1>10 DEF PlacesGrow

\* One more line has one more place, and an empty page has none.
PlacesFollow(doc, page, l) ==
    /\ Places(Append(doc, page)) \in Seq(Nat \X Nat)
    /\ Places(Append(doc, Append(page, l)))
         = Append(Places(Append(doc, page)), << Len(doc) + 1, Len(page) + 1 >>)
    /\ Len(page) = 0 => Places(Append(doc, page)) = Places(doc)
    /\ Len(doc) = 0 => Places(doc) = <<>>

LEMMA PlacesOfLine ==
    ASSUME NEW doc \in Seq(Seq(TextLines)), NEW page \in Seq(TextLines), NEW l \in TextLines
    PROVE  PlacesFollow(doc, page, l)
<1>1. PICK n \in Nat : n = Len(doc)
  BY LenProperties
<1>2. PICK m \in Nat : m = Len(page)
  BY LenProperties
<1>3. PICK more, y, P, Q : /\ more = Append(page, l) /\ y = << n + 1, m + 1 >>
                           /\ P = Places(doc) /\ Q = PlacesOn(n + 1, page)
  OBVIOUS
<1>4. more \in Seq(TextLines) /\ n + 1 \in Nat /\ y \in Nat \X Nat
  BY <1>3, AppendProperties
<1>5. /\ P \in Seq(Nat \X Nat) /\ Places(Append(doc, page)) \in Seq(Nat \X Nat)
      /\ Places(Append(doc, page)) = P \o Q
      /\ n = 0 => P = <<>>
  BY <1>1, <1>3, PlacesAppend DEF PlacesGrow
<1>6. Places(Append(doc, more)) = P \o PlacesOn(n + 1, more)
  BY <1>1, <1>3, <1>4, PlacesAppend DEF PlacesGrow
<1>7. /\ Q \in Seq(Nat \X Nat)
      /\ PlacesOn(n + 1, more) = Append(Q, y)
      /\ m = 0 => Len(Q) = 0
  <2>1. PlacesOnGrow(n + 1, page, l)
    BY <1>4, PlacesOnAppend
  <2>2. QED
    BY <1>2, <1>3, <2>1 DEF PlacesOnGrow
<1>8. Append(P \o Q, y) = P \o Append(Q, y)
  <2>1. PICK X : X = Nat \X Nat
    OBVIOUS
  <2>2. PICK one, s : one = << y >> /\ s = P \o Q
    OBVIOUS
  <2>3. P \in Seq(X) /\ Q \in Seq(X) /\ y \in X
    BY <1>4, <1>5, <1>7, <2>1
  <2>4. one \in Seq(X) /\ s \in Seq(X)
    BY <2>2, <2>3, ConcatProperties
  <2>5. Append(s, y) = s \o one /\ Append(Q, y) = Q \o one
    BY <2>2, <2>3, <2>4, AppendIsConcat
  <2>6. (P \o Q) \o one = P \o (Q \o one)
    BY <2>3, <2>4, ConcatAssociative
  <2>7. QED
    BY <2>2, <2>5, <2>6
<1>9. m = 0 => P \o Q = P
  <2>1. m = 0 => Q = <<>>
    BY <1>7, EmptySeq
  <2>2. P \o <<>> = P
    BY <1>5, ConcatEmptySeq
  <2>3. QED
    BY <2>1, <2>2
<1>10. QED
  BY <1>1, <1>2, <1>3, <1>5, <1>6, <1>7, <1>8, <1>9 DEF PlacesFollow

-----------------------------------------------------------------------------
(* What the lines of a document tell.                                      *)

LinePlaces(full) == { x \in Nat \X Nat : x[1] \in 1..Len(full) /\ x[2] \in 1..Len(full[x[1]]) }

Says(full, x) == Written(LineAt(full, x))

Link(full, x, y) == IF ParagraphEnds(full, x, y) THEN Paragraph ELSE OneBlank

WordGoesOn(full, lines, i) ==
    i + 1 \in DOMAIN lines /\ GoesOn(Says(full, lines[i]), Says(full, lines[i + 1]))

GapAt(full, lines, i) ==
    IF i = 1 \/ WordGoesOn(full, lines, i - 1) THEN <<>> ELSE Link(full, lines[i - 1], lines[i])

Told(full, lines) ==
    FlattenSeq([i \in DOMAIN lines |->
        GapAt(full, lines, i) \o IF WordGoesOn(full, lines, i) THEN Front(Says(full, lines[i]))
                                 ELSE Says(full, lines[i])])

LEMMA SaysIs ==
    ASSUME NEW full \in Seq(Seq(TextLines)), NEW x \in LinePlaces(full)
    PROVE  /\ LineAt(full, x) \in TextLines
           /\ Says(full, x) = Pen(Strip(LineAt(full, x)))
           /\ Says(full, x) \in Seq(Characters)
<1>1. x[1] \in 1..Len(full) /\ x[2] \in 1..Len(full[x[1]])
  BY DEF LinePlaces
<1>2. full[x[1]] \in Seq(TextLines)
  BY <1>1, ElementOfSeq
<1>3. PICK l : l = LineAt(full, x)
  OBVIOUS
<1>4. l \in TextLines
  <2>1. full[x[1]][x[2]] \in TextLines
    BY <1>1, <1>2, ElementOfSeq
  <2>2. QED
    BY <1>3, <2>1 DEF LineAt
<1>5. Strip(l) \in Seq(Characters)
  BY <1>4, EndOfLineIs, StripIs
<1>6. Written(l) = Pen(Strip(l))
  BY DEF Written, Pen
<1>7. Pen(Strip(l)) \in Seq(Characters)
  <2>1. PenAppends(Strip(l), Hyphen)
    BY <1>5, HyphenIsSolid, PenAppend
  <2>2. QED
    BY <2>1 DEF PenAppends
<1>8. QED
  BY <1>3, <1>4, <1>6, <1>7 DEF Says

\* One more line changes what is told of the one before it, and no other.
ItemsStay(full, lines, y, more, n) ==
    /\ \A i \in 1..n : GapAt(full, more, i) = GapAt(full, lines, i) /\ more[i] = lines[i]
    /\ \A i \in 1..(n - 1) : WordGoesOn(full, more, i) <=> WordGoesOn(full, lines, i)
    /\ ~ WordGoesOn(full, lines, n) /\ ~ WordGoesOn(full, more, n + 1)
    /\ n # 0 => (WordGoesOn(full, more, n) <=> GoesOn(Says(full, lines[n]), Says(full, y)))
    /\ n = 0 => GapAt(full, more, n + 1) = <<>>
    /\ n # 0 /\ GoesOn(Says(full, lines[n]), Says(full, y)) => GapAt(full, more, n + 1) = <<>>
    /\ n # 0 /\ ~ GoesOn(Says(full, lines[n]), Says(full, y))
         => GapAt(full, more, n + 1) = Link(full, lines[n], y)

LEMMA ItemsFollow ==
    ASSUME NEW full, NEW X, NEW lines \in Seq(X), NEW y \in X, NEW n \in Nat, n = Len(lines)
    PROVE  ItemsStay(full, lines, y, Append(lines, y), n)
<1>1. PICK more : more = Append(lines, y)
  OBVIOUS
<1>2. /\ DOMAIN more = 1..(n + 1) /\ DOMAIN lines = 1..n /\ more[n + 1] = y
      /\ \A i \in 1..n : more[i] = lines[i]
  <2>1. more \in Seq(X) /\ Len(more) = n + 1
    BY <1>1, AppendProperties
  <2>2. DOMAIN more = 1..(n + 1) /\ DOMAIN lines = 1..n
    BY <2>1, LenProperties
  <2>3. QED
    BY <1>1, <2>2, AppendProperties
<1>3. \A i \in 1..(n - 1) : WordGoesOn(full, more, i) <=> WordGoesOn(full, lines, i)
  <2>1. ASSUME NEW i \in 1..(n - 1)
        PROVE  WordGoesOn(full, more, i) <=> WordGoesOn(full, lines, i)
    <3>1. i \in 1..n /\ i + 1 \in 1..n /\ i + 1 \in 1..(n + 1)
      OBVIOUS
    <3>2. more[i] = lines[i] /\ more[i + 1] = lines[i + 1]
      BY <1>2, <3>1
    <3>3. QED
      BY <1>2, <3>1, <3>2 DEF WordGoesOn
  <2>2. QED
    BY <2>1
<1>4. ~ WordGoesOn(full, lines, n) /\ ~ WordGoesOn(full, more, n + 1)
  <2>1. n + 1 \notin 1..n /\ n + 1 + 1 \notin 1..(n + 1)
    OBVIOUS
  <2>2. QED
    BY <1>2, <2>1 DEF WordGoesOn
<1>5. n # 0 => (WordGoesOn(full, more, n) <=> GoesOn(Says(full, lines[n]), Says(full, y)))
  <2>1. n # 0 => n \in 1..n /\ n + 1 \in 1..(n + 1)
    OBVIOUS
  <2>2. QED
    BY <1>2, <2>1 DEF WordGoesOn
<1>6. ASSUME NEW i \in 1..n PROVE GapAt(full, more, i) = GapAt(full, lines, i)
  <2>1. CASE i = 1
    BY <2>1 DEF GapAt
  <2>2. CASE i # 1
    <3>1. i - 1 \in 1..(n - 1) /\ i - 1 \in 1..n
      BY <2>2
    <3>2. WordGoesOn(full, more, i - 1) <=> WordGoesOn(full, lines, i - 1)
      BY <1>3, <3>1
    <3>3. more[i] = lines[i] /\ more[i - 1] = lines[i - 1]
      BY <1>2, <3>1
    <3>4. QED
      BY <3>2, <3>3 DEF GapAt
  <2>3. QED
    BY <2>1, <2>2
<1>7. n = 0 => GapAt(full, more, n + 1) = <<>>
  <2>1. n = 0 => n + 1 = 1
    OBVIOUS
  <2>2. QED
    BY <2>1 DEF GapAt
<1>8. n # 0 => GapAt(full, more, n + 1)
                 = IF WordGoesOn(full, more, n) THEN <<>> ELSE Link(full, lines[n], y)
  <2>1. n # 0 => n + 1 # 1 /\ n + 1 - 1 = n /\ n \in 1..n
    OBVIOUS
  <2>2. QED
    BY <1>2, <2>1 DEF GapAt
<1>9. QED
  BY <1>1, <1>2, <1>3, <1>4, <1>5, <1>6, <1>7, <1>8 DEF ItemsStay

\* What one line adds.
Item(full, lines, i) ==
    GapAt(full, lines, i) \o (IF WordGoesOn(full, lines, i) THEN Front(Says(full, lines[i]))
                              ELSE Says(full, lines[i]))

ItemsTyped(full, lines, n) ==
    \A i \in 1..n : /\ GapAt(full, lines, i) \in Seq(Characters)
                    /\ Says(full, lines[i]) \in Seq(Characters)
                    /\ Item(full, lines, i) \in Seq(Characters)

LEMMA ItemsAre ==
    ASSUME NEW full \in Seq(Seq(TextLines)), NEW lines \in Seq(LinePlaces(full)),
           NEW n \in Nat, n = Len(lines)
    PROVE  /\ ItemsTyped(full, lines, n)
           /\ Told(full, lines) = FlattenSeq([i \in 1..n |-> Item(full, lines, i)])
<1>1. DOMAIN lines = 1..n /\ \A i \in 1..n : lines[i] \in LinePlaces(full)
  BY LenProperties, ElementOfSeq
<1>2. PICK none : none = <<>>
  OBVIOUS
<1>3. none \in Seq(Characters) /\ Paragraph \in Seq(Characters) /\ OneBlank \in Seq(Characters)
  BY <1>2, ParagraphIs, OneBlankIs
<1>4. \A i \in 1..n : GapAt(full, lines, i) \in Seq(Characters)
  BY <1>2, <1>3 DEF GapAt, Link
<1>5. \A i \in 1..n : Says(full, lines[i]) \in Seq(Characters)
  BY <1>1, SaysIs
<1>6. ASSUME NEW i \in 1..n PROVE Item(full, lines, i) \in Seq(Characters)
  <2>1. PICK w : w = Says(full, lines[i])
    OBVIOUS
  <2>2. w \in Seq(Characters)
    BY <1>5, <2>1
  <2>3. PICK k \in Nat : k = Len(w)
    BY <2>2, LenProperties
  <2>4. k - 1 \in Int /\ 1 \in Int /\ 1 <= 1 /\ k - 1 <= Len(w)
    BY <2>3
  <2>5. SubSeq(w, 1, k - 1) \in Seq(Characters)
    BY <2>2, <2>4, PartOfText
  <2>6. Front(w) \in Seq(Characters)
    BY <2>3, <2>5 DEF Front
  <2>7. (IF WordGoesOn(full, lines, i) THEN Front(w) ELSE w) \in Seq(Characters)
    BY <2>2, <2>6
  <2>8. QED
    BY <1>4, <2>1, <2>7, ConcatProperties DEF Item
<1>7. ItemsTyped(full, lines, n)
  BY <1>4, <1>5, <1>6 DEF ItemsTyped
<1>8. Told(full, lines) = FlattenSeq([i \in 1..n |-> Item(full, lines, i)])
  BY <1>1 DEF Told, Item
<1>9. QED
  BY <1>7, <1>8

ToldGoesOn(full, lines, y, more, n) ==
    /\ Told(full, lines) \in Seq(Characters)
    /\ n = 0 => Told(full, lines) = <<>> /\ Told(full, more) = Says(full, y)
    /\ n # 0 /\ ~ GoesOn(Says(full, lines[n]), Says(full, y))
         => Told(full, more) = (Told(full, lines) \o Link(full, lines[n], y)) \o Says(full, y)
    /\ n # 0 /\ GoesOn(Says(full, lines[n]), Says(full, y))
         => \E r \in Seq(Characters) : /\ Told(full, lines) = Append(r, Hyphen)
                                       /\ Told(full, more) = r \o Says(full, y)

\* The word that goes on, without its hyphen.
LEMMA FrontOfBroken ==
    ASSUME NEW w \in Seq(Characters), NEW next, GoesOn(w, next)
    PROVE  Front(w) \in Seq(Characters) /\ w = Append(Front(w), Hyphen)
<1>1. Len(w) >= 2 /\ w[Len(w)] = Hyphen
  BY DEF GoesOn, Last
<1>2. w # <<>>
  BY <1>1
<1>3. PICK v \in Seq(Characters), c \in Characters : w = Append(v, c)
  BY <1>2, SequenceEmptyOrAppend
<1>4. PICK n \in Nat : n = Len(v)
  BY LenProperties
<1>5. Len(w) = n + 1 /\ w[n + 1] = c /\ \A i \in 1..n : w[i] = v[i]
  BY <1>3, <1>4, AppendProperties
<1>6. c = Hyphen
  BY <1>1, <1>5
<1>7. Front(w) = v
  <2>1. PICK f : f = SubSeq(w, 1, n)
    OBVIOUS
  <2>2. 1 \in Int /\ n \in Int /\ 1 <= 1 /\ n <= Len(w)
    BY <1>5
  <2>3. /\ f \in Seq(Characters) /\ Len(f) = IF 1 <= n THEN n - 1 + 1 ELSE 0
        /\ \A k \in 1..(n - 1 + 1) : f[k] = w[1 + k - 1]
    BY <2>1, <2>2, PartOfText
  <2>4. Len(f) = n
    BY <2>3
  <2>5. ASSUME NEW k \in 1..n PROVE f[k] = v[k]
    <3>1. k \in 1..(n - 1 + 1) /\ 1 + k - 1 = k
      OBVIOUS
    <3>2. QED
      BY <1>5, <2>3, <3>1
  <2>6. f = v
    BY <1>4, <2>3, <2>4, <2>5, SeqEqual
  <2>7. Len(w) - 1 = n
    BY <1>5
  <2>8. QED
    BY <2>1, <2>6, <2>7 DEF Front
<1>8. QED
  BY <1>3, <1>6, <1>7

LEMMA ToldFollows ==
    ASSUME NEW full \in Seq(Seq(TextLines)), NEW lines \in Seq(LinePlaces(full)),
           NEW y \in LinePlaces(full), NEW n \in Nat, n = Len(lines)
    PROVE  ToldGoesOn(full, lines, y, Append(lines, y), n)
<1>1. PICK more : more = Append(lines, y)
  OBVIOUS
<1>2. more \in Seq(LinePlaces(full)) /\ Len(more) = n + 1 /\ more[n + 1] = y
  BY <1>1, AppendProperties
<1>3. PICK f, g : /\ f = [i \in 1..n |-> Item(full, lines, i)]
                  /\ g = [i \in 1..(n + 1) |-> Item(full, more, i)]
  OBVIOUS
<1>4. ItemsTyped(full, lines, n) /\ Told(full, lines) = FlattenSeq(f)
  BY <1>3, ItemsAre
<1>5. ItemsTyped(full, more, n + 1) /\ Told(full, more) = FlattenSeq(g)
  <2>1. n + 1 \in Nat
    OBVIOUS
  <2>2. QED
    BY <1>2, <1>3, <2>1, ItemsAre
<1>6. ItemsStay(full, lines, y, more, n)
  BY <1>1, ItemsFollow
<1>7. /\ \A i \in 1..n : GapAt(full, more, i) = GapAt(full, lines, i) /\ more[i] = lines[i]
      /\ \A i \in 1..(n - 1) : WordGoesOn(full, more, i) <=> WordGoesOn(full, lines, i)
      /\ ~ WordGoesOn(full, lines, n) /\ ~ WordGoesOn(full, more, n + 1)
      /\ n # 0 => (WordGoesOn(full, more, n) <=> GoesOn(Says(full, lines[n]), Says(full, y)))
  BY <1>6 DEF ItemsStay
<1>8. f \in [1..n -> Seq(Characters)] /\ g \in [1..(n + 1) -> Seq(Characters)]
  BY <1>3, <1>4, <1>5 DEF ItemsTyped
<1>9. PICK said : said = Says(full, y)
  OBVIOUS
<1>10. said \in Seq(Characters)
  BY <1>9, SaysIs
<1>11. PICK after : after = GapAt(full, more, n + 1)
  OBVIOUS
<1>12. g[n + 1] = after \o said
  <2>1. n + 1 \in 1..(n + 1)
    OBVIOUS
  <2>2. QED
    BY <1>2, <1>3, <1>7, <1>9, <1>11, <2>1 DEF Item
<1>13. FlattenSeq(f) \in Seq(Characters)
  <2>1. f \in Seq(Seq(Characters))
    BY <1>8
  <2>2. QED
    BY <2>1, FlattenType
<1>14. \A i \in 1..(n - 1) : g[i] = f[i]
  <2>1. \A i \in 1..(n - 1) : i \in 1..n /\ i \in 1..(n + 1)
    OBVIOUS
  <2>2. QED
    BY <1>3, <1>7, <2>1 DEF Item
<1>15. CASE n = 0 \/ ~ GoesOn(Says(full, lines[n]), said)
  <2>1. \A i \in 1..n : g[i] = f[i]
    <3>1. ASSUME NEW i \in 1..n PROVE g[i] = f[i]
      <4>1. CASE i # n
        <5>1. i \in 1..(n - 1)
          BY <4>1
        <5>2. QED
          BY <1>14, <5>1
      <4>2. CASE i = n
        <5>1. n # 0 /\ n \in 1..n /\ n \in 1..(n + 1)
          BY <4>2
        <5>2. ~ WordGoesOn(full, more, n)
          BY <1>7, <1>9, <1>15, <5>1
        <5>3. f[n] = Item(full, lines, n) /\ g[n] = Item(full, more, n)
          BY <1>3, <5>1
        <5>4. GapAt(full, more, n) = GapAt(full, lines, n) /\ more[n] = lines[n]
          BY <1>7, <5>1
        <5>5. QED
          BY <1>7, <4>2, <5>2, <5>3, <5>4 DEF Item
      <4>3. QED
        BY <4>1, <4>2
    <3>2. QED
      BY <3>1
  <2>2. GoesOnAs(Characters, n, f, g)
    BY <1>8, <2>1 DEF GoesOnAs
  <2>3. FlattenSeq(g) = FlattenSeq(f) \o (after \o said)
    <3>1. OneMoreFlattened(n, f, g)
      BY <2>2, FlattenOneMore
    <3>2. QED
      BY <1>12, <3>1 DEF OneMoreFlattened
  <2>4. CASE n = 0
    <3>1. after = <<>>
      BY <1>6, <1>11, <2>4 DEF ItemsStay
    <3>2. FlattenSeq(f) = <<>>
      BY <2>2, <2>4, FlattenGrows
    <3>3. <<>> \o said = said
      BY <1>10, ConcatEmptySeq
    <3>4. FlattenSeq(g) = said
      BY <2>3, <3>1, <3>2, <3>3
    <3>5. QED
      BY <1>1, <1>4, <1>5, <1>9, <1>13, <2>4, <3>2, <3>4 DEF ToldGoesOn
  <2>5. CASE n # 0
    <3>1. after = Link(full, lines[n], y)
      BY <1>6, <1>9, <1>11, <1>15, <2>5 DEF ItemsStay
    <3>2. after \in Seq(Characters)
      BY <3>1, ParagraphIs, OneBlankIs DEF Link
    <3>3. FlattenSeq(f) \o (after \o said) = (FlattenSeq(f) \o after) \o said
      BY <1>10, <1>13, <3>2, ConcatAssociative, SMTT(30)
    <3>4. FlattenSeq(g) = (FlattenSeq(f) \o Link(full, lines[n], y)) \o said
      BY <2>3, <3>1, <3>3
    <3>5. QED
      BY <1>1, <1>4, <1>5, <1>9, <1>13, <1>15, <2>5, <3>4 DEF ToldGoesOn
  <2>6. QED
    BY <2>4, <2>5
<1>16. CASE n # 0 /\ GoesOn(Says(full, lines[n]), said)
  <2>1. PICK m \in Nat : n = m + 1
    <3>1. n - 1 \in Nat /\ n = (n - 1) + 1
      BY <1>16
    <3>2. QED
      BY <3>1
  <2>2. PICK w, v, before : w = Says(full, lines[n]) /\ v = Front(w) /\ before = GapAt(full, lines, n)
    OBVIOUS
  <2>3. n \in 1..n /\ n \in 1..(n + 1)
    BY <1>16
  <2>4. w \in Seq(Characters) /\ before \in Seq(Characters)
    BY <1>4, <2>2, <2>3 DEF ItemsTyped
  <2>5. v \in Seq(Characters) /\ w = Append(v, Hyphen)
    BY <1>16, <2>2, <2>4, FrontOfBroken
  <2>6. f[n] = before \o w
    BY <1>3, <1>7, <2>2, <2>3 DEF Item
  <2>7. g[n] = before \o v
    <3>1. g[n] = Item(full, more, n)
      BY <1>3, <2>3
    <3>2. WordGoesOn(full, more, n)
      BY <1>7, <1>9, <1>16
    <3>3. GapAt(full, more, n) = before /\ more[n] = lines[n]
      BY <1>7, <2>2, <2>3
    <3>4. QED
      BY <2>2, <3>1, <3>2, <3>3 DEF Item
  <2>8. after = <<>>
    BY <1>6, <1>9, <1>11, <1>16 DEF ItemsStay
  <2>9. g[n + 1] = said
    <3>1. <<>> \o said = said
      BY <1>10, ConcatEmptySeq
    <3>2. QED
      BY <1>12, <2>8, <3>1
  <2>10. PICK h, k : h = [i \in 1..m |-> f[i]] /\ k = [i \in 1..(m + 1) |-> g[i]]
    OBVIOUS
  <2>11. /\ h \in [1..m -> Seq(Characters)] /\ k \in [1..(m + 1) -> Seq(Characters)]
         /\ f \in [1..(m + 1) -> Seq(Characters)]
    <3>1. \A i \in 1..m : i \in 1..n /\ f[i] \in Seq(Characters)
      BY <1>8, <2>1
    <3>2. \A i \in 1..(m + 1) : i \in 1..(n + 1) /\ g[i] \in Seq(Characters)
      BY <1>8, <2>1
    <3>3. QED
      BY <1>8, <2>1, <2>10, <3>1, <3>2
  <2>12. \A i \in 1..m : f[i] = h[i] /\ k[i] = h[i]
    <3>1. \A i \in 1..m : i \in 1..(m + 1) /\ i \in 1..(n - 1)
      BY <2>1
    <3>2. QED
      BY <1>14, <2>10, <3>1
  <2>13. PICK F : F = FlattenSeq(h)
    OBVIOUS
  <2>14. F \in Seq(Characters)
    BY <2>11, <2>13, FlattenType
  <2>15. FlattenSeq(f) = F \o f[n]
    <3>1. GoesOnAs(Characters, m, h, f)
      BY <2>11, <2>12 DEF GoesOnAs
    <3>2. OneMoreFlattened(m, h, f)
      BY <3>1, FlattenOneMore
    <3>3. QED
      BY <2>1, <2>13, <3>2 DEF OneMoreFlattened
  <2>16. FlattenSeq(k) = F \o g[n]
    <3>1. GoesOnAs(Characters, m, h, k)
      BY <2>11, <2>12 DEF GoesOnAs
    <3>2. OneMoreFlattened(m, h, k)
      BY <3>1, FlattenOneMore
    <3>3. m + 1 \in 1..(m + 1)
      OBVIOUS
    <3>4. QED
      BY <2>1, <2>10, <2>13, <3>2, <3>3 DEF OneMoreFlattened
  <2>17. FlattenSeq(g) = FlattenSeq(k) \o said
    <3>1. \A i \in 1..n : g[i] = k[i]
      BY <2>1, <2>10
    <3>2. k \in [1..n -> Seq(Characters)]
      BY <2>1, <2>11
    <3>3. GoesOnAs(Characters, n, k, g)
      BY <1>8, <3>1, <3>2 DEF GoesOnAs
    <3>4. OneMoreFlattened(n, k, g)
      BY <3>3, FlattenOneMore
    <3>5. QED
      BY <2>9, <3>4 DEF OneMoreFlattened
  <2>18. PICK bv, r : bv = before \o v /\ r = F \o bv
    OBVIOUS
  <2>19. bv \in Seq(Characters) /\ r \in Seq(Characters) /\ Hyphen \in Characters
    BY <2>4, <2>5, <2>14, <2>18, ConcatProperties, HyphenIsSolid
  <2>20. f[n] = Append(bv, Hyphen)
    BY <2>4, <2>5, <2>6, <2>18, <2>19, TextAppend
  <2>21. FlattenSeq(f) = Append(r, Hyphen)
    <3>1. Append(F \o bv, Hyphen) = F \o Append(bv, Hyphen)
      BY <2>14, <2>19, TextAppend
    <3>2. QED
      BY <2>15, <2>18, <2>20, <3>1
  <2>22. FlattenSeq(g) = r \o said
    BY <2>7, <2>16, <2>17, <2>18
  <2>23. Told(full, lines) = Append(r, Hyphen) /\ Told(full, more) = r \o said
    BY <1>4, <1>5, <2>21, <2>22
  <2>24. QED
    BY <1>1, <1>4, <1>9, <1>13, <1>16, <2>19, <2>23 DEF ToldGoesOn
<1>17. QED
  BY <1>15, <1>16

-----------------------------------------------------------------------------
(* Gaps with an empty line.                                                *)

LEMMA PairAppend ==
    ASSUME NEW t \in Seq(Characters), NEW c \in Characters
    PROVE  /\ Pair(Append(t, c)) <=> Pair(t) \/ (Len(t) # 0 /\ t[Len(t)] = NewLine /\ c = NewLine)
           /\ Len(t) = 0 => ~ Pair(t)
<1>1. PICK n \in Nat : n = Len(t)
  BY LenProperties
<1>2. PICK x : x = Append(t, c)
  OBVIOUS
<1>3. Len(x) = n + 1 /\ x[n + 1] = c /\ \A i \in 1..n : x[i] = t[i]
  BY <1>1, <1>2, AppendProperties
<1>4. ASSUME Pair(t) PROVE Pair(x)
  <2>1. PICK i \in 1..(n - 1) : t[i] = NewLine /\ t[i + 1] = NewLine
    BY <1>1, <1>4 DEF Pair
  <2>2. i \in 1..n /\ i + 1 \in 1..n /\ i \in 1..(n + 1 - 1)
    OBVIOUS
  <2>3. QED
    BY <1>3, <2>1, <2>2 DEF Pair
<1>5. ASSUME n # 0, t[n] = NewLine, c = NewLine PROVE Pair(x)
  <2>1. n \in 1..n /\ n \in 1..(n + 1 - 1)
    BY <1>5
  <2>2. QED
    BY <1>3, <1>5, <2>1 DEF Pair
<1>6. ASSUME Pair(x) PROVE Pair(t) \/ (n # 0 /\ t[n] = NewLine /\ c = NewLine)
  <2>1. PICK i \in 1..(n + 1 - 1) : x[i] = NewLine /\ x[i + 1] = NewLine
    BY <1>3, <1>6 DEF Pair
  <2>2. CASE i = n
    <3>1. n # 0 /\ n \in 1..n
      BY <2>2
    <3>2. QED
      BY <1>3, <2>1, <2>2, <3>1
  <2>3. CASE i # n
    <3>1. i \in 1..n /\ i + 1 \in 1..n /\ i \in 1..(n - 1)
      BY <2>3
    <3>2. t[i] = NewLine /\ t[i + 1] = NewLine
      BY <1>3, <2>1, <3>1
    <3>3. QED
      BY <1>1, <3>1, <3>2 DEF Pair
  <2>4. QED
    BY <2>2, <2>3
<1>7. ASSUME n = 0 PROVE ~ Pair(t)
  <2>1. 1..(n - 1) = {}
    BY <1>7
  <2>2. QED
    BY <1>1, <2>1 DEF Pair
<1>8. QED
  BY <1>1, <1>2, <1>4, <1>5, <1>6, <1>7

LEMMA BlanksAre ==
    ASSUME NEW b \in Seq({Blank})
    PROVE  /\ b \in Seq(Whitespace) /\ b \in Seq(Characters)
           /\ Blank \in Characters /\ NewLine \in Characters /\ Blank # NewLine
BY OneBlankIs, BlankParts

\* Blanks neither make nor unmake one.
LEMMA PairOfBlanks ==
    ASSUME NEW x \in Seq(Characters)
    PROVE  \A b \in Seq({Blank}) : Pair(x \o b) <=> Pair(x)
<1> DEFINE P == { b \in Seq({Blank}) : Pair(x \o b) <=> Pair(x) }
<1>1. <<>> \in P
  <2>1. PICK none : none = <<>>
    OBVIOUS
  <2>2. none \in Seq({Blank}) /\ x \o none = x
    BY <2>1, ConcatEmptySeq
  <2>3. QED
    BY <2>1, <2>2
<1>2. ASSUME NEW b \in Seq({Blank}), NEW c \in {Blank}, b \in P PROVE Append(b, c) \in P
  <2>1. b \in Seq(Characters) /\ c \in Characters /\ c # NewLine
    BY BlanksAre
  <2>2. PICK y : y = x \o b
    OBVIOUS
  <2>3. y \in Seq(Characters)
    BY <2>1, <2>2, ConcatProperties
  <2>4. x \o Append(b, c) = Append(y, c)
    BY <2>1, <2>2, TextAppend
  <2>5. Pair(Append(y, c)) <=> Pair(y)
    BY <2>1, <2>3, PairAppend
  <2>6. Append(b, c) \in Seq({Blank})
    BY AppendProperties
  <2>7. QED
    BY <1>2, <2>2, <2>4, <2>5, <2>6
<1>3. QED
  <2> HIDE DEF P
  <2>1. Seq({Blank}) \subseteq P
    BY <1>1, <1>2, SequenceInduction
  <2>2. QED
    BY <2>1 DEF P

\* Of a text that ends a line, and blanks.
LEMMA PairBehindBlanks ==
    ASSUME NEW x \in Seq(Characters), NEW b \in Seq({Blank}),
           Len(x) = 0 \/ x[Len(x)] = NewLine
    PROVE  Pair(Append(x \o b, NewLine)) <=> Pair(x) \/ (Len(x) # 0 /\ Len(b) = 0)
<1>1. b \in Seq(Characters) /\ Blank \in Characters /\ NewLine \in Characters /\ Blank # NewLine
  BY BlanksAre
<1>2. PICK y : y = x \o b
  OBVIOUS
<1>3. y \in Seq(Characters) /\ (Pair(y) <=> Pair(x))
  BY <1>1, <1>2, ConcatProperties, PairOfBlanks
<1>4. Pair(Append(y, NewLine)) <=> Pair(y) \/ (Len(y) # 0 /\ y[Len(y)] = NewLine)
  BY <1>1, <1>3, PairAppend
<1>5. CASE Len(b) = 0
  <2>1. b = <<>> /\ x \o <<>> = x
    BY <1>5, EmptySeq, ConcatEmptySeq
  <2>2. y = x
    BY <1>2, <2>1
  <2>3. QED
    BY <1>2, <1>3, <1>4, <1>5, <2>2
<1>6. CASE Len(b) # 0
  <2>1. b # <<>>
    BY <1>6, EmptySeq
  <2>2. PICK d \in Seq({Blank}), c \in {Blank} : b = Append(d, c)
    <3>1. PICK X : X = {Blank}
      OBVIOUS
    <3>2. b \in Seq(X)
      BY <3>1
    <3>3. \E d \in Seq(X), c \in X : b = Append(d, c)
      BY <2>1, <3>2, SequenceEmptyOrAppend
    <3>4. QED
      BY <3>1, <3>3
  <2>3. PICK z : z = x \o d
    OBVIOUS
  <2>4. d \in Seq(Characters) /\ c \in Characters /\ c # NewLine
    BY <1>1, <2>2, BlanksAre
  <2>5. z \in Seq(Characters)
    BY <2>3, <2>4, ConcatProperties
  <2>6. y = Append(z, c)
    BY <1>2, <2>2, <2>3, <2>4, TextAppend
  <2>7. y[Len(y)] = c
    <3>1. Len(y) = Len(z) + 1 /\ y[Len(z) + 1] = c
      BY <2>4, <2>5, <2>6, AppendProperties
    <3>2. QED
      BY <3>1
  <2>8. QED
    BY <1>2, <1>3, <1>4, <1>6, <2>4, <2>7
<1>7. QED
  BY <1>5, <1>6

\* A gap that goes on with the end of a line, and the blanks of the next.
GapGrows(g, x, b) ==
    /\ x \in Seq(Whitespace) /\ x \o b \in Seq(Whitespace)
    /\ Pair(x \o b) <=> Pair(x)
    /\ Pair((x \o b) \o EndOfLine) <=> Pair(x) \/ Len(b) = 0
    /\ \E i \in 1..Len(x \o b) : (x \o b)[i] = NewLine

LEMMA GapOfLine ==
    ASSUME NEW g \in Seq(Whitespace), NEW b \in Seq({Blank})
    PROVE  GapGrows(g, g \o EndOfLine, b)
<1>1. PICK x, y : x = g \o EndOfLine /\ y = x \o b
  OBVIOUS
<1>2. /\ g \in Seq(Characters) /\ b \in Seq(Characters) /\ b \in Seq(Whitespace)
      /\ EndOfLine \in Seq(Whitespace) /\ EndOfLine \in Seq(Characters) /\ NewLine \in Characters
  BY BlankParts, BlanksAre, EndOfLineIs
<1>3. x \in Seq(Whitespace) /\ x \in Seq(Characters) /\ y \in Seq(Whitespace) /\ y \in Seq(Characters)
  <2>1. x \in Seq(Whitespace)
    BY <1>1, <1>2, ConcatProperties
  <2>2. y \in Seq(Whitespace)
    BY <1>1, <1>2, <2>1, ConcatProperties
  <2>3. QED
    BY <2>1, <2>2, BlankParts
<1>4. PICK n \in Nat, m \in Nat : n = Len(g) /\ m = Len(b)
  BY <1>2, LenProperties
<1>5. Len(x) = n + 1 /\ x[n + 1] = NewLine
  <2>1. x = Append(g, NewLine)
    BY <1>1, <1>2, AppendIsConcat DEF EndOfLine
  <2>2. QED
    BY <1>2, <1>4, <2>1, AppendProperties
<1>6. y \o EndOfLine = Append(y, NewLine)
  BY <1>2, <1>3, AppendIsConcat DEF EndOfLine
<1>7. Pair(Append(y, NewLine)) <=> Pair(x) \/ Len(b) = 0
  <2>1. Len(x) # 0 /\ x[Len(x)] = NewLine
    BY <1>5
  <2>2. QED
    BY <1>1, <1>3, <2>1, PairBehindBlanks
<1>8. Pair(y) <=> Pair(x)
  BY <1>1, <1>3, PairOfBlanks
<1>9. \E i \in 1..Len(y) : y[i] = NewLine
  <2>1. PICK k \in Nat : k = n + 1
    OBVIOUS
  <2>2. Len(x) = k /\ x[k] = NewLine
    BY <1>5, <2>1
  <2>3. Len(y) = k + m /\ \A i \in 1..(k + m) : y[i] = IF i <= k THEN x[i] ELSE b[i - k]
    <3>1. x \in Seq(Characters) /\ b \in Seq(Characters)
      BY <1>2, <1>3
    <3>2. /\ Len(x \o b) = Len(x) + Len(b)
          /\ \A i \in 1..(Len(x) + Len(b)) : (x \o b)[i] = IF i <= Len(x) THEN x[i] ELSE b[i - Len(x)]
      BY <3>1, ConcatProperties
    <3>3. QED
      BY <1>1, <1>4, <2>2, <3>2
  <2>4. k \in 1..(k + m) /\ k <= k
    BY <2>1
  <2>5. QED
    BY <2>2, <2>3, <2>4
<1>10. QED
  BY <1>1, <1>3, <1>6, <1>7, <1>8, <1>9 DEF GapGrows

\* Blanks at the end of a line are no gap of their own.
LEMMA BlanksEndNothing ==
    ASSUME NEW b \in Seq({Blank})
    PROVE  ~ Pair(b \o EndOfLine)
<1>1. PICK none : none = <<>>
  OBVIOUS
<1>2. /\ none \in Seq(Characters) /\ Len(none) = 0 /\ b \in Seq(Characters)
      /\ NewLine \in Characters
  BY <1>1, BlanksAre
<1>3. ~ Pair(none)
  BY <1>2, PairAppend
<1>4. none \o b = b
  BY <1>1, <1>2, ConcatEmptySeq
<1>5. ~ Pair(Append(none \o b, NewLine))
  BY <1>2, <1>3, PairBehindBlanks
<1>6. b \o EndOfLine = Append(b, NewLine)
  BY <1>2, AppendIsConcat DEF EndOfLine
<1>7. QED
  BY <1>4, <1>5, <1>6

\* A gap with an empty line keeps it, and a page's end is one.
LEMMA PairStays ==
    ASSUME NEW g \in Seq(Whitespace), NEW h \in Seq(Whitespace)
    PROVE  /\ Pair(g) \/ Pair(h) => Pair(g \o h)
           /\ g \o h \in Seq(Whitespace) /\ Pair(Paragraph)
           /\ Pair(g) => \E i \in 1..Len(g) : g[i] = NewLine
<1>1. PICK n \in Nat, m \in Nat : n = Len(g) /\ m = Len(h)
  BY LenProperties
<1>2. PICK x : x = g \o h
  OBVIOUS
<1>3. /\ x \in Seq(Whitespace) /\ Len(x) = n + m
      /\ \A i \in 1..(n + m) : x[i] = IF i <= n THEN g[i] ELSE h[i - n]
  BY <1>1, <1>2, ConcatProperties
<1>4. ASSUME Pair(g) PROVE Pair(x) /\ \E i \in 1..n : g[i] = NewLine
  <2>1. PICK i \in 1..(n - 1) : g[i] = NewLine /\ g[i + 1] = NewLine
    BY <1>1, <1>4 DEF Pair
  <2>2. /\ i \in 1..(n + m) /\ i <= n /\ i + 1 \in 1..(n + m) /\ i + 1 <= n
        /\ i \in 1..(n + m - 1) /\ i \in 1..n
    OBVIOUS
  <2>3. x[i] = NewLine /\ x[i + 1] = NewLine
    BY <1>3, <2>1, <2>2
  <2>4. Pair(x)
    BY <1>3, <2>2, <2>3 DEF Pair
  <2>5. QED
    BY <2>1, <2>2, <2>4
<1>5. ASSUME Pair(h) PROVE Pair(x)
  <2>1. PICK i \in 1..(m - 1) : h[i] = NewLine /\ h[i + 1] = NewLine
    BY <1>1, <1>5 DEF Pair
  <2>2. /\ n + i \in 1..(n + m) /\ ~ (n + i <= n) /\ n + i - n = i
        /\ n + i + 1 \in 1..(n + m) /\ ~ (n + i + 1 <= n) /\ n + i + 1 - n = i + 1
        /\ n + i \in 1..(n + m - 1)
    OBVIOUS
  <2>3. x[n + i] = NewLine /\ x[n + i + 1] = NewLine
    BY <1>3, <2>1, <2>2
  <2>4. QED
    BY <1>3, <2>2, <2>3 DEF Pair
<1>6. Pair(Paragraph)
  <2>1. 1 \in 1..(Len(Paragraph) - 1) /\ Paragraph[1] = NewLine /\ Paragraph[1 + 1] = NewLine
    BY ParagraphIs
  <2>2. QED
    BY <2>1 DEF Pair
<1>7. QED
  BY <1>1, <1>2, <1>3, <1>4, <1>5, <1>6

-----------------------------------------------------------------------------
(* A document, line by line.                                               *)

\* As much of a document as was read.
ReadOf(full, doc) ==
    /\ Len(doc) <= Len(full)
    /\ \A p \in 1..Len(doc) : /\ Len(doc[p]) <= Len(full[p])
                              /\ \A i \in 1..Len(doc[p]) : doc[p][i] = full[p][i]

\* What is dropped are the lines that are noise and those without words.
Sorts(full, noise, dropped) ==
    /\ \A l \in noise : Len(Strip(l)) # 0
    /\ \A x \in LinePlaces(full) :
          x \in dropped <=> Len(Strip(LineAt(full, x))) = 0 \/ LineAt(full, x) \in noise

KeptLines(doc, dropped) == Without(Places(doc), dropped)

LastOfLines(lines) == lines[Len(lines)]

\* The text so far is a settled one and white space, and tells what the lines do.
ReachedBy(full, noise, doc, lines, u, g) ==
    /\ lines \in Seq(LinePlaces(full))
    /\ Raw(doc, noise) = u \o g /\ g \in Seq(Whitespace)
    /\ Tells(u, Told(full, lines))
    /\ Len(lines) = 0 => Len(u) = 0
    /\ Len(lines) # 0 => /\ Len(u) # 0
                         /\ BrokenEnd(u) <=> BrokenEnd(Says(full, LastOfLines(lines)))
                         /\ LastOfLines(lines)[1] <= Len(doc)

\* An empty line behind a line of the page.
Hollow(full, p, a, n) == \E l \in (a + 1)..n : Len(full[p][l]) = 0

GapTells(full, noise, p, page, x, g) ==
    /\ x[1] < p => Pair(g)
    /\ x[1] = p => /\ x[2] <= Len(page)
                   /\ Len(Without(page, noise)) # 0
                   /\ Pair(g \o EndOfLine) <=> Hollow(full, p, x[2], Len(page))

AtPage(full, noise, dropped, doc) ==
    \E u, g : ReachedBy(full, noise, doc, KeptLines(doc, dropped), u, g)

AtLine(full, noise, dropped, doc, page) ==
    \E u, g :
        /\ ReachedBy(full, noise, Append(doc, page), KeptLines(Append(doc, page), dropped), u, g)
        /\ Len(KeptLines(Append(doc, page), dropped)) # 0
             => GapTells(full, noise, Len(doc) + 1, page,
                         LastOfLines(KeptLines(Append(doc, page), dropped)), g)

LEMMA HollowGrows ==
    ASSUME NEW full, NEW p, NEW a \in Nat, NEW n \in Nat
    PROVE  /\ a <= n => (Hollow(full, p, a, n + 1) <=> Hollow(full, p, a, n) \/ Len(full[p][n + 1]) = 0)
           /\ ~ Hollow(full, p, n, n)
<1>1. a <= n => \A l : l \in (a + 1)..(n + 1) <=> l \in (a + 1)..n \/ l = n + 1
  OBVIOUS
<1>2. (n + 1)..n = {}
  OBVIOUS
<1>3. QED
  BY <1>1, <1>2 DEF Hollow

\* The line that is read next.
LineComes(full, noise, dropped, doc, page, l, y) ==
    /\ y = << Len(doc) + 1, Len(page) + 1 >> /\ y \in LinePlaces(full) /\ LineAt(full, y) = l
    /\ full[Len(doc) + 1][Len(page) + 1] = l
    /\ y \in dropped <=> Len(Strip(l)) = 0 \/ l \in noise
    /\ KeptLines(Append(doc, Append(page, l)), dropped)
         = IF y \in dropped THEN KeptLines(Append(doc, page), dropped)
           ELSE Append(KeptLines(Append(doc, page), dropped), y)

LEMMA NextLine ==
    ASSUME NEW full \in Seq(Seq(TextLines)), NEW noise, NEW dropped, Sorts(full, noise, dropped),
           NEW doc \in Seq(Seq(TextLines)), NEW page \in Seq(TextLines), NEW l \in TextLines,
           ReadOf(full, Append(doc, Append(page, l)))
    PROVE  LineComes(full, noise, dropped, doc, page, l, << Len(doc) + 1, Len(page) + 1 >>)
<1>1. PICK n \in Nat : n = Len(doc)
  BY LenProperties
<1>2. PICK m \in Nat : m = Len(page)
  BY LenProperties
<1>3. PICK more, all, y : /\ more = Append(page, l) /\ all = Append(doc, more)
                          /\ y = << n + 1, m + 1 >>
  OBVIOUS
<1>4. more \in Seq(TextLines) /\ Len(more) = m + 1 /\ more[m + 1] = l
  BY <1>2, <1>3, AppendProperties
<1>5. Len(all) = n + 1 /\ all[n + 1] = more
  BY <1>1, <1>3, <1>4, AppendProperties
<1>6. Len(full) \in Nat
  BY LenProperties
<1>7. /\ n + 1 \in 1..Len(full)
      /\ Len(more) <= Len(full[n + 1])
      /\ \A i \in 1..Len(more) : more[i] = full[n + 1][i]
  <2>1. n + 1 \in 1..Len(all)
    BY <1>5
  <2>2. Len(all) <= Len(full)
    BY <1>3 DEF ReadOf
  <2>3. /\ Len(all[n + 1]) <= Len(full[n + 1])
        /\ \A i \in 1..Len(all[n + 1]) : all[n + 1][i] = full[n + 1][i]
    BY <1>3, <2>1 DEF ReadOf
  <2>4. QED
    BY <1>5, <1>6, <2>2, <2>3
<1>8. full[n + 1] \in Seq(TextLines)
  BY <1>7, ElementOfSeq
<1>9. m + 1 \in 1..Len(full[n + 1]) /\ full[n + 1][m + 1] = l
  <2>1. Len(full[n + 1]) \in Nat
    BY <1>8, LenProperties
  <2>2. m + 1 \in 1..Len(more)
    BY <1>4
  <2>3. QED
    BY <1>4, <1>7, <2>1, <2>2
<1>10. y[1] = n + 1 /\ y[2] = m + 1 /\ y \in Nat \X Nat
  BY <1>3
<1>11. y \in LinePlaces(full)
  BY <1>7, <1>9, <1>10 DEF LinePlaces
<1>12. LineAt(full, y) = l
  BY <1>9, <1>10 DEF LineAt
<1>13. y \in dropped <=> Len(Strip(l)) = 0 \/ l \in noise
  BY <1>11, <1>12 DEF Sorts
<1>14. PICK P : P = Places(Append(doc, page))
  OBVIOUS
<1>15. P \in Seq(Nat \X Nat) /\ Places(all) = Append(P, y)
  <2>1. PlacesFollow(doc, page, l)
    BY PlacesOfLine
  <2>2. QED
    BY <1>1, <1>2, <1>3, <1>14, <2>1 DEF PlacesFollow
<1>16. Without(Append(P, y), dropped)
         = IF y \in dropped THEN Without(P, dropped) ELSE Append(Without(P, dropped), y)
  <2>1. PICK X : X = Nat \X Nat
    OBVIOUS
  <2>2. P \in Seq(X) /\ y \in X
    BY <1>10, <1>15, <2>1
  <2>3. QED
    BY <2>2, WithoutAppend
<1>17. KeptLines(all, dropped) = IF y \in dropped THEN KeptLines(Append(doc, page), dropped)
                            ELSE Append(KeptLines(Append(doc, page), dropped), y)
  BY <1>14, <1>15, <1>16 DEF KeptLines
<1>18. QED
  BY <1>1, <1>2, <1>3, <1>9, <1>11, <1>12, <1>13, <1>17 DEF LineComes

\* A line that is noise changes nothing.
LEMMA NoiseLine ==
    ASSUME NEW full \in Seq(Seq(TextLines)), NEW noise, NEW dropped, Sorts(full, noise, dropped),
           NEW doc \in Seq(Seq(TextLines)), NEW page \in Seq(TextLines), NEW l \in TextLines,
           ReadOf(full, Append(doc, Append(page, l))),
           AtLine(full, noise, dropped, doc, page), l \in noise
    PROVE  AtLine(full, noise, dropped, doc, Append(page, l))
<1>1. PICK n \in Nat : n = Len(doc)
  BY LenProperties
<1>2. PICK m \in Nat : m = Len(page)
  BY LenProperties
<1>3. PICK more, old, new, y : /\ more = Append(page, l) /\ old = Append(doc, page)
                               /\ new = Append(doc, more) /\ y = << n + 1, m + 1 >>
  OBVIOUS
<1>4. LineComes(full, noise, dropped, doc, page, l, y)
  BY <1>1, <1>2, <1>3, NextLine
<1>5. PICK u, g : /\ ReachedBy(full, noise, old, KeptLines(old, dropped), u, g)
                  /\ Len(KeptLines(old, dropped)) # 0
                       => GapTells(full, noise, n + 1, page, LastOfLines(KeptLines(old, dropped)), g)
  BY <1>1, <1>3 DEF AtLine
<1>6. KeptLines(new, dropped) = KeptLines(old, dropped) /\ full[n + 1][m + 1] = l
  BY <1>1, <1>2, <1>3, <1>4 DEF LineComes
<1>7. more \in Seq(TextLines) /\ Len(more) = m + 1
  BY <1>2, <1>3, AppendProperties
<1>8. Len(new) = n + 1 /\ Len(old) = n + 1
  BY <1>1, <1>3, <1>7, AppendProperties
<1>9. Raw(new, noise) = Raw(old, noise)
  <2>1. RawGrows(doc, page, l, noise)
    BY RawLine
  <2>2. QED
    BY <1>3, <2>1 DEF RawGrows
<1>10. Without(more, noise) = Without(page, noise)
  BY <1>3, PageTextAppend DEF PageTextGrows
<1>11. ReachedBy(full, noise, new, KeptLines(new, dropped), u, g)
  BY <1>5, <1>6, <1>8, <1>9 DEF ReachedBy
<1>12. Len(l) # 0
  <2>1. Len(Strip(l)) # 0
    BY DEF Sorts
  <2>2. l \in Seq(Characters)
    BY EndOfLineIs
  <2>3. Strip(l) \in Seq(Characters) /\ Len(Strip(l)) <= Len(l)
    BY <2>2, StripIs
  <2>4. Len(Strip(l)) \in Nat
    BY <2>3, LenProperties
  <2>5. QED
    BY <2>1, <2>3, <2>4
<1>13. ASSUME NEW x \in LinePlaces(full), GapTells(full, noise, n + 1, page, x, g)
       PROVE  GapTells(full, noise, n + 1, more, x, g)
  <2>1. x[2] \in Nat
    BY DEF LinePlaces
  <2>2. x[2] <= m => (Hollow(full, n + 1, x[2], m + 1) <=> Hollow(full, n + 1, x[2], m))
    BY <1>6, <1>12, <2>1, HollowGrows
  <2>3. x[2] <= m => x[2] <= m + 1
    BY <2>1
  <2>4. QED
    BY <1>2, <1>7, <1>10, <1>13, <2>2, <2>3 DEF GapTells
<1>14. Len(KeptLines(new, dropped)) # 0 => LastOfLines(KeptLines(new, dropped)) \in LinePlaces(full)
  <2>1. PICK K : K = KeptLines(new, dropped)
    OBVIOUS
  <2>2. K \in Seq(LinePlaces(full))
    BY <1>11, <2>1 DEF ReachedBy
  <2>3. Len(K) \in Nat
    BY <2>2, LenProperties
  <2>4. Len(K) # 0 => Len(K) \in 1..Len(K)
    BY <2>3
  <2>5. QED
    BY <2>1, <2>2, <2>4, ElementOfSeq DEF LastOfLines
<1>15. Len(KeptLines(new, dropped)) # 0
         => GapTells(full, noise, n + 1, more, LastOfLines(KeptLines(new, dropped)), g)
  BY <1>5, <1>6, <1>13, <1>14
<1>16. QED
  BY <1>1, <1>3, <1>11, <1>15 DEF AtLine

\* The gap before what comes next on the page.
GapWith(noise, page, g) == IF Len(Without(page, noise)) = 0 THEN g ELSE g \o EndOfLine

GapReads(full, p, page, x, gap, b) ==
    /\ x[1] <= p => \E i \in 1..Len(gap) : gap[i] = NewLine
    /\ x[1] < p => Pair(gap)
    /\ x[1] = p => /\ Pair(gap) <=> Hollow(full, p, x[2], Len(page))
                   /\ Pair(gap \o EndOfLine) <=> Hollow(full, p, x[2], Len(page)) \/ Len(b) = 0

LEMMA GapIsRead ==
    ASSUME NEW full, NEW noise, NEW p \in Nat, NEW page, NEW x \in Nat \X Nat,
           NEW g \in Seq(Whitespace), NEW b \in Seq({Blank}), GapTells(full, noise, p, page, x, g)
    PROVE  GapReads(full, p, page, x, GapWith(noise, page, g) \o b, b)
<1>1. PICK e, h, G : e = g \o EndOfLine /\ h = GapWith(noise, page, g) /\ G = h \o b
  OBVIOUS
<1>2. b \in Seq(Whitespace) /\ e \in Seq(Whitespace)
  <2>1. EndOfLine \in Seq(Whitespace)
    BY EndOfLineIs
  <2>2. QED
    BY <1>1, <2>1, BlanksAre, ConcatProperties
<1>3. GapGrows(g, e, b)
  BY <1>1, GapOfLine
<1>4. x[1] \in Nat
  OBVIOUS
<1>5. CASE Len(Without(page, noise)) # 0
  <2>1. h = e
    BY <1>1, <1>5 DEF GapWith
  <2>2. \E i \in 1..Len(G) : G[i] = NewLine
    BY <1>1, <1>3, <2>1 DEF GapGrows
  <2>3. x[1] < p => Pair(G)
    <3>1. ASSUME Pair(g) PROVE Pair(G)
      <4>1. EndOfLine \in Seq(Whitespace)
        BY EndOfLineIs
      <4>2. Pair(e)
        BY <1>1, <3>1, <4>1, PairStays
      <4>3. QED
        BY <1>1, <1>3, <2>1, <4>2 DEF GapGrows
    <3>2. QED
      BY <3>1 DEF GapTells
  <2>4. x[1] = p => /\ Pair(G) <=> Hollow(full, p, x[2], Len(page))
                    /\ Pair(G \o EndOfLine) <=> Hollow(full, p, x[2], Len(page)) \/ Len(b) = 0
    BY <1>1, <1>3, <2>1 DEF GapTells, GapGrows
  <2>5. QED
    BY <1>1, <2>2, <2>3, <2>4 DEF GapReads
<1>6. CASE Len(Without(page, noise)) = 0
  <2>1. h = g /\ x[1] # p
    BY <1>1, <1>6 DEF GapWith, GapTells
  <2>2. x[1] < p => Pair(G) /\ G \in Seq(Whitespace)
    <3>1. ASSUME Pair(g) PROVE Pair(G) /\ G \in Seq(Whitespace)
      BY <1>1, <1>2, <2>1, <3>1, PairStays
    <3>2. QED
      BY <3>1 DEF GapTells
  <2>3. x[1] <= p => x[1] < p
    BY <1>4, <2>1
  <2>4. x[1] <= p => \E i \in 1..Len(G) : G[i] = NewLine
    <3>1. ASSUME Pair(G), G \in Seq(Whitespace) PROVE \E i \in 1..Len(G) : G[i] = NewLine
      BY <3>1, PairStays
    <3>2. QED
      BY <2>2, <2>3, <3>1
  <2>5. QED
    BY <1>1, <2>1, <2>2, <2>4 DEF GapReads
<1>7. QED
  BY <1>5, <1>6

\* What the text becomes.
RawGoesOn(noise, doc, page, l, u, g) ==
    /\ GapWith(noise, page, g) \in Seq(Whitespace)
    /\ Raw(Append(doc, Append(page, l)), noise) = u \o (GapWith(noise, page, g) \o l)

LEMMA RawWithLine ==
    ASSUME NEW noise, NEW doc \in Seq(Seq(TextLines)), NEW page \in Seq(TextLines),
           NEW l \in TextLines, l \notin noise, NEW u \in Seq(Characters), NEW g \in Seq(Whitespace),
           Raw(Append(doc, page), noise) = u \o g
    PROVE  RawGoesOn(noise, doc, page, l, u, g)
<1>1. PICK h, R : h = GapWith(noise, page, g) /\ R = Raw(Append(doc, Append(page, l)), noise)
  OBVIOUS
<1>2. /\ g \in Seq(Characters) /\ l \in Seq(Characters)
      /\ EndOfLine \in Seq(Characters) /\ EndOfLine \in Seq(Whitespace)
  BY BlankParts, EndOfLineIs
<1>3. RawGrows(doc, page, l, noise)
  BY RawLine
<1>4. CASE Len(Without(page, noise)) = 0
  <2>1. h = g
    BY <1>1, <1>4 DEF GapWith
  <2>2. R = (u \o g) \o l
    BY <1>1, <1>3, <1>4 DEF RawGrows
  <2>3. (u \o g) \o l = u \o (g \o l)
    BY <1>2, ConcatAssociative
  <2>4. QED
    BY <1>1, <2>1, <2>2, <2>3 DEF RawGoesOn
<1>5. CASE Len(Without(page, noise)) # 0
  <2>1. h = g \o EndOfLine
    BY <1>1, <1>5 DEF GapWith
  <2>2. PICK el, ug : el = EndOfLine \o l /\ ug = u \o g
    OBVIOUS
  <2>3. el \in Seq(Characters)
    BY <1>2, <2>2, ConcatProperties
  <2>4. R = ug \o el
    BY <1>1, <1>3, <1>5, <2>2 DEF RawGrows
  <2>5. (u \o g) \o el = u \o (g \o el)
    <3>1. u \in Seq(Characters) /\ g \in Seq(Characters) /\ el \in Seq(Characters)
      BY <1>2, <2>3
    <3>2. QED
      BY <3>1, ConcatAssociative
  <2>6. g \o el = h \o l
    <3>1. (g \o EndOfLine) \o l = g \o (EndOfLine \o l)
      BY <1>2, ConcatAssociative, SMTT(30)
    <3>2. QED
      BY <2>1, <2>2, <3>1
  <2>7. h \in Seq(Whitespace)
    BY <1>2, <2>1, ConcatProperties
  <2>8. QED
    BY <1>1, <2>2, <2>4, <2>5, <2>6, <2>7 DEF RawGoesOn
<1>6. QED
  BY <1>4, <1>5

\* A line without words widens the gap.
LEMMA BlankLine ==
    ASSUME NEW full \in Seq(Seq(TextLines)), NEW noise, NEW dropped, Sorts(full, noise, dropped),
           NEW doc \in Seq(Seq(TextLines)), NEW page \in Seq(TextLines), NEW l \in TextLines,
           ReadOf(full, Append(doc, Append(page, l))),
           AtLine(full, noise, dropped, doc, page), Len(Strip(l)) = 0
    PROVE  AtLine(full, noise, dropped, doc, Append(page, l))
<1>1. PICK n \in Nat : n = Len(doc)
  BY LenProperties
<1>2. PICK m \in Nat : m = Len(page)
  BY LenProperties
<1>3. PICK more, old, new, y : /\ more = Append(page, l) /\ old = Append(doc, page)
                               /\ new = Append(doc, more) /\ y = << n + 1, m + 1 >>
  OBVIOUS
<1>4. LineComes(full, noise, dropped, doc, page, l, y)
  BY <1>1, <1>2, <1>3, NextLine
<1>5. PICK u, g : /\ ReachedBy(full, noise, old, KeptLines(old, dropped), u, g)
                  /\ Len(KeptLines(old, dropped)) # 0
                       => GapTells(full, noise, n + 1, page, LastOfLines(KeptLines(old, dropped)), g)
  BY <1>1, <1>3 DEF AtLine
<1>6. PICK K : K = KeptLines(old, dropped)
  OBVIOUS
<1>7. KeptLines(new, dropped) = K /\ full[n + 1][m + 1] = l /\ l \notin noise
  <2>1. l \notin noise
    BY DEF Sorts
  <2>2. QED
    BY <1>1, <1>2, <1>3, <1>4, <1>6, <2>1 DEF LineComes
<1>8. more \in Seq(TextLines) /\ Len(more) = m + 1
  BY <1>2, <1>3, AppendProperties
<1>9. Len(new) = n + 1 /\ Len(old) = n + 1
  BY <1>1, <1>3, <1>8, AppendProperties
<1>10. l \in Seq({Blank}) /\ l \in Seq(Whitespace)
  <2>1. l \in Seq(Characters \ {NewLine})
    BY DEF TextLines
  <2>2. l \in Seq({Blank})
    BY <2>1, StripParts DEF StripsWell
  <2>3. QED
    BY <2>2, BlanksAre
<1>11. /\ K \in Seq(LinePlaces(full))
       /\ Raw(old, noise) = u \o g /\ g \in Seq(Whitespace) /\ u \in Seq(Characters)
  BY <1>5, <1>6 DEF ReachedBy, Tells
<1>12. PICK h, G : h = GapWith(noise, page, g) /\ G = h \o l
  OBVIOUS
<1>13. h \in Seq(Whitespace) /\ Raw(new, noise) = u \o G
  <2>1. RawGoesOn(noise, doc, page, l, u, g)
    BY <1>3, <1>7, <1>11, RawWithLine
  <2>2. QED
    BY <1>3, <1>12, <2>1 DEF RawGoesOn
<1>14. G \in Seq(Whitespace)
  BY <1>10, <1>12, <1>13, ConcatProperties
<1>15. ReachedBy(full, noise, new, K, u, G)
  BY <1>5, <1>6, <1>9, <1>11, <1>13, <1>14 DEF ReachedBy
<1>16. ASSUME NEW x \in LinePlaces(full), GapTells(full, noise, n + 1, page, x, g)
       PROVE  GapTells(full, noise, n + 1, more, x, G)
  <2>1. x \in Nat \X Nat /\ x[2] \in Nat /\ n + 1 \in Nat
    BY DEF LinePlaces
  <2>2. GapReads(full, n + 1, page, x, G, l)
    BY <1>10, <1>11, <1>12, <1>16, <2>1, GapIsRead
  <2>3. x[2] <= m => (Hollow(full, n + 1, x[2], m + 1) <=> Hollow(full, n + 1, x[2], m) \/ Len(l) = 0)
    <3>1. PICK a, k, p : a = x[2] /\ k = m + 1 /\ p = n + 1
      OBVIOUS
    <3>2. a \in Nat
      BY <2>1, <3>1
    <3>3. a <= m => (Hollow(full, p, a, m + 1) <=> Hollow(full, p, a, m) \/ Len(full[p][m + 1]) = 0)
      BY <3>2, HollowGrows, ZenonT(40)
    <3>4. full[p][m + 1] = l
      BY <1>7, <3>1
    <3>5. QED
      BY <3>1, <3>3, <3>4
  <2>4. x[2] <= m => x[2] <= m + 1
    BY <2>1
  <2>5. Len(Without(more, noise)) # 0
    <3>1. PICK w : w = Without(page, noise)
      OBVIOUS
    <3>2. w \in Seq(TextLines) /\ Without(more, noise) = Append(w, l)
      <4>1. PageTextGrows(page, l, noise)
        BY PageTextAppend
      <4>2. QED
        BY <1>3, <1>7, <3>1, <4>1 DEF PageTextGrows
    <3>3. Len(Append(w, l)) = Len(w) + 1 /\ Len(w) \in Nat
      BY <3>2, AppendProperties, LenProperties
    <3>4. QED
      BY <3>2, <3>3
  <2>6. QED
    BY <1>2, <1>8, <1>16, <2>2, <2>3, <2>4, <2>5 DEF GapTells, GapReads
<1>17. Len(K) # 0 => LastOfLines(K) \in LinePlaces(full)
  <2>1. Len(K) \in Nat
    BY <1>11, LenProperties
  <2>2. Len(K) # 0 => Len(K) \in 1..Len(K)
    BY <2>1
  <2>3. QED
    BY <1>11, <2>2, ElementOfSeq DEF LastOfLines
<1>18. Len(K) # 0 => GapTells(full, noise, n + 1, more, LastOfLines(K), G)
  BY <1>5, <1>6, <1>16, <1>17
<1>19. QED
  BY <1>1, <1>3, <1>7, <1>15, <1>18 DEF AtLine

\* What is in the gap is what the page says of the two lines.
LEMMA LinkIs ==
    ASSUME NEW full \in Seq(Seq(TextLines)), NEW x \in LinePlaces(full), NEW y \in LinePlaces(full),
           NEW page, NEW gap \in Seq(Whitespace), NEW b,
           GapReads(full, y[1], page, x, gap, b), x[1] <= y[1], y[2] = Len(page) + 1, Len(page) \in Nat
    PROVE  Between(gap) = Link(full, x, y) /\ \E i \in 1..Len(gap) : gap[i] = NewLine
<1>1. PICK p, a, m : p = y[1] /\ a = x[2] /\ m = Len(page)
  OBVIOUS
<1>2. /\ p \in 1..Len(full) /\ m + 1 \in 1..Len(full[p]) /\ a \in Nat /\ x[1] \in Nat /\ m \in Nat
      /\ y[2] = m + 1
  BY <1>1 DEF LinePlaces
<1>3. \E i \in 1..Len(gap) : gap[i] = NewLine
  BY DEF GapReads
<1>4. Len(gap) # 0
  <2>1. Len(gap) = 0 => 1..Len(gap) = {}
    OBVIOUS
  <2>2. QED
    BY <1>3, <2>1
<1>5. Pair(gap) <=> ParagraphEnds(full, x, y)
  <2>1. CASE x[1] # p
    <3>1. ParagraphEnds(full, x, y)
      BY <1>1, <2>1 DEF ParagraphEnds
    <3>2. p \in Nat /\ x[1] < p
      <4>1. x[1] <= p /\ p \in Int
        BY <1>1, <1>2
      <4>2. QED
        BY <1>2, <2>1, <4>1
    <3>3. Pair(gap)
      BY <1>1, <3>2 DEF GapReads
    <3>4. QED
      BY <3>1, <3>3
  <2>2. CASE x[1] = p
    <3>1. Pair(gap) <=> Hollow(full, p, a, m)
      BY <1>1, <2>2 DEF GapReads
    <3>2. full[p] \in Seq(TextLines)
      BY <1>2, ElementOfSeq
    <3>3. ASSUME NEW l \in (a + 1)..m PROVE full[p][l] = <<>> <=> Len(full[p][l]) = 0
      <4>1. l \in 1..Len(full[p])
        <5>1. Len(full[p]) \in Nat
          BY <3>2, LenProperties
        <5>2. QED
          BY <1>2, <5>1
      <4>2. full[p][l] \in TextLines
        BY <3>2, <4>1, ElementOfSeq
      <4>3. full[p][l] \in Seq(Characters)
        BY <4>2, EndOfLineIs
      <4>4. QED
        BY <4>3, EmptySeq
    <3>4. ParagraphEnds(full, x, y) <=> \E l \in (a + 1)..(y[2] - 1) : full[p][l] = <<>>
      BY <1>1, <2>2 DEF ParagraphEnds
    <3>5. y[2] - 1 = m
      BY <1>2
    <3>6. ParagraphEnds(full, x, y) <=> \E l \in (a + 1)..m : full[p][l] = <<>>
      BY <3>4, <3>5
    <3>7. QED
      BY <3>1, <3>3, <3>6 DEF Hollow
  <2>3. QED
    BY <2>1, <2>2
<1>6. QED
  BY <1>3, <1>4, <1>5 DEF Between, Link

\* The same told by the text and by the lines.
LEMMA LineIsTold ==
    ASSUME NEW full \in Seq(Seq(TextLines)), NEW lines \in Seq(LinePlaces(full)),
           NEW y \in LinePlaces(full), NEW s \in Seq(Characters), Len(s) # 0, s[1] \notin Whitespace,
           Says(full, y) = Pen(s),
           NEW u, NEW gap, NEW more, LineFollows(u, gap, s, Told(full, lines), more),
           Len(lines) = 0 => Len(u) = 0,
           Len(lines) # 0 => /\ Len(u) # 0
                             /\ BrokenEnd(u) <=> BrokenEnd(Says(full, LastOfLines(lines)))
                             /\ Between(gap) = Link(full, LastOfLines(lines), y)
    PROVE  more = Told(full, Append(lines, y))
<1>1. PICK k \in Nat : k = Len(lines)
  BY LenProperties
<1>2. PICK out, q, all : out = Told(full, lines) /\ q = Pen(s) /\ all = Append(lines, y)
  OBVIOUS
<1>3. ToldGoesOn(full, lines, y, all, k)
  BY <1>1, <1>2, ToldFollows
<1>4. q \in Seq(Characters) /\ Len(q) # 0 /\ q[1] = s[1]
  <2>1. Pen(s) \in Seq(Characters)
    BY SaysIs
  <2>2. QED
    BY <1>2, <2>1, PenStarts
<1>5. CASE k = 0
  <2>1. ~ Breaks(u, s)
    <3>1. Len(u) = 0
      BY <1>1, <1>5
    <3>2. ~ (Len(u) >= 2)
      BY <3>1
    <3>3. QED
      BY <3>2 DEF Breaks, BrokenEnd
  <2>2. more = (out \o GapFor(u, gap)) \o q
    BY <1>2, <2>1 DEF LineFollows
  <2>3. PICK none : none = <<>>
    OBVIOUS
  <2>4. out = none /\ GapFor(u, gap) = none
    BY <1>1, <1>2, <1>3, <1>5, <2>3 DEF ToldGoesOn, GapFor
  <2>5. none \o none = none /\ none \o q = q
    <3>1. none \in Seq(Characters)
      BY <2>3
    <3>2. QED
      BY <1>4, <2>3, <3>1, ConcatEmptySeq
  <2>6. Told(full, all) = q
    BY <1>2, <1>3, <1>5 DEF ToldGoesOn
  <2>7. QED
    BY <1>2, <2>2, <2>4, <2>5, <2>6
<1>6. CASE k # 0
  <2>1. PICK w : w = Says(full, lines[k])
    OBVIOUS
  <2>2. LastOfLines(lines) = lines[k] /\ lines[k] \in LinePlaces(full)
    <3>1. k \in 1..Len(lines)
      BY <1>1, <1>6
    <3>2. QED
      BY <1>1, <3>1, ElementOfSeq DEF LastOfLines
  <2>3. Breaks(u, s) <=> GoesOn(w, q)
    <3>1. BrokenEnd(u) <=> BrokenEnd(w)
      BY <1>1, <1>6, <2>1, <2>2
    <3>2. Head(q) = s[1]
      BY <1>4 DEF Head
    <3>3. GoesOn(w, q) <=> BrokenEnd(w) /\ Head(q) \in WordChars
      BY DEF GoesOn, BrokenEnd, Last
    <3>4. QED
      BY <3>1, <3>2, <3>3 DEF Breaks
  <2>4. CASE ~ Breaks(u, s)
    <3>1. more = (out \o GapFor(u, gap)) \o q
      BY <1>2, <2>4 DEF LineFollows
    <3>2. GapFor(u, gap) = Link(full, lines[k], y)
      BY <1>1, <1>6, <2>2 DEF GapFor
    <3>3. Told(full, all) = (out \o Link(full, lines[k], y)) \o q
      BY <1>2, <1>3, <1>6, <2>1, <2>3, <2>4 DEF ToldGoesOn
    <3>4. QED
      BY <1>2, <3>1, <3>2, <3>3
  <2>5. CASE Breaks(u, s)
    <3>1. PICK r \in Seq(Characters) : out = Append(r, Hyphen) /\ more = r \o q
      BY <1>2, <2>5 DEF LineFollows
    <3>2. PICK t \in Seq(Characters) : out = Append(t, Hyphen) /\ Told(full, all) = t \o q
      BY <1>2, <1>3, <1>6, <2>1, <2>3, <2>5 DEF ToldGoesOn
    <3>3. r = t
      <4>1. Append(r, Hyphen) = Append(t, Hyphen) /\ Hyphen \in Characters
        BY <3>1, <3>2, HyphenIsSolid
      <4>2. QED
        BY <4>1, AppendInjective
    <3>4. QED
      BY <1>2, <3>1, <3>2, <3>3
  <2>6. QED
    BY <2>4, <2>5
<1>7. QED
  BY <1>5, <1>6

Together(s, t, u) == (s \o t) \o u = s \o (t \o u)

LEMMA TextsTogether ==
    ASSUME NEW s \in Seq(Characters), NEW t \in Seq(Characters), NEW u \in Seq(Characters)
    PROVE  Together(s, t, u)
<1>1. (s \o t) \o u = s \o (t \o u)
  BY ConcatAssociative
<1>2. QED
  BY <1>1 DEF Together

InOneRow(u, h, b1, s, b2) == u \o (h \o ((b1 \o s) \o b2)) = ((u \o (h \o b1)) \o s) \o b2

LEMMA RowsTogether ==
    ASSUME NEW u \in Seq(Characters), NEW h \in Seq(Characters), NEW b1 \in Seq(Characters),
           NEW s \in Seq(Characters), NEW b2 \in Seq(Characters)
    PROVE  InOneRow(u, h, b1, s, b2)
<1>1. PICK bs, G, GS, uG : bs = b1 \o s /\ G = h \o b1 /\ GS = G \o s /\ uG = u \o G
  OBVIOUS
<1>2. bs \in Seq(Characters) /\ G \in Seq(Characters)
  BY <1>1, ConcatProperties
<1>3. GS \in Seq(Characters) /\ uG \in Seq(Characters)
  BY <1>1, <1>2, ConcatProperties
<1>4. Together(h, bs, b2) /\ Together(h, b1, s)
  BY <1>2, TextsTogether
<1>5. Together(u, GS, b2) /\ Together(u, G, s)
  BY <1>2, <1>3, TextsTogether
<1>6. h \o (bs \o b2) = GS \o b2
  BY <1>1, <1>4 DEF Together
<1>7. (u \o GS) \o b2 = u \o (GS \o b2) /\ (u \o G) \o s = u \o (G \o s)
  BY <1>5 DEF Together
<1>8. QED
  BY <1>1, <1>6, <1>7 DEF InOneRow

\* A line with words is told behind the others.
LEMMA SolidLine ==
    ASSUME NEW full \in Seq(Seq(TextLines)), NEW noise, NEW dropped, Sorts(full, noise, dropped),
           NEW doc \in Seq(Seq(TextLines)), NEW page \in Seq(TextLines), NEW l \in TextLines,
           ReadOf(full, Append(doc, Append(page, l))),
           AtLine(full, noise, dropped, doc, page), Len(Strip(l)) # 0, l \notin noise
    PROVE  AtLine(full, noise, dropped, doc, Append(page, l))
<1>1. PICK n \in Nat : n = Len(doc)
  BY LenProperties
<1>2. PICK m \in Nat : m = Len(page)
  BY LenProperties
<1>3. PICK more, old, new, y : /\ more = Append(page, l) /\ old = Append(doc, page)
                               /\ new = Append(doc, more) /\ y = << n + 1, m + 1 >>
  OBVIOUS
<1>4. LineComes(full, noise, dropped, doc, page, l, y)
  BY <1>1, <1>2, <1>3, NextLine
<1>5. PICK u, g : /\ ReachedBy(full, noise, old, KeptLines(old, dropped), u, g)
                  /\ Len(KeptLines(old, dropped)) # 0
                       => GapTells(full, noise, n + 1, page, LastOfLines(KeptLines(old, dropped)), g)
  BY <1>1, <1>3 DEF AtLine
<1>6. PICK K, L, out : K = KeptLines(old, dropped) /\ L = Append(K, y) /\ out = Told(full, K)
  OBVIOUS
<1>7. KeptLines(new, dropped) = L /\ y \in LinePlaces(full) /\ LineAt(full, y) = l
  BY <1>1, <1>2, <1>3, <1>4, <1>6 DEF LineComes
<1>8. more \in Seq(TextLines) /\ Len(more) = m + 1 /\ y[1] = n + 1 /\ y[2] = m + 1
  BY <1>2, <1>3, AppendProperties
<1>9. Len(new) = n + 1 /\ Len(old) = n + 1
  BY <1>1, <1>3, <1>8, AppendProperties
<1>10. /\ K \in Seq(LinePlaces(full))
       /\ Raw(old, noise) = u \o g /\ g \in Seq(Whitespace) /\ u \in Seq(Characters)
       /\ Tells(u, out)
       /\ Len(K) = 0 => Len(u) = 0
       /\ Len(K) # 0 => /\ Len(u) # 0
                        /\ BrokenEnd(u) <=> BrokenEnd(Says(full, LastOfLines(K)))
                        /\ LastOfLines(K)[1] <= n + 1
  BY <1>5, <1>6, <1>9 DEF ReachedBy, Tells
<1>11. PICK b1, s, b2 : StripsTo(l, b1, s, b2)
  <2>1. l \in Seq(Characters \ {NewLine})
    BY DEF TextLines
  <2>2. StripsWell(l)
    BY <2>1, StripParts
  <2>3. QED
    BY <2>2 DEF StripsWell
<1>12. /\ l = (b1 \o s) \o b2 /\ s = Strip(l)
       /\ b1 \in Seq({Blank}) /\ b2 \in Seq({Blank}) /\ s \in Seq(Characters \ {NewLine})
       /\ Len(s) # 0 /\ s[1] \notin Whitespace /\ Settled(s)
  BY <1>11 DEF StripsTo
<1>13. PICK h, G : h = GapWith(noise, page, g) /\ G = h \o b1
  OBVIOUS
<1>14. h \in Seq(Whitespace) /\ Raw(new, noise) = u \o (h \o l)
  <2>1. RawGoesOn(noise, doc, page, l, u, g)
    BY <1>3, <1>10, RawWithLine
  <2>2. QED
    BY <1>3, <1>13, <2>1 DEF RawGoesOn
<1>15. /\ b1 \in Seq(Characters) /\ b2 \in Seq(Characters) /\ s \in Seq(Characters) /\ h \in Seq(Characters)
       /\ b1 \in Seq(Whitespace) /\ b2 \in Seq(Whitespace)
  BY <1>12, <1>14, BlanksAre, BlankParts, OneBlankIs
<1>16. G \in Seq(Whitespace)
  BY <1>13, <1>14, <1>15, ConcatProperties
<1>17. PICK x : x = (u \o G) \o s
  OBVIOUS
<1>18. Raw(new, noise) = x \o b2
  <2>1. InOneRow(u, h, b1, s, b2)
    BY <1>10, <1>15, RowsTogether
  <2>2. QED
    BY <1>12, <1>13, <1>14, <1>17, <2>1 DEF InOneRow
<1>19. Len(K) # 0 => /\ Between(G) = Link(full, LastOfLines(K), y)
                     /\ \E i \in 1..Len(G) : G[i] = NewLine
  <2>1. ASSUME Len(K) # 0
        PROVE  Between(G) = Link(full, LastOfLines(K), y) /\ \E i \in 1..Len(G) : G[i] = NewLine
    <3>1. PICK z : z = LastOfLines(K)
      OBVIOUS
    <3>2. Len(K) \in 1..Len(K)
      BY <1>10, <2>1, LenProperties
    <3>3. z \in LinePlaces(full)
      BY <1>10, <3>1, <3>2, ElementOfSeq DEF LastOfLines
    <3>4. GapTells(full, noise, n + 1, page, z, g)
      BY <1>5, <1>6, <2>1, <3>1
    <3>5. z \in Nat \X Nat /\ n + 1 \in Nat
      BY <3>3 DEF LinePlaces
    <3>6. GapReads(full, n + 1, page, z, G, b1)
      BY <1>10, <1>12, <1>13, <3>4, <3>5, GapIsRead
    <3>7. GapReads(full, y[1], page, z, G, b1) /\ z[1] <= y[1] /\ y[2] = Len(page) + 1 /\ Len(page) \in Nat
      BY <1>2, <1>8, <1>10, <2>1, <3>1, <3>6
    <3>8. QED
      BY <1>7, <1>16, <3>1, <3>3, <3>7, LinkIs
  <2>2. QED
    BY <2>1
<1>20. PICK told : LineFollows(u, G, s, out, told)
  <2>1. Len(u) # 0 => \E i \in 1..Len(G) : G[i] = NewLine
    BY <1>10, <1>19
  <2>2. QED
    BY <1>10, <1>12, <1>16, <2>1, LineJoins
<1>21. Says(full, y) = Pen(s)
  BY <1>7, <1>12, SaysIs
<1>22. told = Told(full, L)
  <2>1. Len(K) # 0 => /\ Len(u) # 0
                      /\ BrokenEnd(u) <=> BrokenEnd(Says(full, LastOfLines(K)))
                      /\ Between(G) = Link(full, LastOfLines(K), y)
    BY <1>10, <1>19
  <2>2. LineFollows(u, G, s, Told(full, K), told)
    BY <1>6, <1>20
  <2>3. told = Told(full, Append(K, y))
    BY <1>7, <1>10, <1>12, <1>15, <1>21, <2>1, <2>2, LineIsTold
  <2>4. QED
    BY <1>6, <2>3
<1>23. Tells(x, Told(full, L)) /\ Len(x) # 0 /\ (BrokenEnd(x) <=> BrokenEnd(Says(full, y)))
  BY <1>17, <1>20, <1>21, <1>22 DEF LineFollows
<1>24. L \in Seq(LinePlaces(full)) /\ Len(L) # 0 /\ LastOfLines(L) = y
  <2>1. L \in Seq(LinePlaces(full)) /\ Len(L) = Len(K) + 1 /\ L[Len(K) + 1] = y
    BY <1>6, <1>7, <1>10, AppendProperties
  <2>2. Len(K) \in Nat
    BY <1>10, LenProperties
  <2>3. QED
    BY <2>1, <2>2 DEF LastOfLines
<1>25. ReachedBy(full, noise, new, L, x, b2)
  <2>1. LastOfLines(L)[1] <= Len(new)
    BY <1>8, <1>9, <1>24
  <2>2. QED
    BY <1>15, <1>18, <1>23, <1>24, <2>1 DEF ReachedBy
<1>26. GapTells(full, noise, n + 1, more, y, b2)
  <2>1. Len(Without(more, noise)) # 0
    <3>1. PICK w : w = Without(page, noise)
      OBVIOUS
    <3>2. w \in Seq(TextLines) /\ Without(more, noise) = Append(w, l)
      <4>1. PageTextGrows(page, l, noise)
        BY PageTextAppend
      <4>2. QED
        BY <1>3, <3>1, <4>1 DEF PageTextGrows
    <3>3. Len(Append(w, l)) = Len(w) + 1 /\ Len(w) \in Nat
      BY <3>2, AppendProperties, LenProperties
    <3>4. QED
      BY <3>2, <3>3
  <2>2. ~ Pair(b2 \o EndOfLine)
    BY <1>12, BlanksEndNothing
  <2>3. ~ Hollow(full, n + 1, m + 1, m + 1)
    <3>1. m + 1 \in Nat
      OBVIOUS
    <3>2. QED
      BY <3>1, HollowGrows
  <2>4. ~ (y[1] < n + 1) /\ y[2] <= Len(more)
    BY <1>8
  <2>5. QED
    BY <1>8, <2>1, <2>2, <2>3, <2>4 DEF GapTells
<1>27. QED
  BY <1>1, <1>3, <1>7, <1>24, <1>25, <1>26 DEF AtLine

LEMMA NextLineKeeps ==
    ASSUME NEW full \in Seq(Seq(TextLines)), NEW noise, NEW dropped, Sorts(full, noise, dropped),
           NEW doc \in Seq(Seq(TextLines)), NEW page \in Seq(TextLines), NEW l \in TextLines,
           ReadOf(full, Append(doc, Append(page, l))),
           AtLine(full, noise, dropped, doc, page)
    PROVE  AtLine(full, noise, dropped, doc, Append(page, l))
<1>1. CASE l \in noise
  BY <1>1, NoiseLine
<1>2. CASE l \notin noise /\ Len(Strip(l)) = 0
  BY <1>2, BlankLine
<1>3. CASE l \notin noise /\ Len(Strip(l)) # 0
  BY <1>3, SolidLine
<1>4. QED
  BY <1>1, <1>2, <1>3

\* Nothing is read at first.
LEMMA NothingRead ==
    ASSUME NEW full, NEW noise, NEW dropped
    PROVE  AtPage(full, noise, dropped, <<>>)
<1>1. PICK none : none = <<>>
  OBVIOUS
<1>2. /\ none \in Seq(Seq(TextLines)) /\ none \in Seq(LinePlaces(full)) /\ none \in Seq(Whitespace)
      /\ none \in Seq(Characters) /\ Len(none) = 0 /\ none \in TextLines /\ none \in Seq(TextLines)
      /\ none \in Seq(Nat \X Nat)
  BY <1>1 DEF TextLines
<1>3. none \o none = none
  BY <1>1, <1>2, ConcatEmptySeq
<1>4. KeptLines(none, dropped) = none
  <2>1. PlacesGrow(none, none)
    BY <1>2, PlacesAppend
  <2>2. Places(none) = none
    BY <1>1, <1>2, <2>1 DEF PlacesGrow
  <2>3. RawTurns(none, dropped)
    BY <1>2, RawPage
  <2>4. Without(none, dropped) = none
    BY <1>1, <2>3 DEF RawTurns
  <2>5. QED
    BY <2>2, <2>4 DEF KeptLines
<1>5. Raw(none, noise) = none
  <2>1. RawTurns(none, noise)
    BY <1>2, RawPage
  <2>2. QED
    BY <1>1, <1>2, <2>1 DEF RawTurns
<1>6. Told(full, none) = none
  <2>1. DOMAIN none = {}
    BY <1>1
  <2>2. PICK f : f = [i \in DOMAIN none |->
                        GapAt(full, none, i) \o IF WordGoesOn(full, none, i) THEN Front(Says(full, none[i]))
                                                ELSE Says(full, none[i])]
    OBVIOUS
  <2>3. DOMAIN f = {}
    BY <2>1, <2>2
  <2>4. f \in [1..0 -> Seq(Characters)]
    BY <2>1, <2>2
  <2>5. f \in Seq(Seq(Characters)) /\ Len(f) = 0
    BY <2>4
  <2>6. f = <<>>
    BY <2>5, EmptySeq
  <2>7. FlattenSeq(f) = <<>>
    BY <2>6, <1>2, FlattenType
  <2>8. Told(full, none) = FlattenSeq(f)
    BY <2>2 DEF Told
  <2>9. QED
    BY <1>1, <2>7, <2>8
<1>7. Settled(none)
  BY <1>2 DEF Settled
<1>8. JoinHyphens(none) = none
  <2>1. JoinHyphens(none) = Picked(none, Dropped(none))
    BY <1>2, DroppedIs
  <2>2. Picked(none, Dropped(none)) = none
    <3>1. PICK D : D = Dropped(none)
      OBVIOUS
    <3>2. PICK f : f = [i \in DOMAIN none |-> IF i \in D THEN <<>> ELSE << none[i] >>]
      OBVIOUS
    <3>3. f \in [1..0 -> Seq(Characters)]
      BY <1>1, <3>2
    <3>4. f \in Seq(Seq(Characters)) /\ Len(f) = 0
      BY <3>3
    <3>5. f = <<>>
      BY <3>4, EmptySeq
    <3>6. FlattenSeq(f) = <<>>
      BY <1>2, <3>5, FlattenType
    <3>7. QED
      BY <1>1, <3>1, <3>2, <3>6 DEF Picked
  <2>3. QED
    BY <2>1, <2>2
<1>9. Prose(none) = none
  <2>1. ProseGoesOnWith(none, none, Hyphen)
    BY <1>2, <1>7, HyphenIsSolid, ProseGoesOn
  <2>2. QED
    BY <1>1, <1>2, <2>1 DEF ProseGoesOnWith
<1>10. Tells(none, Told(full, none))
  BY <1>2, <1>6, <1>7, <1>8, <1>9 DEF Tells
<1>11. ReachedBy(full, noise, none, none, none, none)
  BY <1>2, <1>3, <1>5, <1>10 DEF ReachedBy
<1>12. QED
  BY <1>1, <1>4, <1>11 DEF AtPage

\* A page begins: two line ends, but on the first.
LEMMA PageTurns ==
    ASSUME NEW full, NEW noise, NEW dropped, NEW doc \in Seq(Seq(TextLines)),
           AtPage(full, noise, dropped, doc)
    PROVE  AtLine(full, noise, dropped, doc, <<>>)
<1>1. PICK none, new, K : /\ none = <<>> /\ new = Append(doc, none) /\ K = KeptLines(doc, dropped)
  OBVIOUS
<1>2. none \in Seq(TextLines) /\ Len(none) = 0 /\ none \in TextLines
  BY <1>1 DEF TextLines
<1>3. PICK n \in Nat : n = Len(doc)
  BY LenProperties
<1>4. PICK u, g : ReachedBy(full, noise, doc, K, u, g)
  BY <1>1 DEF AtPage
<1>5. /\ K \in Seq(LinePlaces(full))
      /\ Raw(doc, noise) = u \o g /\ g \in Seq(Whitespace) /\ u \in Seq(Characters)
      /\ Tells(u, Told(full, K))
      /\ Len(K) = 0 => Len(u) = 0
      /\ Len(K) # 0 => /\ Len(u) # 0
                       /\ BrokenEnd(u) <=> BrokenEnd(Says(full, LastOfLines(K)))
                       /\ LastOfLines(K)[1] <= n
  BY <1>3, <1>4 DEF ReachedBy, Tells
<1>6. Len(new) = n + 1
  BY <1>1, <1>2, <1>3, AppendProperties
<1>7. KeptLines(new, dropped) = K /\ (n = 0 => Len(K) = 0)
  <2>1. PlacesFollow(doc, none, none)
    BY <1>2, PlacesOfLine
  <2>2. Places(new) = Places(doc) /\ (n = 0 => Places(doc) = none)
    BY <1>1, <1>2, <1>3, <2>1 DEF PlacesFollow
  <2>3. RawTurns(doc, dropped)
    BY RawPage
  <2>4. Without(none, dropped) = none
    BY <1>1, <2>3 DEF RawTurns
  <2>5. QED
    BY <1>1, <1>2, <2>2, <2>4 DEF KeptLines
<1>8. PICK z \in LinePlaces(full) \cup {0} : Len(K) # 0 => z = LastOfLines(K) /\ z \in LinePlaces(full)
  <2>1. CASE Len(K) = 0
    BY <2>1
  <2>2. CASE Len(K) # 0
    <3>1. Len(K) \in 1..Len(K)
      BY <1>5, <2>2, LenProperties
    <3>2. LastOfLines(K) \in LinePlaces(full)
      BY <1>5, <3>1, ElementOfSeq DEF LastOfLines
    <3>3. QED
      BY <3>2
  <2>3. QED
    BY <2>1, <2>2
<1>9. Len(K) # 0 => z[1] < n + 1 /\ z[1] # n + 1 /\ LastOfLines(K)[1] <= n + 1
  <2>1. ASSUME Len(K) # 0 PROVE z[1] < n + 1 /\ z[1] # n + 1 /\ LastOfLines(K)[1] <= n + 1
    <3>1. z[1] \in Nat /\ z = LastOfLines(K) /\ z[1] <= n
      BY <1>5, <1>8, <2>1 DEF LinePlaces
    <3>2. QED
      BY <3>1
  <2>2. QED
    BY <2>1
<1>10. PICK h : h = IF n = 0 THEN g ELSE g \o Paragraph
  OBVIOUS
<1>11. h \in Seq(Whitespace) /\ (n # 0 => Pair(h))
  <2>1. Paragraph \in Seq(Whitespace) /\ Pair(Paragraph)
    <3>1. Paragraph \in Seq(Whitespace)
      BY ParagraphIs, GapsAre
    <3>2. QED
      BY <1>5, <3>1, PairStays
  <2>2. Pair(g \o Paragraph) /\ g \o Paragraph \in Seq(Whitespace)
    BY <1>5, <2>1, PairStays
  <2>3. QED
    BY <1>5, <1>10, <2>2
<1>12. Raw(new, noise) = u \o h
  <2>1. RawTurns(doc, noise)
    BY RawPage
  <2>2. Raw(new, noise) = IF n = 0 THEN u \o g ELSE (u \o g) \o Paragraph
    BY <1>1, <1>3, <1>5, <2>1 DEF RawTurns
  <2>3. (u \o g) \o Paragraph = u \o (g \o Paragraph)
    <3>1. g \in Seq(Characters) /\ Paragraph \in Seq(Characters)
      BY <1>5, BlankParts, ParagraphIs
    <3>2. Together(u, g, Paragraph)
      BY <1>5, <3>1, TextsTogether
    <3>3. QED
      BY <3>2 DEF Together
  <2>4. QED
    BY <1>10, <2>2, <2>3
<1>13. ReachedBy(full, noise, new, K, u, h)
  BY <1>5, <1>6, <1>9, <1>11, <1>12 DEF ReachedBy
<1>14. Len(K) # 0 => GapTells(full, noise, n + 1, none, LastOfLines(K), h)
  BY <1>7, <1>8, <1>9, <1>11 DEF GapTells
<1>15. QED
  BY <1>1, <1>3, <1>7, <1>13, <1>14 DEF AtLine

\* Less was read before.
LEMMA ReadBefore ==
    ASSUME NEW full \in Seq(Seq(TextLines)), NEW doc \in Seq(Seq(TextLines)),
           NEW page \in Seq(TextLines), ReadOf(full, Append(doc, page))
    PROVE  /\ ReadOf(full, doc)
           /\ \A q \in Seq(TextLines), l \in TextLines :
                page = Append(q, l) => ReadOf(full, Append(doc, q))
<1>1. PICK n \in Nat, m \in Nat : n = Len(doc) /\ m = Len(page)
  BY LenProperties
<1>2. PICK all : all = Append(doc, page)
  OBVIOUS
<1>3. Len(all) = n + 1 /\ all[n + 1] = page /\ \A p \in 1..n : all[p] = doc[p]
  BY <1>1, <1>2, AppendProperties
<1>4. /\ n + 1 <= Len(full) /\ Len(full) \in Nat
      /\ \A p \in 1..(n + 1) : /\ Len(all[p]) <= Len(full[p])
                               /\ \A i \in 1..Len(all[p]) : all[p][i] = full[p][i]
  BY <1>2, <1>3, LenProperties DEF ReadOf
<1>5. \A p \in 1..n : /\ Len(doc[p]) <= Len(full[p])
                      /\ \A i \in 1..Len(doc[p]) : doc[p][i] = full[p][i]
  <2>1. \A p \in 1..n : p \in 1..(n + 1)
    OBVIOUS
  <2>2. QED
    BY <1>3, <1>4, <2>1
<1>6. n <= Len(full)
  BY <1>4
<1>7. ReadOf(full, doc)
  BY <1>1, <1>5, <1>6 DEF ReadOf
<1>8. ASSUME NEW q \in Seq(TextLines), NEW l \in TextLines, page = Append(q, l)
      PROVE  ReadOf(full, Append(doc, q))
  <2>1. PICK k \in Nat : k = Len(q)
    BY LenProperties
  <2>2. m = k + 1 /\ \A i \in 1..k : page[i] = q[i]
    BY <1>1, <1>8, <2>1, AppendProperties
  <2>3. PICK few : few = Append(doc, q)
    OBVIOUS
  <2>4. Len(few) = n + 1 /\ few[n + 1] = q /\ \A p \in 1..n : few[p] = doc[p]
    BY <1>1, <2>3, AppendProperties
  <2>5. n + 1 \in 1..(n + 1) /\ \A i \in 1..k : i \in 1..m
    BY <2>2
  <2>6. Len(full[n + 1]) \in Nat
    <3>1. n + 1 \in 1..Len(full)
      BY <1>4
    <3>2. full[n + 1] \in Seq(TextLines)
      BY <3>1, ElementOfSeq
    <3>3. QED
      BY <3>2, LenProperties
  <2>7. Len(q) <= Len(full[n + 1]) /\ \A i \in 1..Len(q) : q[i] = full[n + 1][i]
    <3>1. m <= Len(full[n + 1]) /\ \A i \in 1..m : page[i] = full[n + 1][i]
      BY <1>1, <1>3, <1>4, <2>5
    <3>2. k <= Len(full[n + 1])
      BY <2>2, <2>6, <3>1
    <3>3. QED
      BY <2>1, <2>2, <2>5, <3>1, <3>2
  <2>8. ASSUME NEW p \in 1..(n + 1)
        PROVE  Len(few[p]) <= Len(full[p]) /\ \A i \in 1..Len(few[p]) : few[p][i] = full[p][i]
    <3>1. CASE p = n + 1
      BY <2>4, <2>7, <3>1
    <3>2. CASE p # n + 1
      <4>1. p \in 1..n
        BY <3>2
      <4>2. QED
        BY <1>5, <2>4, <4>1
    <3>3. QED
      BY <3>1, <3>2
  <2>9. QED
    BY <1>4, <2>3, <2>4, <2>8 DEF ReadOf
<1>9. QED
  BY <1>7, <1>8

\* Line by line, and page by page.
LEMMA PageIsRead ==
    ASSUME NEW full \in Seq(Seq(TextLines)), NEW noise, NEW dropped, Sorts(full, noise, dropped),
           NEW doc \in Seq(Seq(TextLines)), AtPage(full, noise, dropped, doc)
    PROVE  \A page \in Seq(TextLines) :
              ReadOf(full, Append(doc, page)) => AtLine(full, noise, dropped, doc, page)
<1> DEFINE P == { page \in Seq(TextLines) :
                    ReadOf(full, Append(doc, page)) => AtLine(full, noise, dropped, doc, page) }
<1>1. <<>> \in P
  <2>1. PICK none : none = <<>>
    OBVIOUS
  <2>2. none \in Seq(TextLines) /\ AtLine(full, noise, dropped, doc, none)
    BY <2>1, PageTurns
  <2>3. QED
    BY <2>1, <2>2
<1>2. ASSUME NEW page \in Seq(TextLines), NEW l \in TextLines, page \in P PROVE Append(page, l) \in P
  <2>1. PICK more : more = Append(page, l)
    OBVIOUS
  <2>2. more \in Seq(TextLines)
    BY <2>1, AppendProperties
  <2>3. ASSUME ReadOf(full, Append(doc, more)) PROVE AtLine(full, noise, dropped, doc, more)
    <3>1. ReadOf(full, Append(doc, page))
      BY <2>1, <2>2, <2>3, ReadBefore
    <3>2. AtLine(full, noise, dropped, doc, page)
      BY <1>2, <3>1
    <3>3. QED
      BY <2>1, <2>3, <3>2, NextLineKeeps
  <2>4. QED
    BY <2>1, <2>2, <2>3
<1>3. QED
  <2> HIDE DEF P
  <2>1. Seq(TextLines) \subseteq P
    BY <1>1, <1>2, SequenceInduction
  <2>2. QED
    BY <2>1 DEF P

LEMMA DocumentIsRead ==
    ASSUME NEW full \in Seq(Seq(TextLines)), NEW noise, NEW dropped, Sorts(full, noise, dropped)
    PROVE  AtPage(full, noise, dropped, full)
<1> DEFINE P == { doc \in Seq(Seq(TextLines)) :
                    ReadOf(full, doc) => AtPage(full, noise, dropped, doc) }
<1>1. <<>> \in P
  <2>1. PICK none : none = <<>>
    OBVIOUS
  <2>2. none \in Seq(Seq(TextLines)) /\ AtPage(full, noise, dropped, none)
    BY <2>1, NothingRead
  <2>3. QED
    BY <2>1, <2>2
<1>2. ASSUME NEW doc \in Seq(Seq(TextLines)), NEW page \in Seq(TextLines), doc \in P
      PROVE  Append(doc, page) \in P
  <2>1. PICK more : more = Append(doc, page)
    OBVIOUS
  <2>2. more \in Seq(Seq(TextLines))
    BY <2>1, AppendProperties
  <2>3. ASSUME ReadOf(full, more) PROVE AtPage(full, noise, dropped, more)
    <3>1. ReadOf(full, doc)
      BY <2>1, <2>3, ReadBefore
    <3>2. AtPage(full, noise, dropped, doc)
      BY <1>2, <3>1
    <3>3. AtLine(full, noise, dropped, doc, page)
      BY <2>1, <2>3, <3>2, PageIsRead
    <3>4. QED
      BY <2>1, <3>3 DEF AtLine, AtPage
  <2>4. QED
    BY <2>1, <2>2, <2>3
<1>3. Seq(Seq(TextLines)) \subseteq P
  <2> HIDE DEF P
  <2>1. PICK X : X = Seq(TextLines)
    OBVIOUS
  <2>2. \A s \in Seq(X), e \in X : s \in P => Append(s, e) \in P
    BY <1>2, <2>1
  <2>3. Seq(X) \subseteq P
    BY <1>1, <2>2, SequenceInduction
  <2>4. QED
    BY <2>1, <2>3
<1>4. ReadOf(full, full)
  <2>1. Len(full) \in Nat /\ \A p \in 1..Len(full) : Len(full[p]) \in Nat
    <3>1. \A p \in 1..Len(full) : full[p] \in Seq(TextLines)
      BY ElementOfSeq
    <3>2. QED
      BY <3>1, LenProperties
  <2>2. QED
    BY <2>1 DEF ReadOf
<1>5. QED
  BY <1>3, <1>4

\* So a document is told as its lines are.
LEMMA DocumentIsTold ==
    ASSUME NEW full \in Seq(Seq(TextLines)), NEW noise, NEW dropped, Sorts(full, noise, dropped)
    PROVE  Prose(JoinHyphens(Raw(full, noise))) = Told(full, KeptLines(full, dropped))
<1>1. PICK u, g : ReachedBy(full, noise, full, KeptLines(full, dropped), u, g)
  BY DocumentIsRead DEF AtPage
<1>2. PICK J : J = JoinHyphens(u)
  OBVIOUS
<1>3. /\ Raw(full, noise) = u \o g /\ g \in Seq(Whitespace) /\ u \in Seq(Characters)
      /\ J \in Seq(Characters) /\ Settled(J)
      /\ Prose(J) = Told(full, KeptLines(full, dropped))
  BY <1>1, <1>2 DEF ReachedBy, Tells
<1>4. JoinHyphens(u \o g) = J \o g
  BY <1>2, <1>3, JoinedBehind
<1>5. Prose(J \o g) = Prose(J)
  BY <1>3, ProseEnds
<1>6. QED
  BY <1>3, <1>4, <1>5

-----------------------------------------------------------------------------
(* What normalize_text drops and keeps.                                    *)

StripOf(pages, p, i) == Strip(pages[p][i])

OnPage(pages, p) == { StripOf(pages, p, i) : i \in DOMAIN pages[p] } \ {<<>>}

\* The lines that the code drops are the ones that are noise.
LEMMA DroppedIsNoise ==
    ASSUME NEW pages \in Seq(Seq(TextLines)), NEW p \in DOMAIN pages, NEW i \in DOMAIN pages[p],
           NEW l, l = pages[p][i]
    PROVE  Strip(l) \in RecurringBoilerplate(pages) \/ PageNumberish(l) <=> IsNoise(pages, l)
<1>1. PICK s : s = Strip(l)
  OBVIOUS
<1>2. PICK n \in Nat : n = Len(pages)
  BY LenProperties
<1>3. RecurringBoilerplate(pages)
        = IF n < 3 THEN {}
          ELSE { x \in UNION { OnPage(pages, q) : q \in DOMAIN pages } :
                   2 * Cardinality({ q \in DOMAIN pages : x \in OnPage(pages, q) }) > n }
  BY <1>2 DEF RecurringBoilerplate, OnPage, StripOf
<1>4. s # <<>> => s \in OnPage(pages, p)
  <2>1. s \in { StripOf(pages, p, j) : j \in DOMAIN pages[p] }
    BY <1>1 DEF StripOf
  <2>2. QED
    BY <2>1 DEF OnPage
<1>5. s # <<>> => { q \in DOMAIN pages : s \in OnPage(pages, q) }
                    = { q \in DOMAIN pages : \E j \in DOMAIN pages[q] : Strip(pages[q][j]) = s }
  <2>1. ASSUME s # <<>>, NEW q \in DOMAIN pages
        PROVE  s \in OnPage(pages, q) <=> \E j \in DOMAIN pages[q] : Strip(pages[q][j]) = s
    BY <2>1 DEF OnPage, StripOf
  <2>2. QED
    BY <2>1
<1>6. s = <<>> => s \notin UNION { OnPage(pages, q) : q \in DOMAIN pages }
  BY DEF OnPage
<1>7. PICK A, B : /\ A = Cardinality({ q \in DOMAIN pages : s \in OnPage(pages, q) })
                  /\ B = Cardinality({ q \in DOMAIN pages :
                                         \E j \in DOMAIN pages[q] : Strip(pages[q][j]) = s })
  OBVIOUS
<1>8. s \in RecurringBoilerplate(pages)
        <=> ~ (n < 3) /\ s \in UNION { OnPage(pages, q) : q \in DOMAIN pages } /\ 2 * A > n
  BY <1>3, <1>7
<1>9. s # <<>> => (s \in RecurringBoilerplate(pages) <=> n >= 3 /\ 2 * B > n)
  <2>1. s # <<>> => A = B
    BY <1>5, <1>7
  <2>2. s # <<>> => s \in UNION { OnPage(pages, q) : q \in DOMAIN pages }
    BY <1>4
  <2>3. ~ (n < 3) <=> n >= 3
    OBVIOUS
  <2>4. QED
    BY <1>8, <2>1, <2>2, <2>3
<1>10. IsNoise(pages, l) <=> s # <<>> /\ (ToSet(s) \subseteq Digits \/ (n >= 3 /\ 2 * B > n))
  BY <1>1, <1>2, <1>7 DEF IsNoise
<1>11. PageNumberish(l) <=> s # <<>> /\ ToSet(s) \subseteq Digits
  BY <1>1 DEF PageNumberish
<1>12. QED
  BY <1>1, <1>6, <1>8, <1>9, <1>10, <1>11

NoiseOf(pages) == { l \in TextLines : IsNoise(pages, l) }

DroppedOf(pages) ==
    { x \in Nat \X Nat : Strip(LineAt(pages, x)) = <<>> \/ IsNoise(pages, LineAt(pages, x)) }

LEMMA NoiseIsSorted ==
    ASSUME NEW pages \in Seq(Seq(TextLines))
    PROVE  Sorts(pages, NoiseOf(pages), DroppedOf(pages))
<1>1. \A l \in TextLines : Strip(l) \in Seq(Characters)
  BY EndOfLineIs, StripIs
<1>2. \A l \in TextLines : Strip(l) = <<>> <=> Len(Strip(l)) = 0
  BY <1>1, EmptySeq
<1>3. \A l \in NoiseOf(pages) : Len(Strip(l)) # 0
  BY <1>2 DEF NoiseOf, IsNoise
<1>4. ASSUME NEW x \in LinePlaces(pages)
      PROVE  x \in DroppedOf(pages)
               <=> Len(Strip(LineAt(pages, x))) = 0 \/ LineAt(pages, x) \in NoiseOf(pages)
  <2>1. LineAt(pages, x) \in TextLines /\ x \in Nat \X Nat
    BY SaysIs DEF LinePlaces
  <2>2. QED
    BY <1>2, <2>1 DEF DroppedOf, NoiseOf
<1>5. QED
  BY <1>3, <1>4 DEF Sorts

LEMMA RawTextIs ==
    ASSUME NEW pages \in Seq(Seq(TextLines))
    PROVE  RawText(pages) = Raw(pages, NoiseOf(pages))
<1>1. PICK boilerplate, noise : boilerplate = RecurringBoilerplate(pages) /\ noise = NoiseOf(pages)
  OBVIOUS
<1>2. ASSUME NEW p \in DOMAIN pages
      PROVE  CleanPage(pages[p], boilerplate) = Without(pages[p], noise)
  <2>1. PICK page, D : /\ page = pages[p]
                       /\ D = { x \in ToSet(page) : Strip(x) \in boilerplate \/ PageNumberish(x) }
    OBVIOUS
  <2>2. page \in Seq(TextLines)
    <3>1. p \in 1..Len(pages)
      BY LenProperties
    <3>2. QED
      BY <2>1, <3>1, ElementOfSeq
  <2>3. DOMAIN page = 1..Len(page)
    BY <2>2, LenProperties
  <2>4. ASSUME NEW i \in 1..Len(page) PROVE page[i] \in D <=> page[i] \in noise
    <3>1. PICK l : l = page[i]
      OBVIOUS
    <3>2. l \in TextLines /\ l \in ToSet(page)
      BY <2>2, <2>3, <3>1, ElementOfSeq DEF ToSet
    <3>3. Strip(l) \in RecurringBoilerplate(pages) \/ PageNumberish(l) <=> IsNoise(pages, l)
      BY <2>1, <2>3, <3>1, DroppedIsNoise
    <3>4. l \in D <=> Strip(l) \in boilerplate \/ PageNumberish(l)
      BY <2>1, <3>2
    <3>5. l \in noise <=> IsNoise(pages, l)
      BY <1>1, <3>2 DEF NoiseOf
    <3>6. QED
      BY <1>1, <3>1, <3>3, <3>4, <3>5
  <2>5. Without(page, D) = Without(page, noise)
    BY <2>2, <2>4, WithoutAgrees
  <2>6. CleanPage(page, boilerplate) = Without(page, D)
    BY <2>1 DEF CleanPage
  <2>7. QED
    BY <2>1, <2>5, <2>6
<1>3. [p \in DOMAIN pages |-> Join(CleanPage(pages[p], boilerplate), <<NewLine>>)]
        = [p \in DOMAIN pages |-> Join(Without(pages[p], noise), <<NewLine>>)]
  BY <1>2
<1>4. RawText(pages)
        = Join([p \in DOMAIN pages |-> Join(CleanPage(pages[p], boilerplate), <<NewLine>>)], Paragraph)
  BY <1>1 DEF RawText
<1>5. Raw(pages, noise)
        = Join([p \in DOMAIN pages |-> Join(Without(pages[p], noise), <<NewLine>>)], Paragraph)
  BY DEF Raw, PageTexts, PageText, EndOfLine
<1>6. QED
  BY <1>1, <1>3, <1>4, <1>5

LEMMA ReadingIs ==
    ASSUME NEW pages \in Seq(Seq(TextLines))
    PROVE  /\ Reading(pages) = KeptLines(pages, DroppedOf(pages))
           /\ Reading(pages) \in Seq(Nat \X Nat)
<1>1. PICK P, X, D, E : /\ P = Places(pages) /\ X = Nat \X Nat /\ E = DroppedOf(pages)
                        /\ D = { x \in ToSet(P) : \/ Strip(LineAt(pages, x)) = <<>>
                                                  \/ IsNoise(pages, LineAt(pages, x)) }
  OBVIOUS
<1>2. P \in Seq(X)
  <2>1. PICK none : none = <<>>
    OBVIOUS
  <2>2. none \in Seq(TextLines)
    BY <2>1
  <2>3. PlacesGrow(pages, none)
    BY <2>2, PlacesAppend
  <2>4. QED
    BY <1>1, <2>3 DEF PlacesGrow
<1>3. DOMAIN P = 1..Len(P)
  BY <1>2, LenProperties
<1>4. ASSUME NEW i \in 1..Len(P) PROVE P[i] \in D <=> P[i] \in E
  <2>1. P[i] \in X /\ P[i] \in ToSet(P)
    BY <1>2, <1>3, ElementOfSeq DEF ToSet
  <2>2. QED
    BY <1>1, <2>1 DEF DroppedOf
<1>5. Without(P, D) = Without(P, E)
  BY <1>2, <1>4, WithoutAgrees
<1>6. Without(P, D) \in Seq(X)
  BY <1>2, WithoutAll
<1>7. QED
  BY <1>1, <1>5, <1>6 DEF Reading, KeptLines

\* A line of nothing is blank.
LEMMA ApartIs ==
    ASSUME NEW pages, NEW x, NEW y, ParagraphEnds(pages, x, y)
    PROVE  SetApart(pages, x, y)
<1>1. PICK none : none = <<>>
  OBVIOUS
<1>2. Solid(none) = {}
  BY <1>1 DEF Solid
<1>3. Strip(none) = none
  BY <1>1, <1>2 DEF Strip
<1>4. QED
  BY <1>1, <1>3 DEF ParagraphEnds, SetApart

\* The links normalize_text makes.
LinkKind(full, x, y) ==
    IF GoesOn(Says(full, x), Says(full, y)) THEN "join"
    ELSE IF ParagraphEnds(full, x, y) THEN "break" ELSE "blank"

LinksMade(full, lines) ==
    [i \in 1..(Len(lines) - 1) |-> LinkKind(full, lines[i], lines[i + 1])]

LEMMA LinkIsAllowed ==
    ASSUME NEW full, NEW x, NEW y
    PROVE  LinkKind(full, x, y) \in Links(full, x, y) \cap {"join", "blank", "break"}
<1>1. LinkKind(full, x, y) = "join" => GoesOn(Says(full, x), Says(full, y))
  BY DEF LinkKind
<1>2. LinkKind(full, x, y) = "blank" =>
        ~GoesOn(Says(full, x), Says(full, y)) /\ ~ParagraphEnds(full, x, y)
  BY DEF LinkKind
<1>3. LinkKind(full, x, y) = "break" => ParagraphEnds(full, x, y)
  BY DEF LinkKind
<1>4. LinkKind(full, x, y) \in {"join", "blank", "break"}
  BY DEF LinkKind
<1>5. QED
  BY <1>1, <1>2, <1>3, <1>4, ApartIs DEF Links, Says

\* The exact text is one of those told under allowed links.
LEMMA ToldByLinks ==
    ASSUME NEW full, NEW X, NEW lines \in Seq(X)
    PROVE  Told(full, lines) = Telling(full, lines, LinksMade(full, lines))
<1>1. PICK n \in Nat : n = Len(lines) /\ DOMAIN lines = 1..n
  BY LenProperties
<1>2. PICK links : links = LinksMade(full, lines)
  OBVIOUS
<1>3. DOMAIN links = 1..(n - 1)
  BY <1>1, <1>2 DEF LinksMade
<1>4. ASSUME NEW i \in 1..n
      PROVE  i \in DOMAIN links /\ links[i] = "join" <=> WordGoesOn(full, lines, i)
  <2>1. i \in 1..(n - 1) <=> i + 1 \in 1..n
    OBVIOUS
  <2>2. i \in 1..(n - 1) =>
          links[i] = LinkKind(full, lines[i], lines[i + 1])
    BY <1>1, <1>2 DEF LinksMade
  <2>3. LinkKind(full, lines[i], lines[i + 1]) = "join"
          <=> GoesOn(Says(full, lines[i]), Says(full, lines[i + 1]))
    BY DEF LinkKind
  <2>4. QED
    BY <1>1, <1>3, <2>1, <2>2, <2>3 DEF WordGoesOn
<1>5. ASSUME NEW i \in 1..n, i # 1
      PROVE  /\ i - 1 \in 1..n
             /\ ~WordGoesOn(full, lines, i - 1) =>
                  Link(full, lines[i - 1], lines[i])
                    = IF links[i - 1] = "break" THEN Paragraph ELSE << Blank >>
  <2>1. i - 1 \in 1..n /\ i - 1 \in 1..(n - 1) /\ i - 1 + 1 = i
    BY <1>5
  <2>2. links[i - 1] = LinkKind(full, lines[i - 1], lines[i])
    BY <1>1, <1>2, <2>1 DEF LinksMade
  <2>3. ~WordGoesOn(full, lines, i - 1) => links[i - 1] # "join"
    BY <1>3, <1>4, <2>1
  <2>4. links[i - 1] # "join" =>
          (links[i - 1] = "break" <=> ParagraphEnds(full, lines[i - 1], lines[i]))
    BY <2>2 DEF LinkKind
  <2>5. QED
    BY <2>1, <2>3, <2>4 DEF Link, OneBlank
<1>6. ASSUME NEW i \in DOMAIN lines
      PROVE  GapAt(full, lines, i)
               = IF i = 1 \/ (i - 1 \in DOMAIN links /\ links[i - 1] = "join") THEN <<>>
                 ELSE IF links[i - 1] = "break" THEN Paragraph ELSE << Blank >>
  BY <1>1, <1>4, <1>5 DEF GapAt
<1>7. ASSUME NEW i \in DOMAIN lines
      PROVE  (IF WordGoesOn(full, lines, i) THEN Front(Says(full, lines[i]))
              ELSE Says(full, lines[i]))
               = IF i \in DOMAIN links /\ links[i] = "join" THEN Front(Written(LineAt(full, lines[i])))
                 ELSE Written(LineAt(full, lines[i]))
  BY <1>1, <1>4 DEF Says
<1>8. [i \in DOMAIN lines |->
        GapAt(full, lines, i) \o IF WordGoesOn(full, lines, i) THEN Front(Says(full, lines[i]))
                                 ELSE Says(full, lines[i])]
       = [i \in DOMAIN lines |->
           (IF i = 1 \/ (i - 1 \in DOMAIN links /\ links[i - 1] = "join") THEN <<>>
            ELSE IF links[i - 1] = "break" THEN Paragraph ELSE << Blank >>)
           \o IF i \in DOMAIN links /\ links[i] = "join" THEN Front(Written(LineAt(full, lines[i])))
              ELSE Written(LineAt(full, lines[i]))]
  BY <1>6, <1>7
<1>9. QED
  BY <1>2, <1>8 DEF Told, Telling

\* For every document of lines: no running header, footer or page number reaches
\* the text, every other word does, in order, a word broken at a line's end is
\* whole again, and a page or an empty line, and nothing but a page or a blank
\* line, starts a paragraph; what sets the halves of a word apart may do either
\* (normalize_text).
THEOREM WordsAlwaysSurvive == ComputationsSpec => []WordsAndParagraphsSurvive
<1>1. ReturnInv => WordsAndParagraphsSurvive
  <2> SUFFICES ASSUME ReturnInv, output.kind = "normalize" PROVE WordsAndParagraphsSurvive
    BY DEF WordsAndParagraphsSurvive
  <2>1. PICK pages, lines : pages = input.pages /\ lines = Reading(pages)
    OBVIOUS
  <2>2. input \in Inputs /\ input.kind = "normalize" /\ output.value = NormalizeText(pages)
    BY <2>1 DEF ReturnInv, NotYet
  <2>3. input \in [kind : {"normalize"}, pages : Documents]
    BY <2>2 DEF Inputs
  <2>4. pages \in Seq(Seq(TextLines))
    BY <2>1, <2>3, DocumentsAssumption DEF TextLines
  <2>5. NormalizeText(pages) = Prose(JoinHyphens(RawText(pages)))
    BY DEF NormalizeText, Prose, Paragraphs, EachTidy, Tidy, Spaced, Cuts, Unended, OneBlank
  <2>6. Sorts(pages, NoiseOf(pages), DroppedOf(pages))
    BY <2>4, NoiseIsSorted
  <2>7. Prose(JoinHyphens(Raw(pages, NoiseOf(pages)))) = Told(pages, KeptLines(pages, DroppedOf(pages)))
    BY <2>4, <2>6, DocumentIsTold
  <2>8. output.value = Told(pages, lines)
    BY <2>1, <2>2, <2>4, <2>5, <2>7, RawTextIs, ReadingIs
  <2>9. lines \in Seq(Nat \X Nat)
    BY <2>1, <2>4, ReadingIs
  <2>10. PICK links : links = LinksMade(pages, lines)
    OBVIOUS
  <2>11. output.value = Telling(pages, lines, links)
    BY <2>8, <2>9, <2>10, ToldByLinks
  <2>12. /\ DOMAIN links = 1..(Len(lines) - 1)
         /\ \A i \in DOMAIN links : /\ links[i] \in Links(pages, lines[i], lines[i + 1])
                                    /\ links[i] \in {"join", "blank", "break"}
    BY <2>10, LinkIsAllowed DEF LinksMade
  <2>13. links \in [1..(Len(lines) - 1) -> {"join", "blank", "break"}]
    BY <2>10, <2>12 DEF LinksMade
  <2>14. QED
    BY <2>1, <2>11, <2>12, <2>13 DEF WordsAndParagraphsSurvive
<1>2. QED
  BY <1>1, ReturnInvHolds, PTL
=============================================================================
