------------------------------- MODULE Splitter -------------------------------
(***************************************************************************)
(* From pages to chunks: normalize_text and split_text of                  *)
(* src/src/ingestion.py, as operators.                                     *)
(*                                                                         *)
(* A text is a sequence of characters, of which the code tells apart word  *)
(* characters, digits, the hyphen, the blank, the end of a line and the    *)
(* punctuation its separators name.  A page number is a line of digits.    *)
(***************************************************************************)
EXTENDS Integers, Sequences, FiniteSets, SequencesExt, Selection

CONSTANTS
    Letters,     \* word characters, digits aside
    Digits,
    Separators   \* _SEPARATORS without the empty one, largest unit first

Blank == " "
Hyphen == "-"
NewLine == "\n"
Paragraph == <<NewLine, NewLine>>

WordChars == Letters \cup Digits

Whitespace == {Blank, NewLine}

Characters ==
    WordChars \cup Whitespace \cup {Hyphen}
        \cup UNION { ToSet(Separators[i]) : i \in DOMAIN Separators }

\* No separator is part of a word, and the ends of lines and the blank are among them.
ASSUME SeparatorsAssumption ==
    /\ Separators \in Seq(Seq(Characters \ WordChars) \ {<<>>})
    /\ { << space >> : space \in Whitespace } \subseteq ToSet(Separators)

-----------------------------------------------------------------------------
(* Python's strip, split and join.                                         *)

Solid(text) == { i \in DOMAIN text : text[i] \notin Whitespace }

Strip(text) ==
    IF Solid(text) = {} THEN <<>>
    ELSE SubSeq(text, Min(Solid(text)), Max(Solid(text)))

OccursAt(sep, text, i) == SubSeq(text, i, i + Len(sep) - 1) = sep

Occurrences(sep, text) ==
    { i \in 1..(Len(text) - Len(sep) + 1) : OccursAt(sep, text, i) }

\* Each cut is at the first separator behind the one before.
SplitAt(text, sep) ==
    LET from[i \in 1..(Len(text) + 1)] ==
            LET next == { j \in Occurrences(sep, text) : j >= i } IN
            IF next = {} THEN << SubSeq(text, i, Len(text)) >>
            ELSE << SubSeq(text, i, Min(next) - 1) >> \o from[Min(next) + Len(sep)]
    IN from[1]

Joined(left, sep, right) == IF left = <<>> THEN right ELSE left \o sep \o right

Join(parts, sep) ==
    FlattenSeq([i \in DOMAIN parts |-> IF i = 1 THEN parts[i] ELSE sep \o parts[i]])

NonBlank(texts) == Without(texts, Seq(Whitespace))

\* Runs of blanks count as one and those at the ends as none.
Words(text) == NonBlank(SplitAt(text, <<Blank>>))

-----------------------------------------------------------------------------
(* Normalisation: a page is a sequence of lines.                           *)

PageNumberish(line) == Strip(line) # <<>> /\ ToSet(Strip(line)) \subseteq Digits

\* Fault: a line is counted as often as it occurs.
RecurringBoilerplate_Total(pages) ==
    IF Len(pages) < 3 THEN {}
    ELSE LET all == FlattenSeq(pages) IN
         { x \in { Strip(all[i]) : i \in DOMAIN all } \ {<<>>} :
             2 * Cardinality({ i \in DOMAIN all : Strip(all[i]) = x }) > Len(pages) }

\* Lines of more than half of the pages, each page voting once.
RecurringBoilerplate(pages) ==
    LET onPage(p) == { Strip(pages[p][i]) : i \in DOMAIN pages[p] } \ {<<>>} IN
    IF Len(pages) < 3 THEN {}
    ELSE { x \in UNION { onPage(p) : p \in DOMAIN pages } :
             2 * Cardinality({ p \in DOMAIN pages : x \in onPage(p) }) > Len(pages) }

CleanPage(page, boilerplate) ==
    Without(page, { x \in ToSet(page) : Strip(x) \in boilerplate \/ PageNumberish(x) })

RawText(pages) ==
    LET boilerplate == RecurringBoilerplate(pages) IN
    Join([p \in DOMAIN pages |-> Join(CleanPage(pages[p], boilerplate), <<NewLine>>)], Paragraph)

\* Where a word is broken by a hyphen at the end of a line: the hyphen's
\* position and that of the character the word goes on with.
HyphenBreaks(text) ==
    { b \in (2..Len(text)) \X (3..Len(text)) :
        /\ text[b[1]] = Hyphen
        /\ text[b[1] - 1] \in WordChars
        /\ text[b[2]] \in WordChars
        /\ \E i \in (b[1] + 1)..(b[2] - 1) : text[i] = NewLine
        /\ \A i \in (b[1] + 1)..(b[2] - 1) : text[i] \in Whitespace }

\* The passes are repeated until no break is left; none makes or unmakes another.
JoinHyphens(text) ==
    LET dropped == UNION { b[1]..(b[2] - 1) : b \in HyphenBreaks(text) }
    IN FlattenSeq([i \in DOMAIN text |-> IF i \in dropped THEN <<>> ELSE << text[i] >>])

IsNewLine(text, i) == i \in DOMAIN text /\ text[i] = NewLine

\* A line break on its own is a blank.
Unwrap(text) ==
    [i \in DOMAIN text |->
        IF IsNewLine(text, i) /\ ~IsNewLine(text, i - 1) /\ ~IsNewLine(text, i + 1)
        THEN Blank ELSE text[i]]

NormalizeText(pages) ==
    LET tidy(part) == Join(Words(Without(part, {NewLine})), <<Blank>>)
        parts == NonBlank(SplitAt(Unwrap(JoinHyphens(RawText(pages))), Paragraph))
    IN Join([i \in DOMAIN parts |-> tidy(parts[i])], Paragraph)

-----------------------------------------------------------------------------
(* Splitting.                                                              *)

\* No usable boundary left: cuts of the window's length.
HardCut(text, size) ==
    [i \in 1..((Len(text) + size - 1) \div size) |->
        SubSeq(text, (i - 1) * size + 1, Min({i * size, Len(text)}))]

\* Fault: the separator that joins the two is not counted.
FitsWindow_Unjoined(buffer, sep, piece, size) == Len(buffer) + Len(piece) <= size

FitsWindow(buffer, sep, piece, size) == Len(Joined(buffer, sep, piece)) <= size

\* Fault: an oversized piece discards what was gathered before it.
Flushed_Lost(s, piece, size) ==
    IF s.buffer = <<>> \/ Len(piece) > size THEN s.out ELSE Append(s.out, s.buffer)

Flushed(s, piece, size) ==
    IF s.buffer = <<>> THEN s.out ELSE Append(s.out, s.buffer)

\* A piece that is too long is split at the separators that are left.
SplitRecursive(text, size, seps) ==
    LET split[k \in 1..(Len(seps) + 1)] == [piece \in Seq(Characters) |->
            LET usable == { i \in k..Len(seps) : Occurrences(seps[i], piece) # {} }
                sep == seps[Min(usable)]
                Take(s, part) ==
                    IF FitsWindow(s.buffer, sep, part, size)
                    THEN [s EXCEPT !.buffer = Joined(s.buffer, sep, part)]
                    ELSE IF Len(part) > size
                    THEN [out |-> Flushed(s, part, size) \o split[Min(usable) + 1][part],
                          buffer |-> <<>>]
                    ELSE [out |-> Flushed(s, part, size), buffer |-> part]
                end == FoldLeft(Take, [out |-> <<>>, buffer |-> <<>>], SplitAt(piece, sep))
            IN  IF Len(piece) <= size THEN IF piece = <<>> THEN <<>> ELSE << piece >>
                ELSE IF usable = {} THEN HardCut(piece, size)
                ELSE NonBlank(Flushed(end, <<>>, size))]
    IN split[1][text]

\* The last `n` characters.
LastOf(text, n) == SubSeq(text, Max({1, Len(text) - n + 1}), Len(text))

\* Fault: tail and piece are joined without a blank.
WithTail_Glued(chunk, piece, overlap) == Strip(LastOf(chunk, overlap) \o piece)

\* A chunk starts with the tail of the one before it.
WithTail(chunk, piece, overlap) == Strip(LastOf(chunk, overlap) \o <<Blank>> \o piece)

SplitText(text, size, overlap) ==
    LET pieces == SplitRecursive(Strip(text), size, Separators) IN
    IF overlap = 0 \/ Len(pieces) <= 1 THEN pieces
    ELSE FoldLeft(LAMBDA chunks, piece : Append(chunks, WithTail(Last(chunks), piece, overlap)),
                  << Head(pieces) >>, Tail(pieces))
=============================================================================
