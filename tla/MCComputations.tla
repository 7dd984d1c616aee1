-------------------------- MODULE MCComputations --------------------------
EXTENDS Computations

\* Lines of a page: a word broken by a hyphen, one that may go on with it, one
\* set in, two words, a page number, a running header, a line of blanks and an
\* empty one.
Broken == <<"a", "-">>
Number == <<"7">>
Header == <<"h">>
Rest == <<"b", "-">>
SetIn == <<" ", "b">>
TwoWords == <<"a", " ", " ", "b", "-">>
BlankLine == <<" ">>
EmptyLine == <<>>

AllLines == {Broken, Number, Header, Rest, SetIn, TwoWords, BlankLine, EmptyLine}

MCDocuments ==
    { << p >> : p \in SeqOf(AllLines, 3) }
    \cup { << p, q >> : p \in SeqOf(AllLines, 2), q \in SeqOf(AllLines, 2) }
    \cup { << p, q, r >> : p \in SeqOf({Broken, Header, Number}, 2),
                           q \in SeqOf({SetIn, Header, EmptyLine}, 2),
                           r \in SeqOf({Header, SetIn, Number}, 2) }

MCSeparators == << <<"\n", "\n">>, <<"\n">>, <<".", " ">>, <<" ">> >>

MCLetters == {"a", "b", "h"}
MCDigits == {"7"}

\* Words and stops with one gap between them, as normalisation leaves them.
Gaps == { <<" ">>, <<"\n", "\n">> }
Solids == { <<"a">>, <<"b">>, <<".">> }

MCTexts ==
    { FlattenSeq(atoms) : atoms \in
        { s \in SeqOf(Gaps \cup Solids, 6) :
            /\ s = <<>> \/ (Head(s) \notin Gaps /\ Last(s) \notin Gaps)
            /\ \A i \in 2..Len(s) : s[i] \in Gaps => s[i - 1] \notin Gaps } }

MCScores == {-2, 1, 2, 3, 4, 5}
MCCandidates == <<2, 3, 4>>

MCInScores == SeqOf(MCScores, 3) \ {<<>>}
MCOutScores == SeqOf(MCScores, 2) \ {<<>>}

MCWindows == { <<2, 0>>, <<2, 1>>, <<3, 0>>, <<3, 2>>, <<4, 1>>, <<5, 3>> }

\* Both sides of where the report's sentences cease to be true, and the volume
\* its usage names.
MCVolumes == {1, 50, 115, 116, 467, 468, 500}

MCAnswers == SeqOf({"dock", "key", "the", "cite"}, 4)

\* Claims a and b, a paraphrase of each, a short note and a marker.
MCUnits == {"a", "b", "likeA", "likeB", "note", "mark"}

MCSize == [u \in MCUnits |-> CASE u = "note" -> 12 [] u = "mark" -> 5 [] OTHER -> 15]

MCCloseness ==
    [p \in MCUnits \X MCUnits |->
        IF p[1] = p[2] THEN 100
        ELSE CASE {p[1], p[2]} = {"a", "likeA"} -> 80
               [] {p[1], p[2]} = {"b", "likeB"} -> 49
               [] {p[1], p[2]} = {"a", "note"} -> 65
               [] {p[1], p[2]} = {"a", "b"} -> 35
               [] OTHER -> -5]

MCClaims == SeqOf(MCUnits, 3)
MCGrounds == SeqOf(MCUnits, 2)
=============================================================================
