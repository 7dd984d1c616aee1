---------------------------- MODULE Computations ----------------------------
(***************************************************************************)
(* The computations of the system that keep no state, each applied once to *)
(* every input of a bounded set: normalising pages and splitting text      *)
(* (ingestion.py), choosing the threshold (calibrate_threshold.py), the    *)
(* text metrics (text_metrics.py), the local evaluator (local_judge.py)    *)
(* and the cost report (cost_analysis.py).                                 *)
(* The properties say what each computes without following how.            *)
(***************************************************************************)
EXTENDS EvalDataset, Calibration, TextMetrics, LocalJudge, CostModel

CONSTANTS
    Documents,    \* sequences of pages
    Texts,        \* normalised texts
    Windows,      \* pairs of a chunk size and an overlap
    InScores,     \* top scores of the answerable questions
    OutScores,    \* and of the others
    Answers,      \* sequences of tokens
    Claims,       \* answers in sentences
    Grounds,      \* contexts in sentences
    Volumes       \* --queries-per-month, in thousands

\* Both kinds of probe questions are there.
ASSUME ScoresAssumption ==
    InScores \cup OutScores \subseteq Seq(Int) \ {<<>>}

\* Lines are what splitlines leaves: they hold no line end.
ASSUME DocumentsAssumption == Documents \subseteq Seq(Seq(Seq(Characters \ {NewLine})))

\* Normalised: no two blanks are side by side.
ASSUME TextsAssumption ==
    /\ Texts \subseteq Seq(Characters)
    /\ \A text \in Texts : \A i \in 1..(Len(text) - 1) :
          << text[i], text[i + 1] >> # << Blank, Blank >>

\* split_text raises for any other.
ASSUME WindowsAssumption == Windows \subseteq { w \in Nat \X Nat : w[2] < w[1] }

ASSUME VolumesAssumption == Volumes \subseteq Nat

ASSUME SentencesAssumption == Claims \cup Grounds \subseteq Seq(Units)

ASSUME AnswersAssumption == \A answer \in Answers : answer \in Seq(ToSet(answer))

VARIABLES input, output

computationsVars == <<input, output>>

NotYet == [kind |-> "none"]

Inputs ==
    [kind : {"normalize"}, pages : Documents]
    \cup [kind : {"split"}, text : Texts, window : Windows]
    \cup [kind : {"calibrate"}, inScores : InScores, outScores : OutScores]
    \cup [kind : {"f1"}, prediction : Answers, gold : Answers]
    \cup [kind : {"local"}, answer : Claims, context : Grounds]
    \cup [kind : {"cost"}, queries : Volumes]

ComputationsInit == input \in Inputs /\ output = NotYet

Asked(kind) == output = NotYet /\ input.kind = kind

Return(value) == output' = [kind |-> input.kind, value |-> value] /\ UNCHANGED input

Normalize == Asked("normalize") /\ Return(NormalizeText(input.pages))

Split ==
    /\ Asked("split")
    /\ Return(SplitText(input.text, input.window[1], input.window[2]))

Calibrate == Asked("calibrate") /\ Return(ChosenTau(input.inScores, input.outScores))

ScoreAnswer == Asked("f1") /\ Return(TokenF1(input.prediction, input.gold))

\* The cosine of question and answer is chosen freely.
Judge(relevance) ==
    /\ Asked("local")
    /\ Return(JudgeAnswerLocally(input.answer, input.context, relevance))

Compare ==
    /\ Asked("cost")
    /\ Return([scales |-> [v \in Scales |-> ScaleCost(v, input.queries)],
               sensitivity |-> [m \in {1, 10, 100} |-> SensitivityRow(10000, m)]])

ComputationsNext ==
    \/ Normalize \/ Split \/ Calibrate \/ ScoreAnswer \/ Compare
    \/ \E relevance \in {34, 35, 80} : Judge(relevance)

ComputationsSpec == ComputationsInit /\ [][ComputationsNext]_computationsVars

-----------------------------------------------------------------------------
(* Normalisation, word by word.                                            *)

\* Where the lines are, page by page.
Places(pages) ==
    FlattenSeq([p \in DOMAIN pages |-> [i \in DOMAIN pages[p] |-> << p, i >>]])

LineAt(pages, x) == pages[x[1]][x[2]]

IsNoise(pages, line) ==
    /\ Strip(line) # <<>>
    /\ \/ ToSet(Strip(line)) \subseteq Digits
       \/ /\ Len(pages) >= 3
          /\ 2 * Cardinality({ p \in DOMAIN pages :
                \E i \in DOMAIN pages[p] : Strip(pages[p][i]) = Strip(line) }) > Len(pages)

\* The lines that hold words, in reading order.
Reading(pages) ==
    Without(Places(pages), { x \in ToSet(Places(pages)) :
                               Strip(LineAt(pages, x)) = <<>> \/ IsNoise(pages, LineAt(pages, x)) })

\* What a line says: its words with one blank between two.
Written(line) ==
    LET said == Strip(line) IN
    FlattenSeq([i \in DOMAIN said |->
                  IF said[i] = Blank THEN <<>>
                  ELSE IF i > 1 /\ said[i - 1] = Blank THEN << Blank, said[i] >>
                  ELSE << said[i] >>])

\* A paragraph ends with its page and at an empty line.
ParagraphEnds(pages, x, y) ==
    \/ x[1] # y[1]
    \/ \E l \in (x[2] + 1)..(y[2] - 1) : pages[x[1]][l] = <<>>

GoesOn(word, next) ==
    /\ Len(word) >= 2 /\ Last(word) = Hyphen
    /\ word[Len(word) - 1] \in WordChars /\ Head(next) \in WordChars

\* A page or a blank line, of nothing or of blanks, lies between the two.
SetApart(pages, x, y) ==
    \/ x[1] # y[1]
    \/ \E l \in (x[2] + 1)..(y[2] - 1) : Strip(pages[x[1]][l]) = <<>>

\* How a line that holds words may be linked to the next.  Where a broken word
\* is set apart from its rest, and where only a line of blanks does so, joining
\* and a paragraph break are both in the sense of the code's description.
Links(pages, x, y) ==
    LET goesOn == GoesOn(Written(LineAt(pages, x)), Written(LineAt(pages, y))) IN
    { link \in {"join", "blank", "break"} :
        /\ link = "join" => goesOn
        /\ link = "blank" => ~goesOn /\ ~ParagraphEnds(pages, x, y)
        /\ link = "break" => SetApart(pages, x, y) }

\* The text of the lines under given links.
Telling(pages, lines, links) ==
    LET joins(i) == i \in DOMAIN links /\ links[i] = "join"
        gap(i) == IF i = 1 \/ joins(i - 1) THEN <<>>
                  ELSE IF links[i - 1] = "break" THEN Paragraph ELSE << Blank >>
        said(i) == LET word == Written(LineAt(pages, lines[i]))
                   IN IF joins(i) THEN Front(word) ELSE word
    IN FlattenSeq([i \in DOMAIN lines |-> gap(i) \o said(i)])

\* A running header, footer or page number never reaches the text, every other
\* word does, in order: a word broken at a line's end is whole again, whatever
\* was dropped in between, and two lines are in one paragraph unless a page or
\* a blank line sets them apart.  A page or an empty line always does, but for
\* the two halves of a word; there, and where the line between is one of
\* blanks, the property takes either outcome (normalize_text).
WordsAndParagraphsSurvive ==
    output.kind = "normalize" =>
        LET pages == input.pages
            lines == Reading(pages)
        IN \E links \in [1..(Len(lines) - 1) -> {"join", "blank", "break"}] :
             /\ \A i \in DOMAIN links : links[i] \in Links(pages, lines[i], lines[i + 1])
             /\ output.value = Telling(pages, lines, links)

-----------------------------------------------------------------------------
(* Splitting.                                                              *)

WordsOf(text) == Without(text, Characters \ WordChars)

\* No piece outgrows the window, and a chunk outgrows it by no more than the
\* overlap; only where the piece fills the window by itself may the blank that
\* joins the overlap come on top (split_text).
ChunksFit ==
    output.kind = "split" =>
        LET size == input.window[1]
            overlap == input.window[2]
            pieces == SplitText(input.text, size, 0)
            chunks == output.value
        IN /\ \A i \in DOMAIN pieces : Len(pieces[i]) <= size
           /\ \A i \in DOMAIN chunks :
                Len(pieces[i]) < size => Len(chunks[i]) <= size + overlap

\* Every word character of the document is in the chunks, in order, and what a
\* chunk repeats is the end of the chunk before it, at most the overlap long
\* (_split_recursive and split_text).
NothingIsLost ==
    output.kind = "split" =>
        LET pieces == SplitText(input.text, input.window[1], 0)
            chunks == output.value
            repeated(i) == SubSeq(WordsOf(chunks[i]), 1,
                                  Len(WordsOf(chunks[i])) - Len(WordsOf(pieces[i])))
        IN /\ FlattenSeq([i \in DOMAIN pieces |-> WordsOf(pieces[i])]) = WordsOf(input.text)
           /\ Len(chunks) = Len(pieces)
           /\ \A i \in DOMAIN chunks :
                /\ Solid(chunks[i]) # {}
                /\ IsSuffix(WordsOf(pieces[i]), WordsOf(chunks[i]))
                /\ Len(repeated(i)) <= input.window[2]
                /\ i = 1 => repeated(i) = <<>>
                /\ i > 1 => IsSuffix(repeated(i), WordsOf(chunks[i - 1]))

\* A passage that a marker may quote: words with single blanks, no longer than
\* the overlap leaves room for where a cut falls into it.
Quotable(text, overlap) ==
    { m \in { SubSeq(text, i, j) : i, j \in DOMAIN text } :
        /\ m # <<>> /\ Len(m) <= overlap + 2
        /\ Head(m) # Blank /\ Last(m) # Blank
        /\ ToSet(m) \subseteq WordChars \cup {Blank} }

\* No run of solid characters is longer than the window.
NoWordIsCut(text, size) ==
    \A i \in 1..(Len(text) - size) : \E j \in i..(i + size) : text[j] \in Whitespace

\* A label never rots by how the text happens to be cut: a passage short enough
\* for the overlap is whole in some chunk, so that the marker that quotes it
\* resolves (split_text, build_eval_dataset.main).
MarkersResolve ==
    output.kind = "split" /\ NoWordIsCut(input.text, input.window[1]) =>
            LET markers == Quotable(input.text, input.window[2])
                labels == Resolve(<<markers>>, output.value)
            IN markers # {} => labels # <<>>

-----------------------------------------------------------------------------
(* Calibration.                                                            *)

\* The pipeline's gate (rag_pipeline.py:212).
Refuses(similarity, tau) == similarity < tau

Wrong(tau) ==
    [refused |-> Quantify(DOMAIN input.inScores, LAMBDA i : Refuses(input.inScores[i], tau)),
     answered |-> Quantify(DOMAIN input.outScores, LAMBDA i : ~Refuses(input.outScores[i], tau))]

Affordable(tau) == Wrong(tau).refused * BudgetWhole <= BudgetParts * Len(input.inScores)

\* How far both classes stay from the threshold.
Apart(tau) ==
    Min({ input.inScores[i] - tau : i \in DOMAIN input.inScores }
        \cup { tau - input.outScores[i] : i \in DOMAIN input.outScores })

\* Put into the settings, the printed threshold makes the pipeline's gate err as
\* little as any candidate that keeps the budget of false refusals, and none that
\* errs as little is further from both classes; when none keeps the budget none
\* refuses less (calibrate_threshold.main).
ChosenTauIsBest ==
    output.kind = "calibrate" =>
        LET tau == output.value
            affordable == { t \in ToSet(Candidates) : Affordable(t) }
            errors(t) == Wrong(t).refused + Wrong(t).answered
        IN IF affordable = {}
           THEN \A t \in ToSet(Candidates) : Wrong(tau).refused <= Wrong(t).refused
           ELSE /\ tau \in affordable
                /\ \A t \in affordable :
                     /\ errors(tau) <= errors(t)
                     /\ errors(tau) = errors(t) => Apart(t) <= Apart(tau)

-----------------------------------------------------------------------------
(* Text metrics, the local evaluator and cost.                             *)

\* F1 is 1 exactly for the same tokens in any order, so an exact match scores 1;
\* an answer gains nothing by repeating a token the gold has no more of, nor by
\* its citations (token_f1).
F1RewardsContentOnce ==
    output.kind = "f1" =>
        LET pred == NormalizeAnswer(input.prediction)
            gold == NormalizeAnswer(input.gold)
            tokens == ToSet(pred) \cup ToSet(gold)
            f1 == output.value
        IN /\ AtMost(NoMark, f1) /\ AtMost(f1, FullMark)
           /\ Same(f1, FullMark) <=> \A t \in tokens : Times(t, pred) = Times(t, gold)
           /\ ExactMatch(input.prediction, input.gold) = FullMark => Same(f1, FullMark)
           /\ \A t \in tokens : Times(t, pred) >= Times(t, gold) =>
                AtMost(TokenF1(Append(input.prediction, t), input.gold), f1)
           /\ \A t \in Citations :
                Same(TokenF1(Append(input.prediction, t), input.gold), f1)

Faithfulness(answer, context) == JudgeAnswerLocally(answer, context, 0).faithfulness

\* The local faithfulness, unless there are claims and no usable context, of
\* which nothing is said, follows the support of the claims: one that the context
\* supports less than all others never raises it and a verbatim one never lowers
\* it, more context never lowers it, the order of neither matters, nor do markers
\* and fragments; and the score is 5 for an answer taken from the context and 1
\* where there is no claim or none has close support (judge_answer_locally).
LocalScoreFollowsSupport ==
    output.kind = "local" =>
        LET answer  == input.answer
            context == input.context
            score   == output.value.faithfulness
            claims  == { u \in ToSet(answer) : Size[u] >= 15 }
            grounds == { u \in ToSet(context) : Size[u] >= 10 }
            close(u, least) == \E g \in grounds : Closeness[<<u, g>>] >= least
            support(u) == Max({ Closeness[<<u, g>>] : g \in grounds })
        IN /\ output.value.relevance = 1 \/ claims # {}
           /\ claims = {} \/ grounds # {} =>
                /\ claims \subseteq grounds /\ claims # {} => score = 5
                /\ (\A u \in claims : ~close(u, 35)) => score = 1
                /\ (\A u \in claims : close(u, 65)) /\ claims # {} => score >= 4
                /\ \A u \in Units :
                     /\ score <= Faithfulness(answer, Append(context, u))
                     /\ Size[u] < 15 => Faithfulness(Append(answer, u), context) = score
                     /\ claims # {} /\ u \in grounds /\ Size[u] >= 15 =>
                           Faithfulness(Append(answer, u), context) >= score
                     /\ /\ claims # {} /\ Size[u] >= 15
                        /\ \A c \in claims : support(u) <= support(c)
                        => Faithfulness(Append(answer, u), context) <= score
                /\ score = Faithfulness(Reverse(answer), Reverse(context))

\* Thousands of queries a month up to which serverless usage stays below its
\* floor at every scale, and up to which its bill is near the embedded one.
FloorVolume == 115
WashVolume == 467

\* What the report says in words is what its numbers say.  At every volume the
\* advantage over provisioned capacity is more than threefold at ten million
\* vectors and less than tenfold, and against usage-based pricing the embedded
\* advantage grows with query volume, though the host is doubled on the way.
\* Two sentences the report prints at every volume are true of a low one only,
\* and the property says up to where: that usage stays below the floor, at the
\* higher unit price too, and that serverless is roughly a wash (render_markdown).
ReportIsBackedByItsNumbers ==
    output.kind = "cost" =>
        LET queries == input.queries
            scale == output.value.scales
            row(m) == output.value.sensitivity[m]
            tenMillion == scale[10000]
        IN /\ \A v \in Scales :
                /\ scale[v].embeddedLow <= scale[v].embeddedHigh
                /\ scale[v].freeTier => v # 10000
                /\ queries <= FloorVolume => scale[v].serverlessBilled = ServerlessFloor
           /\ (\A v \in Scales : ServerlessUsage(v, queries, 1800) < ServerlessFloor)
                <=> queries <= FloorVolume
           /\ tenMillion.resourceHour > 3 * tenMillion.embeddedHigh
           /\ tenMillion.resourceHour < 10 * tenMillion.embeddedLow
           /\ tenMillion.embeddedLow <= tenMillion.serverlessBilled
           /\ tenMillion.serverlessBilled <= tenMillion.embeddedHigh <=> queries <= WashVolume
           /\ \A m, n \in {1, 10, 100} : m < n =>
                row(n).billed * (row(m).high \div 100) >= row(m).billed * (row(n).high \div 100)
=============================================================================
