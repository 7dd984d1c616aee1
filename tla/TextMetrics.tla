----------------------------- MODULE TextMetrics -----------------------------
(***************************************************************************)
(* Exact match and token F1 of src/eval/text_metrics.py.  An answer is a   *)
(* sequence of tokens; citations and articles are tokens that              *)
(* normalisation drops, letter case and punctuation are left out.          *)
(* A score is a fraction << numerator, denominator >>.                     *)
(***************************************************************************)
EXTENDS Integers, Sequences, FiniteSetsExt, Selection

CONSTANTS
    Citations,
    Articles

FullMark == <<1, 1>>

NoMark == <<0, 1>>

AtMost(x, y) == x[1] * y[2] <= y[1] * x[2]

Same(x, y) == x[1] * y[2] = y[1] * x[2]

NormalizeAnswer(tokens) == Without(tokens, Citations \cup Articles)

ExactMatch(prediction, gold) ==
    IF NormalizeAnswer(prediction) = NormalizeAnswer(gold) THEN FullMark ELSE NoMark

\* What a counter of the tokens holds for one.
Times(t, tokens) == Quantify(DOMAIN tokens, LAMBDA i : tokens[i] = t)

\* Fault: every occurrence in the prediction of a gold token counts.
Overlap_Repeated(pred, gold) ==
    Len(SelectSeq(pred, LAMBDA t : t \in ToSet(gold)))

\* The intersection of the two counters.
Overlap(pred, gold) ==
    SumFunction([t \in ToSet(pred) \cap ToSet(gold) |->
                    Min({Times(t, pred), Times(t, gold)})])

\* 2pr / (p + r) for p = overlap / Len(pred) and r = overlap / Len(gold).
TokenF1(prediction, gold) ==
    LET pred == NormalizeAnswer(prediction)
        wanted == NormalizeAnswer(gold)
    IN IF pred = <<>> \/ wanted = <<>> THEN IF pred = wanted THEN FullMark ELSE NoMark
       ELSE << 2 * Overlap(pred, wanted), Len(pred) + Len(wanted) >>
=============================================================================
