------------------------------ MODULE LocalJudge ------------------------------
(***************************************************************************)
(* The local evaluator of src/eval/local_judge.py, which scores an answer  *)
(* when no LLM judge could.  An answer and a context are the sequences of  *)
(* units the sentence pattern cuts them into; how close two units are is   *)
(* given in hundredths, as is the similarity of question and answer.       *)
(***************************************************************************)
EXTENDS Integers, Sequences, FiniteSetsExt, Selection

CONSTANTS
    Units,
    Size,        \* characters of a unit
    Closeness    \* how close two units are in meaning: a cosine similarity

\* Embeddings are normalised, so a unit is closest to itself.
ASSUME ClosenessAssumption ==
    /\ Size \in [Units -> Nat]
    /\ Closeness \in [Units \X Units -> (-100)..100]
    /\ \A u \in Units : Closeness[<<u, u>>] = 100

\* What is shorter is no claim: a marker, a bullet.
Sentences(text, minChars) == Without(text, { u \in Units : Size[u] < minChars })

\* The score of a mean, given as a sum over n.
ToScore(sum, n) ==
    IF sum >= 80 * n THEN 5
    ELSE IF sum >= 65 * n THEN 4
    ELSE IF sum >= 50 * n THEN 3
    ELSE IF sum >= 35 * n THEN 2
    ELSE 1

\* Fault: a claim is compared with the first sentence of the context only.
BestSupport_First(claim, context) == Closeness[<<claim, context[1]>>]

BestSupport(claim, context) == Max({ Closeness[<<claim, c>>] : c \in ToSet(context) })

\* Without a claim nothing is scored; without grounds no claim is supported.
JudgeAnswerLocally(answer, context, relevance) ==
    LET claims  == Sentences(answer, 15)
        grounds == Sentences(context, 10)
        support == SumFunction([i \in DOMAIN claims |-> BestSupport(claims[i], grounds)])
    IN  IF claims = <<>> THEN [faithfulness |-> 1, relevance |-> 1]
        ELSE [faithfulness |-> IF grounds = <<>> THEN 1 ELSE ToScore(support, Len(claims)),
              relevance |-> ToScore(relevance, 1)]
=============================================================================
