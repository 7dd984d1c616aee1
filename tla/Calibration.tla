----------------------------- MODULE Calibration -----------------------------
(***************************************************************************)
(* The choice of the refusal threshold: scripts/calibrate_threshold.py.    *)
(* Similarities are whole numbers; a question nothing was found for scores *)
(* NoHit.  Rates are compared as counts, their denominators being fixed.   *)
(***************************************************************************)
EXTENDS Integers, Sequences, FiniteSetsExt, SequencesExt

CONSTANTS
    Candidates,      \* CANDIDATES, increasing
    BudgetParts,     \* MAX_FALSE_REFUSAL_RATE is BudgetParts / BudgetWhole
    BudgetWhole

ASSUME CandidatesAssumption ==
    /\ Candidates \in Seq(Int) \ {<<>>}
    /\ BudgetParts \in Nat /\ BudgetWhole \in Nat

\* Fault: an in-corpus question at the threshold counts as refused.
FalseRefusals_AtThreshold(scores, tau) == Quantify(DOMAIN scores, LAMBDA i : scores[i] <= tau)

FalseRefusals(scores, tau) == Quantify(DOMAIN scores, LAMBDA i : scores[i] < tau)

FalseAnswers(scores, tau) == Quantify(DOMAIN scores, LAMBDA i : scores[i] >= tau)

Errors(inScores, outScores, tau) == FalseRefusals(inScores, tau) + FalseAnswers(outScores, tau)

WithinBudget(inScores, tau) ==
    FalseRefusals(inScores, tau) * BudgetWhole <= BudgetParts * Len(inScores)

\* The distance to the nearer class, negative inside one.
Margin(inScores, outScores, tau) ==
    Min({Min(ToSet(inScores)) - tau, tau - Max(ToSet(outScores))})

\* The first of the taus whose score is the largest.
FirstBest(taus, score) ==
    Min({ t \in taus : \A u \in taus : score[u] <= score[t] })

ChosenTau(inScores, outScores) ==
    LET all == ToSet(Candidates)
        eligible == { t \in all : WithinBudget(inScores, t) }
        top == { t \in eligible : \A u \in eligible :
                   Errors(inScores, outScores, t) <= Errors(inScores, outScores, u) }
    IN IF eligible = {} THEN FirstBest(all, [t \in all |-> -FalseRefusals(inScores, t)])
       ELSE FirstBest(top, [t \in top |-> Margin(inScores, outScores, t)])
=============================================================================
