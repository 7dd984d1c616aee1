---------------------------- MODULE RetrievalEval ----------------------------
(***************************************************************************)
(* The retrieval-quality run: run and main of src/eval/evaluate_retrieval  *)
(* over the metrics of src/eval/metrics.py.                                *)
(*                                                                         *)
(* Each question is retrieved once, at the full depth, and scored at every *)
(* cut-off from the same hits.  The labels of a question and the store's   *)
(* order of its chunks for it are chosen freely, and labels may name       *)
(* chunks the store does not hold.  A fraction is kept as a whole number   *)
(* of parts of One, which the denominators divide; the discounts of nDCG   *)
(* are given, decreasing from One.  Latencies and resampled intervals are  *)
(* left out.                                                               *)
(***************************************************************************)
EXTENDS Integers, Sequences, FiniteSets, FiniteSetsExt, SequencesExt

CONSTANTS
    Chunks,         \* the chunks the labels were made from
    NumQuestions,
    Depth,          \* RETRIEVAL_DEPTH
    Sweep,          \* K_SWEEP
    PrimaryK,       \* primary_k
    One,            \* the number that stands for 1.0
    Discount,       \* 1 / log2(rank + 1), by rank
    Null

ASSUME ChunksAssumption == IsFiniteSet(Chunks)

ASSUME DepthAssumption ==
    /\ Depth \in Nat \ {0}
    /\ Sweep \subseteq 1..Depth /\ PrimaryK \in 1..Depth

\* The scale is fine enough for a result at the last rank to count.
ASSUME FractionAssumption ==
    /\ One \in Nat \ {0}
    /\ \A d \in Sweep \cup {PrimaryK} \cup 1..Cardinality(Chunks) : One % d = 0
    /\ Discount \in [1..Depth -> Depth..One]
    /\ Discount[1] = One
    /\ \A i, j \in 1..Depth : i < j => Discount[j] < Discount[i]

VARIABLES
    stored,       \* the chunks the store holds
    stage,        \* "run", "print", or how the program ended
    perQuestion,  \* per_question, with the store's whole order for each
    judgeable,    \* judgeable_rows
    sweep,        \* sweep_rows
    section       \* the retrieval section of the results, Null before the end

retrievalVars ==
    <<stored, stage, perQuestion, judgeable, sweep, section>>

-----------------------------------------------------------------------------
(* The metrics of one question.                                            *)

Smaller(a, b) == IF a < b THEN a ELSE b

Fraction(a, b) == (a * One) \div b

TopK(retrieved, k) == SubSeq(retrieved, 1, Smaller(k, Len(retrieved)))

Found(retrieved, relevant, k) == ToSet(TopK(retrieved, k)) \cap relevant

HitRate(retrieved, relevant, k) ==
    IF Found(retrieved, relevant, k) # {} THEN One ELSE 0

\* Fault: recall out of what k results could hold.
RecallAtK_Capped(retrieved, relevant, k) ==
    Fraction(Cardinality(Found(retrieved, relevant, k)),
             Smaller(Cardinality(relevant), k))

RecallAtK(retrieved, relevant, k) ==
    Fraction(Cardinality(Found(retrieved, relevant, k)), Cardinality(relevant))

RelevantRanks(retrieved, relevant, k) ==
    { i \in DOMAIN TopK(retrieved, k) : retrieved[i] \in relevant }

ReciprocalRank(retrieved, relevant, k) ==
    LET ranks == RelevantRanks(retrieved, relevant, k) IN
    IF ranks = {} THEN 0 ELSE One \div Min(ranks)

Gain(ranks) == SumFunctionOnSet(Discount, ranks)

DcgAtK(retrieved, relevant, k) == Gain(RelevantRanks(retrieved, relevant, k))

\* Fault: the ideal sums over every relevant chunk there is room for at depth.
NdcgAtK_Untruncated(retrieved, relevant, k) ==
    Fraction(DcgAtK(retrieved, relevant, k),
             Gain(1..Smaller(Cardinality(relevant), Depth)))

\* Truncation: k results cannot hold more than k relevant chunks.
NdcgAtK(retrieved, relevant, k) ==
    Fraction(DcgAtK(retrieved, relevant, k),
             Gain(1..Smaller(Cardinality(relevant), k)))

ContextPrecision(retrieved, relevant, k) ==
    Fraction(Cardinality(Found(retrieved, relevant, k)), k)

MaxAchievablePrecision(relevant, k) ==
    Fraction(Smaller(Cardinality(relevant), k), k)

EvaluateQuery(retrieved, relevant, k) ==
    [hitRate   |-> HitRate(retrieved, relevant, k),
     recall    |-> RecallAtK(retrieved, relevant, k),
     mrr       |-> ReciprocalRank(retrieved, relevant, k),
     ndcg      |-> NdcgAtK(retrieved, relevant, k),
     precision |-> ContextPrecision(retrieved, relevant, k),
     ceiling   |-> MaxAchievablePrecision(relevant, k)]

MetricNames == {"hitRate", "recall", "mrr", "ndcg", "precision", "ceiling"}

-----------------------------------------------------------------------------
(* Aggregation.                                                            *)

\* The mean of nothing is null, not zero.
Summarise(values) ==
    [n    |-> Len(values),
     mean |-> IF values = <<>> THEN Null
              ELSE SumFunction(values) \div Len(values)]

Column(rows, name) == [i \in DOMAIN rows |-> rows[i][name]]

Aggregate(rows) == [name \in MetricNames |-> Summarise(Column(rows, name))]

-----------------------------------------------------------------------------
(* The run.                                                                *)

\* An empty store is reported at once.
RetrievalInit ==
    /\ stored \in SUBSET Chunks
    /\ stage = IF stored = {} THEN "empty" ELSE "run"
    /\ perQuestion = <<>>
    /\ judgeable = <<>>
    /\ sweep = [k \in Sweep |-> <<>>]
    /\ section = Null

\* Fault: what is fetched is what the primary cut-off needs.
Retrieve_Primary(ranking) == TopK(ranking, PrimaryK)

\* pipeline.retrieve at the full depth.
Retrieve(ranking) == TopK(ranking, Depth)

Rankings == { r \in [1..Cardinality(stored) -> stored] : ToSet(r) = stored }

\* One question retrieved; the row says whether it is ranked.
Ask(relevant, ranking) ==
    /\ stage = "run"
    /\ Len(perQuestion) < NumQuestions
    /\ perQuestion' = Append(perQuestion,
           [relevant |-> relevant, ranking |-> ranking, judgeable |-> relevant # {}])
    /\ UNCHANGED <<stored, stage, section>>

\* Without relevant chunks every rank metric is undefined.
Exclude(ranking) ==
    /\ Ask({}, ranking)
    /\ UNCHANGED <<judgeable, sweep>>

\* Fault: a question nothing relevant was found for is excluded too.
Score_HitsOnly(relevant, ranking) ==
    LET hits == Retrieve(ranking) IN
    /\ Ask(relevant, ranking)
    /\ IF Found(hits, relevant, Depth) = {}
       THEN UNCHANGED <<judgeable, sweep>>
       ELSE /\ judgeable' = Append(judgeable, EvaluateQuery(hits, relevant, PrimaryK))
            /\ sweep' = [k \in Sweep |->
                   Append(sweep[k], EvaluateQuery(hits, relevant, k))]

Score(relevant, ranking) ==
    LET hits == Retrieve(ranking) IN
    /\ Ask(relevant, ranking)
    /\ judgeable' = Append(judgeable, EvaluateQuery(hits, relevant, PrimaryK))
    /\ sweep' = [k \in Sweep |-> Append(sweep[k], EvaluateQuery(hits, relevant, k))]

\* A retrieval that raises ends the run.
RetrievalFails ==
    /\ stage = "run"
    /\ Len(perQuestion) < NumQuestions
    /\ stage' = "aborted"
    /\ UNCHANGED <<stored, perQuestion, judgeable, sweep, section>>

Finish ==
    /\ stage = "run"
    /\ Len(perQuestion) = NumQuestions
    /\ stage' = "print"
    /\ section' =
         [nQuestions |-> NumQuestions,
          nRanked    |-> Len(judgeable),
          nFallback  |-> NumQuestions - Len(judgeable),
          aggregate  |-> Aggregate(judgeable),
          kSweep     |-> [k \in Sweep |-> Aggregate(sweep[k])]]
    /\ UNCHANGED <<stored, perQuestion, judgeable, sweep>>

\* The summary formats every mean as a number, before the file is written.
Report ==
    /\ stage = "print"
    /\ stage' = IF section.aggregate["recall"].mean = Null THEN "crashed" ELSE "written"
    /\ UNCHANGED <<stored, perQuestion, judgeable, sweep, section>>

RetrievalNext ==
    \/ \E ranking \in Rankings :
          \/ Exclude(ranking)
          \/ \E relevant \in (SUBSET Chunks) \ {{}} : Score(relevant, ranking)
    \/ RetrievalFails
    \/ Finish
    \/ Report

RetrievalSpec == RetrievalInit /\ [][RetrievalNext]_retrievalVars

-----------------------------------------------------------------------------
(* Properties.                                                             *)

Ranked == { i \in DOMAIN perQuestion : perQuestion[i].relevant # {} }

\* Where the score of question i is among the scored ones.
Place(i) == Cardinality({ j \in Ranked : j <= i })

\* The rank of a chunk in the store's whole order, of which the run fetched the
\* first part only.
RankOf(q, c) == CHOOSE i \in DOMAIN q.ranking : q.ranking[i] = c

FoundBy(q, k) == { c \in q.relevant \cap stored : RankOf(q, c) <= k }

\* A score at a cut-off, taken from the one retrieval at full depth, is the one
\* that a look at the store's whole order gives: how many of the labelled chunks
\* are within the first k, and where the first of them is.
ScoresMatchTheStore ==
    \A i \in Ranked, k \in Sweep :
        LET q   == perQuestion[i]
            row == sweep[k][Place(i)]
            by  == FoundBy(q, k)
        IN  /\ row.recall * Cardinality(q.relevant) = One * Cardinality(by)
            /\ row.precision * k = One * Cardinality(by)
            /\ by = {} => row.hitRate = 0 /\ row.mrr = 0 /\ row.ndcg = 0
            /\ by # {} =>
                  /\ row.hitRate = One
                  /\ row.mrr * Min({ RankOf(q, c) : c \in by }) = One
                  /\ row.ndcg > 0

\* nDCG is 1.0 exactly for a ranking that could not be better at that cut-off:
\* as many relevant chunks as fit, and no other one before them.
PerfectRankingsScoreOne ==
    \A i \in Ranked, k \in Sweep :
        LET q    == perQuestion[i]
            fits == Smaller(Cardinality(q.relevant), k)
        IN  sweep[k][Place(i)].ndcg = One
                <=> Cardinality(FoundBy(q, fits)) = fits

\* Looking further never lowers what was found: along the sweep recall, hit rate
\* and reciprocal rank only grow, and so do their means.
DeeperNeverHurts ==
    \A k, l \in Sweep : k < l =>
        \A name \in {"hitRate", "recall", "mrr"} :
            /\ \A i \in DOMAIN sweep[k] : sweep[k][i][name] <= sweep[l][i][name]
            /\ section # Null /\ section.nRanked > 0
                 => section.kSweep[k][name].mean <= section.kSweep[l][name].mean

\* Both denominators are of the whole data set: a question without relevant
\* chunks is the only kind left out of the means, one the store failed on is in.
EveryQuestionCounted ==
    section # Null =>
        /\ section.nRanked = Cardinality(Ranked)
        /\ section.nRanked + section.nFallback = Len(perQuestion)
        /\ \A k \in Sweep, name \in MetricNames :
              section.kSweep[k][name].n = Cardinality(Ranked)
        /\ PrimaryK \in Sweep => section.aggregate = section.kSweep[PrimaryK]
=============================================================================
