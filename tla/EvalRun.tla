------------------------------ MODULE EvalRun ------------------------------
(***************************************************************************)
(* The answer-quality run: run and judge_with_fallback of                  *)
(* src/eval/evaluate_answer.py over judge_answer of src/eval/judge.py.     *)
(*                                                                         *)
(* The run takes the questions one after the other, asks the pipeline,     *)
(* and puts every question in one bucket: refusals are scored by rule, and *)
(* an answer goes through the judges in order, each with its repair loop,  *)
(* down to the local evaluator.  What the pipeline and the judges reply is *)
(* chosen freely; a score is all that is kept of a verdict.                *)
(***************************************************************************)
EXTENDS Integers, Sequences, FiniteSets

CONSTANTS
    ExpectsFallback,  \* for each question, in order: is it out of the corpus?
    Models,
    Chain,            \* judge_provider_chain
    JudgeModel,       \* the caller's model
    Credentialed,     \* models has_credential holds of
    MaxRepairs,       \* MAX_REPAIR_ATTEMPTS
    Local,            \* the instrument of the local evaluator
    None

ASSUME QuestionsAssumption ==
    ExpectsFallback \in Seq(BOOLEAN) /\ MaxRepairs \in Nat

ASSUME JudgesAssumption ==
    /\ Chain \in Seq(Models) /\ JudgeModel \in Models
    /\ Credentialed \subseteq Models

Questions == DOMAIN ExpectsFallback

\* The caller's model is a last resort when the chain does not name it.
Ordered ==
    IF JudgeModel \in { Chain[i] : i \in DOMAIN Chain }
    THEN Chain
    ELSE Append(Chain, JudgeModel)

Judges == DOMAIN Ordered

Scores == 1..5

\* What pipeline.query may return: a refusal at the threshold bills nothing, a
\* refusal of the model bills its tokens and may be worded loosely.
Results ==
    { [exact |-> TRUE,  fallback |-> TRUE,  tokens |-> 0],
      [exact |-> TRUE,  fallback |-> TRUE,  tokens |-> 1],
      [exact |-> FALSE, fallback |-> TRUE,  tokens |-> 1],
      [exact |-> FALSE, fallback |-> FALSE, tokens |-> 1] }

VARIABLES
    pc,        \* "ask" the pipeline, "judge" the answer, or how the run ended
    question,  \* the question at hand
    judge,     \* position in the chain of judges
    repair,    \* repairs made with this judge
    pending,   \* tokens of this judge's replies
    rows,      \* per_question
    remote,    \* scores of LLM judges, the headline
    local,     \* scores of the local evaluator
    imputed,   \* scores assigned by rule
    errors,    \* n_judge_errors
    tokens,    \* the reported total
    billed,    \* history: tokens of every reply received, but for one whose
               \* handling ended the run
    dropped,   \* history: those of judges that were given up on
    asked      \* history: calls made to each judge for the answer at hand

vars == <<pc, question, judge, repair, pending, rows, remote, local, imputed,
          errors, tokens, billed, dropped, asked>>

buckets == <<remote, local, imputed, errors>>

-----------------------------------------------------------------------------
NoneAsked == [i \in Judges |-> 0]

Row(bucket, score, instrument) ==
    [question |-> question, bucket |-> bucket, score |-> score,
     instrument |-> instrument]

\* The row is appended and the next question begins.
Finish(row) ==
    /\ rows' = Append(rows, row)
    /\ question' = question + 1
    /\ pc' = IF question + 1 \in Questions THEN "ask" ELSE "done"
    /\ judge' = 1
    /\ repair' = 0
    /\ pending' = 0
    /\ asked' = NoneAsked

\* Fault: a question without an answer drops out of the counts.
GenerationFails_Uncounted ==
    /\ pc = "ask"
    /\ Finish(Row("error", 0, None))
    /\ UNCHANGED <<buckets, tokens, billed, dropped>>

GenerationFails ==
    /\ pc = "ask"
    /\ errors' = errors + 1
    /\ Finish(Row("error", 0, None))
    /\ UNCHANGED <<remote, local, imputed, tokens, billed, dropped>>

Bill(r) ==
    /\ tokens' = tokens + r.tokens
    /\ billed' = billed + r.tokens
    /\ UNCHANGED dropped

\* A question out of the corpus counts for fallback correctness only.
ScoreFallback(r) ==
    /\ pc = "ask"
    /\ ExpectsFallback[question]
    /\ Bill(r)
    /\ Finish(Row(IF r.exact /\ r.tokens = 0 THEN "fallbackCorrect" ELSE "fallbackWrong",
                  0, None))
    /\ UNCHANGED buckets

\* Fault: the imputed score is pooled with the measured ones.
ImputeRefusal_Pooled(r) ==
    /\ pc = "ask"
    /\ ~ExpectsFallback[question]
    /\ r.fallback
    /\ Bill(r)
    /\ remote' = Append(remote, 5)
    /\ Finish(Row("imputed", 5, None))
    /\ UNCHANGED <<local, imputed, errors>>

\* A refusal of an answerable question is scored by rule.
ImputeRefusal(r) ==
    /\ pc = "ask"
    /\ ~ExpectsFallback[question]
    /\ r.fallback
    /\ Bill(r)
    /\ imputed' = Append(imputed, 5)
    /\ Finish(Row("imputed", 5, None))
    /\ UNCHANGED <<remote, local, errors>>

BeginJudging(r) ==
    /\ pc = "ask"
    /\ ~ExpectsFallback[question]
    /\ ~r.fallback
    /\ Bill(r)
    /\ pc' = "judge"
    /\ UNCHANGED <<question, judge, repair, pending, rows, buckets, asked>>

-----------------------------------------------------------------------------
Judging ==
    /\ pc = "judge"
    /\ judge \in Judges
    /\ Ordered[judge] \in Credentialed

Call(reply) ==
    /\ asked' = [asked EXCEPT ![judge] = @ + 1]
    /\ billed' = billed + reply

\* A judge without a credential is passed over without a call.
PassOver ==
    /\ pc = "judge"
    /\ judge \in Judges
    /\ Ordered[judge] \notin Credentialed
    /\ judge' = judge + 1
    /\ UNCHANGED <<pc, question, repair, pending, rows, buckets, tokens, billed,
                   dropped, asked>>

GiveUpJudge(reply) ==
    /\ judge' = judge + 1
    /\ repair' = 0
    /\ pending' = 0
    /\ dropped' = dropped + pending + reply
    /\ UNCHANGED <<pc, question, rows, buckets, tokens>>

\* complete raised LLMError: the verdict is a judge_call_failed.
JudgeCallFails ==
    /\ Judging
    /\ Call(0)
    /\ GiveUpJudge(0)

\* The reply does not parse: repair it, or give up on this judge.
JudgeMalformed ==
    /\ Judging
    /\ Call(1)
    /\ IF repair < MaxRepairs
       THEN /\ repair' = repair + 1
            /\ pending' = pending + 1
            /\ UNCHANGED <<pc, question, judge, rows, buckets, tokens, dropped>>
       ELSE GiveUpJudge(1)

\* Fault: only the reply that parsed is counted.
JudgeScores_LastReply(s) ==
    /\ Judging
    /\ billed' = billed + 1
    /\ tokens' = tokens + 1
    /\ remote' = Append(remote, s)
    /\ Finish(Row("remote", s, None))
    /\ UNCHANGED <<local, imputed, errors, dropped>>

\* The verdict names its instrument, which to_dict leaves out of the row.
JudgeScores(s) ==
    /\ Judging
    /\ billed' = billed + 1
    /\ tokens' = tokens + pending + 1
    /\ remote' = Append(remote, s)
    /\ Finish(Row("remote", s, None))
    /\ UNCHANGED <<local, imputed, errors, dropped>>

\* Fault: the first judge that fails hands over to the local evaluator.
ScoreLocally_Early(s) ==
    /\ pc = "judge"
    /\ judge \notin Judges \/ judge > 1
    /\ local' = Append(local, s)
    /\ Finish(Row("local", s, Local))
    /\ UNCHANGED <<remote, imputed, errors, tokens, billed, dropped>>

\* Every judge failed: the local evaluator scores the answer.
ScoreLocally(s) ==
    /\ pc = "judge"
    /\ judge \notin Judges
    /\ local' = Append(local, s)
    /\ Finish(Row("local", s, Local))
    /\ UNCHANGED <<remote, imputed, errors, tokens, billed, dropped>>

\* An exception other than LLMError, from the pipeline or from a judge whose
\* response has no choices or whose score is infinite, ends the run; the
\* reply it happened on is not counted.
Abort ==
    /\ pc = "ask" \/ Judging
    /\ pc' = "aborted"
    /\ UNCHANGED <<question, judge, repair, pending, rows, buckets, tokens, billed,
                   dropped, asked>>

\* The summary and then the file: printing the mean of no score raises.
Report ==
    /\ pc = "done"
    /\ pc' = IF remote = <<>> THEN "crashed" ELSE "written"
    /\ UNCHANGED <<question, judge, repair, pending, rows, buckets, tokens, billed,
                   dropped, asked>>

-----------------------------------------------------------------------------
Init ==
    /\ pc = IF Questions = {} THEN "done" ELSE "ask"
    /\ question = 1
    /\ judge = 1
    /\ repair = 0
    /\ pending = 0
    /\ rows = <<>>
    /\ remote = <<>>
    /\ local = <<>>
    /\ imputed = <<>>
    /\ errors = 0
    /\ tokens = 0
    /\ billed = 0
    /\ dropped = 0
    /\ asked = NoneAsked

Next ==
    \/ GenerationFails
    \/ \E r \in Results : ScoreFallback(r) \/ ImputeRefusal(r) \/ BeginJudging(r)
    \/ PassOver
    \/ JudgeCallFails
    \/ JudgeMalformed
    \/ \E s \in Scores : JudgeScores(s) \/ ScoreLocally(s)
    \/ Abort
    \/ Report

Spec == Init /\ [][Next]_vars

-----------------------------------------------------------------------------
(* Properties.                                                             *)

Buckets == {"remote", "local", "imputed", "error", "fallbackCorrect", "fallbackWrong"}

Rows ==
    [question : Questions, bucket : Buckets, score : 0..5,
     instrument : {Local, None}]

\* Every variable has its type.
TypeOK ==
    /\ pc \in {"ask", "judge", "done", "aborted", "crashed", "written"}
    /\ question \in 1..(Len(ExpectsFallback) + 1)
    /\ pc \in {"ask", "judge"} => question \in Questions
    /\ judge \in 1..(Len(Ordered) + 1)
    /\ repair \in 0..MaxRepairs
    /\ rows \in Seq(Rows)
    /\ remote \in Seq(0..5) /\ local \in Seq(0..5) /\ imputed \in Seq(0..5)
    /\ pending \in Nat /\ errors \in Nat
    /\ tokens \in Nat /\ billed \in Nat /\ dropped \in Nat
    /\ asked \in [Judges -> Nat]

RowsIn(B) == { i \in DOMAIN rows : rows[i].bucket \in B }

\* Every question taken so far has exactly one row, in order, and is counted
\* in exactly one place: a mean, an imputation, an error or a fallback.  None
\* quietly vanishes from the denominator.
EveryQuestionCounts ==
    /\ Len(rows) = question - 1
    /\ \A i \in DOMAIN rows : rows[i].question = i
    /\ Len(remote) + Len(local) + Len(imputed) + errors
         + Cardinality(RowsIn({"fallbackCorrect", "fallbackWrong"}))
       = Len(rows)

\* The headline mean holds the scores of the rows an LLM judge scored, each in
\* 1..5, and nothing imputed, local or left over from a failed verdict.
HeadlineIsMeasured ==
    /\ Len(remote) = Cardinality(RowsIn({"remote"}))
    /\ \A i \in RowsIn({"remote"}) :
          /\ rows[i].score \in Scores
          /\ rows[i].score = remote[Cardinality({ j \in RowsIn({"remote"}) : j <= i })]

\* The local evaluator is the last resort: it scores an answer only after every
\* judge with a credential was called for it.
LocalIsLastResort ==
    [][local' # local =>
        \A i \in Judges : Ordered[i] \in Credentialed => asked[i] > 0]_vars

\* The report never counts a reply twice, and it counts all of them, the repairs
\* included, as long as every judge that replied got to a score.  What a judge
\* that was given up on billed is not in it: that the report's own note claims
\* "every failed attempt" is no part of this property.
TokensAddUp ==
    /\ tokens + pending <= billed
    /\ dropped = 0 => tokens + pending = billed

\* summarise returns nulls for a mean of nothing, "so an evaluation whose judge
\* was unavailable" still leaves a results file that parses.  The summary printed
\* before the file is written formats the mean as a number, and the run is lost.
UnjudgedRunsAreReported == pc # "crashed"
=============================================================================
