----------------------------- MODULE EvalProofs -----------------------------
(***************************************************************************)
(* Proofs about the evaluation programs.  The evaluation run counts every  *)
(* question once, keeps its headline measured, adds up its tokens and      *)
(* comes to the local evaluator last, for any data set, any chain of       *)
(* judges and any number of repairs.  The programs that share the results  *)
(* file, and the response cache under them, keep each other's sections and *)
(* pay once, for any number of processes, prompts, repairs and runs,       *)
(* overlapping and killed anywhere.                                        *)
(***************************************************************************)
EXTENDS EvalRun, ResultsFile, FiniteSetTheorems, TLAPS

\* The judges are numbered from 1.
LEMMA JudgesAreNumbered == Ordered \in Seq(Models) /\ Judges = 1..Len(Ordered)
<1>1. Ordered \in Seq(Models)
  BY JudgesAssumption DEF Ordered
<1>2. QED
  BY <1>1 DEF Judges

\* The questions are numbered from 1.
LEMMA QuestionsAreNumbered ==
    Questions = 1..Len(ExpectsFallback) /\ Len(ExpectsFallback) \in Nat
BY QuestionsAssumption DEF Questions

-----------------------------------------------------------------------------
(* Types.                                                                  *)

\* Where the run is: what Finish assigns.
Position ==
    /\ pc \in {"ask", "judge", "done", "aborted", "crashed", "written"}
    /\ question \in 1..(Len(ExpectsFallback) + 1)
    /\ pc \in {"ask", "judge"} => question \in Questions
    /\ judge \in 1..(Len(Ordered) + 1)
    /\ repair \in 0..MaxRepairs
    /\ pending \in Nat
    /\ rows \in Seq(Rows)
    /\ asked \in [Judges -> Nat]

\* What the run has counted: what Finish leaves alone.
Tallies ==
    /\ remote \in Seq(0..5) /\ local \in Seq(0..5) /\ imputed \in Seq(0..5)
    /\ errors \in Nat
    /\ tokens \in Nat /\ billed \in Nat /\ dropped \in Nat

LEMMA TypeParts == TypeOK <=> Position /\ Tallies
BY DEF TypeOK, Position, Tallies

LEMMA TypePartsNext == TypeOK' <=> Position' /\ Tallies'
BY DEF TypeOK, Position, Tallies

\* Finish keeps the position well typed (run's append and the next turn).
LEMMA FinishType ==
    ASSUME Position, NEW b \in Buckets, NEW s \in 0..5, NEW i \in {Local, None},
           pc \in {"ask", "judge"}, Finish(Row(b, s, i))
    PROVE  Position'
<1>1. question \in Questions
  BY DEF Position
<1>2. Row(b, s, i) \in Rows
  BY <1>1 DEF Row, Rows
<1>3. question' \in 1..(Len(ExpectsFallback) + 1)
  BY <1>1, QuestionsAreNumbered DEF Finish
<1>4. Len(Ordered) \in Nat
  BY JudgesAreNumbered
<1>5. rows' \in Seq(Rows)
  BY <1>2 DEF Position, Finish
<1>6. asked' \in [Judges -> Nat]
  BY DEF Finish, NoneAsked
<1>7. pc' \in {"ask", "done"} /\ (pc' = "ask" => question' \in Questions)
  BY DEF Finish
<1>8. judge' \in 1..(Len(Ordered) + 1) /\ repair' \in 0..MaxRepairs /\ pending' \in Nat
  BY <1>4, QuestionsAssumption DEF Finish
<1>9. QED
  BY <1>3, <1>5, <1>6, <1>7, <1>8 DEF Position

LEMMA TypeInit == Init => TypeOK
<1>1. SUFFICES ASSUME Init PROVE TypeOK
  OBVIOUS
<1>2. Len(Ordered) \in Nat /\ MaxRepairs \in Nat
  BY JudgesAreNumbered, QuestionsAssumption
<1>3. Questions # {} => 1 \in Questions
  BY QuestionsAreNumbered
<1>4. rows \in Seq(Rows) /\ remote \in Seq(0..5) /\ local \in Seq(0..5)
        /\ imputed \in Seq(0..5)
  BY <1>1 DEF Init
<1>5. asked \in [Judges -> Nat]
  BY <1>1 DEF Init, NoneAsked
<1>6. QED
  BY <1>1, <1>2, <1>3, <1>4, <1>5, QuestionsAreNumbered DEF Init, TypeOK

\* A call leaves the tallies of calls numbers.
LEMMA CallType ==
    ASSUME Position, Tallies, Judging, NEW n \in {0, 1}, Call(n)
    PROVE  /\ asked' \in [Judges -> Nat]
           /\ billed' \in Nat
<1>1. asked[judge] + 1 \in Nat
  BY DEF Position, Judging
<1>2. QED
  BY <1>1 DEF Position, Tallies, Judging, Call

LEMMA GiveUpType ==
    ASSUME Position, Tallies, Judging, NEW n \in {0, 1}, Call(n), GiveUpJudge(n)
    PROVE  Position' /\ Tallies'
<1>1. judge' \in 1..(Len(Ordered) + 1)
  BY JudgesAreNumbered DEF Judging, GiveUpJudge
<1>2. repair' \in 0..MaxRepairs
  BY QuestionsAssumption DEF GiveUpJudge
<1>3. dropped' \in Nat
  BY DEF Position, Tallies, GiveUpJudge
<1>4. QED
  BY <1>1, <1>2, <1>3, CallType DEF Position, Tallies, GiveUpJudge, buckets

LEMMA TypeStep ==
    ASSUME TypeOK, [Next]_vars
    PROVE  TypeOK'
<1>1. Position /\ Tallies
  BY TypeParts
<1>2. SUFFICES Position' /\ Tallies'
  BY TypePartsNext
<1>3. ASSUME NEW r \in Results, Bill(r) PROVE tokens' \in Nat /\ billed' \in Nat /\ dropped' \in Nat
  <2>1. r.tokens \in Nat
    BY DEF Results
  <2>2. QED
    BY <1>1, <1>3, <2>1 DEF Tallies, Bill
<1>4. CASE GenerationFails
  <2>1. Finish(Row("error", 0, None)) /\ pc \in {"ask", "judge"}
    BY <1>4 DEF GenerationFails
  <2>2. Position'
    BY <1>1, <2>1, FinishType DEF Buckets
  <2>3. Tallies'
    BY <1>1, <1>4 DEF Tallies, GenerationFails
  <2>4. QED
    BY <2>2, <2>3
<1>5. ASSUME NEW r \in Results, ScoreFallback(r) PROVE Position' /\ Tallies'
  <2> DEFINE b == IF r.exact /\ r.tokens = 0 THEN "fallbackCorrect" ELSE "fallbackWrong"
  <2>1. Finish(Row(b, 0, None)) /\ pc \in {"ask", "judge"}
    BY <1>5 DEF ScoreFallback
  <2>2. b \in Buckets
    BY DEF Buckets
  <2> HIDE DEF b
  <2>3. Position'
    BY <1>1, <2>1, <2>2, FinishType
  <2>4. Bill(r) /\ UNCHANGED buckets
    BY <1>5 DEF ScoreFallback
  <2>5. Tallies'
    BY <1>1, <1>3, <2>4 DEF Tallies, buckets
  <2>6. QED
    BY <2>3, <2>5
<1>6. ASSUME NEW r \in Results, ImputeRefusal(r) PROVE Position' /\ Tallies'
  <2>1. Finish(Row("imputed", 5, None)) /\ pc \in {"ask", "judge"} /\ Bill(r)
    BY <1>6 DEF ImputeRefusal
  <2>2. Position'
    BY <1>1, <2>1, FinishType DEF Buckets
  <2>3. imputed' \in Seq(0..5)
    BY <1>1, <1>6 DEF Tallies, ImputeRefusal
  <2>4. Tallies'
    BY <1>1, <1>3, <1>6, <2>1, <2>3 DEF Tallies, ImputeRefusal
  <2>5. QED
    BY <2>2, <2>4
<1>7. ASSUME NEW r \in Results, BeginJudging(r) PROVE Position' /\ Tallies'
  <2>1. Bill(r)
    BY <1>7 DEF BeginJudging
  <2>2. Position'
    BY <1>1, <1>7 DEF Position, BeginJudging
  <2>3. Tallies'
    BY <1>1, <1>3, <1>7, <2>1 DEF Tallies, BeginJudging, buckets
  <2>4. QED
    BY <2>2, <2>3
<1>8. CASE PassOver
  <2>1. judge' \in 1..(Len(Ordered) + 1)
    BY <1>8, JudgesAreNumbered DEF PassOver
  <2>2. QED
    BY <1>1, <1>8, <2>1 DEF Position, Tallies, PassOver, buckets
<1>9. CASE JudgeCallFails
  BY <1>1, <1>9, GiveUpType DEF JudgeCallFails
<1>10. CASE JudgeMalformed
  <2>1. Judging /\ Call(1)
    BY <1>10 DEF JudgeMalformed
  <2>2. CASE repair < MaxRepairs
    <3>1. repair' \in 0..MaxRepairs /\ pending' \in Nat
      BY <1>1, <1>10, <2>2, QuestionsAssumption DEF Position, JudgeMalformed
    <3>2. QED
      BY <1>1, <1>10, <2>1, <2>2, <3>1, CallType DEF Position, Tallies, JudgeMalformed, buckets
  <2>3. CASE ~(repair < MaxRepairs)
    BY <1>1, <1>10, <2>1, <2>3, GiveUpType DEF JudgeMalformed
  <2>4. QED
    BY <2>2, <2>3
<1>11. ASSUME NEW s \in Scores, JudgeScores(s) PROVE Position' /\ Tallies'
  <2>1. Finish(Row("remote", s, None)) /\ pc \in {"ask", "judge"} /\ s \in 0..5
    BY <1>11 DEF JudgeScores, Judging, Scores
  <2>2. Position'
    BY <1>1, <2>1, FinishType DEF Buckets
  <2>3. remote' \in Seq(0..5)
    BY <1>1, <1>11, <2>1 DEF Tallies, JudgeScores
  <2>4. tokens' \in Nat /\ billed' \in Nat
    BY <1>1, <1>11 DEF Position, Tallies, JudgeScores
  <2>5. QED
    BY <1>1, <1>11, <2>2, <2>3, <2>4 DEF Tallies, JudgeScores
<1>12. ASSUME NEW s \in Scores, ScoreLocally(s) PROVE Position' /\ Tallies'
  <2>1. Finish(Row("local", s, Local)) /\ pc \in {"ask", "judge"} /\ s \in 0..5
    BY <1>12 DEF ScoreLocally, Scores
  <2>2. Position'
    BY <1>1, <2>1, FinishType DEF Buckets
  <2>3. local' \in Seq(0..5)
    BY <1>1, <1>12, <2>1 DEF Tallies, ScoreLocally
  <2>4. QED
    BY <1>1, <1>12, <2>2, <2>3 DEF Tallies, ScoreLocally
<1>13. CASE Abort
  BY <1>1, <1>13 DEF Position, Tallies, Abort, buckets
<1>14. CASE Report
  BY <1>1, <1>14 DEF Position, Tallies, Report, buckets
<1>15. CASE UNCHANGED vars
  BY <1>1, <1>15 DEF Position, Tallies, vars, buckets
<1>16. QED
  BY <1>4, <1>5, <1>6, <1>7, <1>8, <1>9, <1>10, <1>11, <1>12, <1>13, <1>14, <1>15
     DEF Next

\* Every reachable state of the evaluation run is well typed, and its question
\* and judge are within the data set and the chain (run, judge_with_fallback).
THEOREM TypeCorrect == Spec => []TypeOK
BY TypeInit, TypeStep, PTL DEF Spec

-----------------------------------------------------------------------------
(* Tokens.                                                                 *)

\* Tokens are pending only with the judge that is being repaired.
PendingInv ==
    /\ pc = "ask" => pending = 0
    /\ pending # 0 => judge \in Judges /\ Ordered[judge] \in Credentialed

\* What is reported, what may yet be and what never will are what was billed.
BillInv == billed = tokens + pending + dropped

TokensInv == TypeOK /\ PendingInv /\ BillInv

LEMMA TokensStep ==
    ASSUME TokensInv, [Next]_vars
    PROVE  (PendingInv /\ BillInv)'
<1> USE DEF PendingInv, BillInv
<1>1. /\ pending \in Nat /\ tokens \in Nat /\ billed \in Nat /\ dropped \in Nat
      /\ judge \in Nat /\ PendingInv /\ BillInv
  BY DEF TokensInv, TypeOK
<1>2. ASSUME NEW r \in Results PROVE r.tokens \in Nat
  BY <1>2 DEF Results
<1>3. CASE GenerationFails
  BY <1>1, <1>3 DEF GenerationFails, Finish
<1>4. ASSUME NEW r \in Results, ScoreFallback(r) PROVE (PendingInv /\ BillInv)'
  BY <1>1, <1>2, <1>4 DEF ScoreFallback, Bill, Finish
<1>5. ASSUME NEW r \in Results, ImputeRefusal(r) PROVE (PendingInv /\ BillInv)'
  BY <1>1, <1>2, <1>5 DEF ImputeRefusal, Bill, Finish
<1>6. ASSUME NEW r \in Results, BeginJudging(r) PROVE (PendingInv /\ BillInv)'
  BY <1>1, <1>2, <1>6 DEF BeginJudging, Bill
<1>7. CASE PassOver
  BY <1>1, <1>7 DEF PassOver
<1>8. CASE JudgeCallFails
  BY <1>1, <1>8 DEF JudgeCallFails, Judging, Call, GiveUpJudge
<1>9. CASE JudgeMalformed
  <2>1. CASE repair < MaxRepairs
    BY <1>1, <1>9, <2>1 DEF JudgeMalformed, Judging, Call
  <2>2. CASE ~(repair < MaxRepairs)
    BY <1>1, <1>9, <2>2 DEF JudgeMalformed, Judging, Call, GiveUpJudge
  <2>3. QED
    BY <2>1, <2>2
<1>10. ASSUME NEW s \in Scores, JudgeScores(s) PROVE (PendingInv /\ BillInv)'
  BY <1>1, <1>10 DEF JudgeScores, Finish
<1>11. ASSUME NEW s \in Scores, ScoreLocally(s) PROVE (PendingInv /\ BillInv)'
  BY <1>1, <1>11 DEF ScoreLocally, Finish
<1>12. CASE Abort
  BY <1>1, <1>12 DEF Abort
<1>13. CASE Report
  BY <1>1, <1>13 DEF Report
<1>14. CASE UNCHANGED vars
  BY <1>1, <1>14 DEF vars
<1>15. QED
  BY <1>3, <1>4, <1>5, <1>6, <1>7, <1>8, <1>9, <1>10, <1>11, <1>12, <1>13, <1>14
     DEF Next

\* The report counts no reply twice, and every one where no judge that replied
\* was given up on, for any chain of judges and any number of repairs.
THEOREM TokensAlwaysAddUp == Spec => []TokensAddUp
<1>1. Init => TokensInv
  BY TypeInit DEF Init, TokensInv, PendingInv, BillInv
<1>2. TokensInv /\ [Next]_vars => TokensInv'
  BY TypeStep, TokensStep DEF TokensInv
<1>3. TokensInv => TokensAddUp
  BY DEF TokensInv, TypeOK, BillInv, TokensAddUp
<1>4. QED
  BY <1>1, <1>2, <1>3, PTL DEF Spec

-----------------------------------------------------------------------------
(* The order of the judges.                                                *)

\* Every judge passed by was called, unless it has no credential.
PassedInv ==
    /\ pc = "ask" => judge = 1
    /\ pc = "judge" =>
          \A i \in Judges :
             i < judge /\ Ordered[i] \in Credentialed => asked[i] > 0

OrderInv == TypeOK /\ PassedInv

\* A call to the judge at hand is all that moves past it, or a judge without a
\* credential is.
LEMMA MoveOn ==
    ASSUME OrderInv, Judging, NEW n, Call(n), GiveUpJudge(n)
    PROVE  PassedInv'
<1>1. judge \in Judges /\ pc = "judge" /\ asked \in [Judges -> Nat] /\ Judges \subseteq Int
  BY JudgesAreNumbered DEF OrderInv, TypeOK, Judging
<1>2. asked[judge] + 1 > 0 /\ asked[judge] \in Nat
  BY <1>1
<1>3. SUFFICES ASSUME NEW i \in Judges, i < judge + 1, Ordered[i] \in Credentialed
               PROVE  asked'[i] > 0
  BY <1>1 DEF PassedInv, GiveUpJudge
<1>4. CASE i = judge
  BY <1>1, <1>2, <1>4 DEF Call
<1>5. CASE i < judge
  BY <1>1, <1>3, <1>5 DEF Call, OrderInv, PassedInv
<1>6. QED
  BY <1>1, <1>3, <1>4, <1>5

LEMMA PassedStep ==
    ASSUME OrderInv, [Next]_vars
    PROVE  PassedInv'
<1>1. /\ PassedInv /\ judge \in Nat /\ asked \in [Judges -> Nat] /\ Judges = 1..Len(Ordered)
      /\ Len(Ordered) \in Nat
  BY JudgesAreNumbered DEF OrderInv, TypeOK
<1>2. ASSUME NEW row, Finish(row) PROVE PassedInv'
  BY <1>2 DEF Finish, PassedInv
<1>3. CASE GenerationFails
  BY <1>2, <1>3 DEF GenerationFails
<1>4. ASSUME NEW r \in Results, ScoreFallback(r) PROVE PassedInv'
  BY <1>2, <1>4 DEF ScoreFallback
<1>5. ASSUME NEW r \in Results, ImputeRefusal(r) PROVE PassedInv'
  BY <1>2, <1>5 DEF ImputeRefusal
<1>6. ASSUME NEW r \in Results, BeginJudging(r) PROVE PassedInv'
  BY <1>1, <1>6 DEF BeginJudging, PassedInv
<1>7. CASE PassOver
  BY <1>1, <1>7 DEF PassOver, PassedInv
<1>8. CASE JudgeCallFails
  BY <1>8, MoveOn DEF JudgeCallFails
<1>9. CASE JudgeMalformed
  <2>1. CASE repair < MaxRepairs
    <3>1. judge' = judge /\ pc' = pc /\ pc = "judge" /\ Judging /\ Call(1)
      BY <1>9, <2>1 DEF JudgeMalformed, Judging
    <3>2. ASSUME NEW i \in Judges, i < judge PROVE asked'[i] = asked[i]
      BY <1>1, <3>1, <3>2 DEF Call
    <3>3. QED
      BY <1>1, <3>1, <3>2 DEF PassedInv
  <2>2. CASE ~(repair < MaxRepairs)
    BY <1>9, <2>2, MoveOn DEF JudgeMalformed
  <2>3. QED
    BY <2>1, <2>2
<1>10. ASSUME NEW s \in Scores, JudgeScores(s) PROVE PassedInv'
  BY <1>2, <1>10 DEF JudgeScores
<1>11. ASSUME NEW s \in Scores, ScoreLocally(s) PROVE PassedInv'
  BY <1>2, <1>11 DEF ScoreLocally
<1>12. CASE Abort
  BY <1>12 DEF Abort, PassedInv
<1>13. CASE Report
  BY <1>13 DEF Report, PassedInv
<1>14. CASE UNCHANGED vars
  BY <1>1, <1>14 DEF vars, PassedInv
<1>15. QED
  BY <1>3, <1>4, <1>5, <1>6, <1>7, <1>8, <1>9, <1>10, <1>11, <1>12, <1>13, <1>14
     DEF Next

\* The local evaluator scores an answer only after every judge that can be
\* called was called for it, for any chain (judge_with_fallback).
THEOREM LocalComesLast == Spec => LocalIsLastResort
<1>1. Init => OrderInv
  BY TypeInit DEF Init, OrderInv, PassedInv
<1>2. OrderInv /\ [Next]_vars => OrderInv'
  BY TypeStep, PassedStep DEF OrderInv
<1>3. ASSUME OrderInv, [Next]_vars, local' # local
      PROVE  \A i \in Judges : Ordered[i] \in Credentialed => asked[i] > 0
  <2>1. PICK s \in Scores : ScoreLocally(s)
    BY <1>3 DEF Next, vars, buckets, GenerationFails, ScoreFallback, ImputeRefusal,
                BeginJudging, PassOver, JudgeCallFails, JudgeMalformed, GiveUpJudge,
                JudgeScores, Abort, Report
  <2>2. pc = "judge" /\ judge \notin Judges
    BY <2>1 DEF ScoreLocally
  <2>3. judge = Len(Ordered) + 1 /\ Judges = 1..Len(Ordered) /\ Len(Ordered) \in Nat
    BY <1>3, <2>2, JudgesAreNumbered DEF OrderInv, TypeOK
  <2>4. QED
    BY <1>3, <2>2, <2>3 DEF OrderInv, PassedInv
<1>4. OrderInv /\ [Next]_vars =>
        [local' # local =>
            \A i \in Judges : Ordered[i] \in Credentialed => asked[i] > 0]_vars
  BY <1>3
<1>5. QED
  BY <1>1, <1>2, <1>4, PTL DEF Spec, LocalIsLastResort

-----------------------------------------------------------------------------
(* Counting.                                                               *)

\* One row more adds its place to the rows of its bucket.
LEMMA RowsAppended ==
    ASSUME rows \in Seq(Rows), NEW row \in Rows, rows' = Append(rows, row), NEW B
    PROVE  /\ IsFiniteSet(RowsIn(B))
           /\ Cardinality(RowsIn(B)) \in Nat
           /\ RowsIn(B) \subseteq 1..Len(rows)
           /\ row.bucket \in B =>
                 /\ RowsIn(B)' = RowsIn(B) \cup {Len(rows) + 1}
                 /\ Cardinality(RowsIn(B)') = Cardinality(RowsIn(B)) + 1
           /\ row.bucket \notin B => RowsIn(B)' = RowsIn(B)
<1>1. /\ Len(rows) \in Nat /\ DOMAIN rows = 1..Len(rows)
      /\ DOMAIN rows' = 1..(Len(rows) + 1)
      /\ \A i \in 1..Len(rows) : rows'[i] = rows[i]
      /\ rows'[Len(rows) + 1] = row
  OBVIOUS
<1>2. RowsIn(B) \subseteq 1..Len(rows)
  BY <1>1 DEF RowsIn
<1>3. IsFiniteSet(RowsIn(B))
  <2>1. IsFiniteSet(1..Len(rows))
    BY <1>1, FS_Interval
  <2>2. RowsIn(B) \in SUBSET (1..Len(rows))
    BY <1>2
  <2>3. QED
    BY <2>1, <2>2, FS_Subset
<1>4. Cardinality(RowsIn(B)) \in Nat
  BY <1>3, FS_CardinalityType
<1>5. ASSUME row.bucket \in B PROVE RowsIn(B)' = RowsIn(B) \cup {Len(rows) + 1}
  BY <1>1, <1>5 DEF RowsIn
<1>6. ASSUME row.bucket \notin B PROVE RowsIn(B)' = RowsIn(B)
  BY <1>1, <1>6 DEF RowsIn
<1>7. Len(rows) + 1 \notin RowsIn(B)
  BY <1>1, <1>2
<1>8. ASSUME row.bucket \in B PROVE Cardinality(RowsIn(B)') = Cardinality(RowsIn(B)) + 1
  BY <1>3, <1>5, <1>7, <1>8, FS_AddElement
<1>9. QED
  BY <1>2, <1>3, <1>4, <1>5, <1>6, <1>8

Fallbacks == {"fallbackCorrect", "fallbackWrong"}

\* The counts of EveryQuestionCounts, as one sum.
Counted ==
    Len(remote) + Len(local) + Len(imputed) + errors + Cardinality(RowsIn(Fallbacks))

\* Rows are numbered by their questions.
Numbered ==
    /\ Len(rows) = question - 1
    /\ \A i \in DOMAIN rows : rows[i].question = i

CountInv == TypeOK /\ Numbered /\ Counted = Len(rows)

LEMMA CountInvIsEveryQuestionCounts == CountInv => EveryQuestionCounts
BY DEF CountInv, Numbered, Counted, Fallbacks, EveryQuestionCounts

\* Finish numbers the row it appends, and leaves the other counts to its action.
LEMMA FinishNumbers ==
    ASSUME CountInv, NEW b \in Buckets, NEW s \in 0..5, NEW i \in {Local, None},
           pc \in {"ask", "judge"}, Finish(Row(b, s, i))
    PROVE  /\ Numbered'
           /\ Len(rows') = Len(rows) + 1
           /\ Cardinality(RowsIn(Fallbacks)) \in Nat
           /\ b \in Fallbacks =>
                 Cardinality(RowsIn(Fallbacks)') = Cardinality(RowsIn(Fallbacks)) + 1
           /\ b \notin Fallbacks => RowsIn(Fallbacks)' = RowsIn(Fallbacks)
<1>1. rows \in Seq(Rows) /\ question \in Questions /\ question \in Int
  BY QuestionsAreNumbered DEF CountInv, TypeOK
<1>2. Row(b, s, i) \in Rows /\ Row(b, s, i).bucket = b /\ Row(b, s, i).question = question
  BY <1>1 DEF Row, Rows
<1>3. rows' = Append(rows, Row(b, s, i)) /\ question' = question + 1
  BY DEF Finish
<1> DEFINE row == Row(b, s, i)
<1>4. row \in Rows /\ row.bucket = b /\ row.question = question /\ rows' = Append(rows, row)
  BY <1>2, <1>3
<1> HIDE DEF row
<1>5. Numbered'
  BY <1>1, <1>3, <1>4 DEF CountInv, Numbered
<1>6. Len(rows') = Len(rows) + 1
  BY <1>1, <1>4
<1>7. QED
  BY <1>1, <1>4, <1>5, <1>6, RowsAppended

LEMMA CountStep ==
    ASSUME CountInv, [Next]_vars
    PROVE  (Numbered /\ Counted = Len(rows))'
<1>1. /\ Len(remote) \in Nat /\ Len(local) \in Nat /\ Len(imputed) \in Nat
      /\ errors \in Nat /\ Len(rows) \in Nat
      /\ Numbered /\ Counted = Len(rows)
      /\ remote \in Seq(0..5) /\ local \in Seq(0..5) /\ imputed \in Seq(0..5)
  BY DEF CountInv, TypeOK
<1>2. CASE GenerationFails
  <2>1. Finish(Row("error", 0, None)) /\ pc \in {"ask", "judge"}
    BY <1>2 DEF GenerationFails
  <2>2. QED
    BY <1>1, <1>2, <2>1, FinishNumbers DEF GenerationFails, Counted, Buckets, Fallbacks
<1>3. ASSUME NEW r \in Results, ScoreFallback(r)
      PROVE  (Numbered /\ Counted = Len(rows))'
  <2> DEFINE b == IF r.exact /\ r.tokens = 0 THEN "fallbackCorrect" ELSE "fallbackWrong"
  <2>1. Finish(Row(b, 0, None)) /\ pc \in {"ask", "judge"} /\ UNCHANGED buckets
    BY <1>3 DEF ScoreFallback
  <2>2. b \in Buckets /\ b \in Fallbacks
    BY DEF Buckets, Fallbacks
  <2> HIDE DEF b
  <2>3. /\ Numbered' /\ Len(rows') = Len(rows) + 1
        /\ Cardinality(RowsIn(Fallbacks)) \in Nat
        /\ Cardinality(RowsIn(Fallbacks)') = Cardinality(RowsIn(Fallbacks)) + 1
    BY <2>1, <2>2, FinishNumbers
  <2>4. /\ Len(remote') = Len(remote) /\ Len(local') = Len(local)
        /\ Len(imputed') = Len(imputed) /\ errors' = errors
    BY <2>1 DEF buckets
  <2>5. Counted' = Counted + 1
    BY <1>1, <2>3, <2>4 DEF Counted
  <2>6. QED
    BY <1>1, <2>3, <2>5
<1>4. ASSUME NEW r \in Results, ImputeRefusal(r)
      PROVE  (Numbered /\ Counted = Len(rows))'
  <2>1. /\ Finish(Row("imputed", 5, None)) /\ pc \in {"ask", "judge"}
        /\ imputed' = Append(imputed, 5) /\ UNCHANGED <<remote, local, errors>>
    BY <1>4 DEF ImputeRefusal
  <2>2. Len(imputed') = Len(imputed) + 1
    BY <1>1, <2>1
  <2>3. "imputed" \in Buckets /\ "imputed" \notin Fallbacks
    BY DEF Buckets, Fallbacks
  <2>4. /\ Numbered' /\ Len(rows') = Len(rows) + 1
        /\ Cardinality(RowsIn(Fallbacks)) \in Nat
        /\ RowsIn(Fallbacks)' = RowsIn(Fallbacks)
    BY <2>1, <2>3, FinishNumbers
  <2>5. Len(remote') = Len(remote) /\ Len(local') = Len(local) /\ errors' = errors
    BY <2>1
  <2>6. Counted' = Counted + 1
    BY <1>1, <2>2, <2>4, <2>5 DEF Counted
  <2>7. QED
    BY <1>1, <2>4, <2>6
<1>5. ASSUME NEW s \in Scores, JudgeScores(s)
      PROVE  (Numbered /\ Counted = Len(rows))'
  <2>1. /\ Finish(Row("remote", s, None)) /\ pc \in {"ask", "judge"} /\ s \in 0..5
        /\ remote' = Append(remote, s) /\ UNCHANGED <<local, imputed, errors>>
    BY <1>5 DEF JudgeScores, Judging, Scores
  <2>2. Len(remote') = Len(remote) + 1
    BY <1>1, <2>1
  <2>3. "remote" \in Buckets /\ "remote" \notin Fallbacks
    BY DEF Buckets, Fallbacks
  <2>4. /\ Numbered' /\ Len(rows') = Len(rows) + 1
        /\ Cardinality(RowsIn(Fallbacks)) \in Nat
        /\ RowsIn(Fallbacks)' = RowsIn(Fallbacks)
    BY <2>1, <2>3, FinishNumbers
  <2>5. Len(local') = Len(local) /\ Len(imputed') = Len(imputed) /\ errors' = errors
    BY <2>1
  <2>6. Counted' = Counted + 1
    BY <1>1, <2>2, <2>4, <2>5 DEF Counted
  <2>7. QED
    BY <1>1, <2>4, <2>6
<1>6. ASSUME NEW s \in Scores, ScoreLocally(s)
      PROVE  (Numbered /\ Counted = Len(rows))'
  <2>1. /\ Finish(Row("local", s, Local)) /\ pc \in {"ask", "judge"} /\ s \in 0..5
        /\ local' = Append(local, s) /\ UNCHANGED <<remote, imputed, errors>>
    BY <1>6 DEF ScoreLocally, Scores
  <2>2. Len(local') = Len(local) + 1
    BY <1>1, <2>1
  <2>3. "local" \in Buckets /\ "local" \notin Fallbacks
    BY DEF Buckets, Fallbacks
  <2>4. /\ Numbered' /\ Len(rows') = Len(rows) + 1
        /\ Cardinality(RowsIn(Fallbacks)) \in Nat
        /\ RowsIn(Fallbacks)' = RowsIn(Fallbacks)
    BY <2>1, <2>3, FinishNumbers
  <2>5. Len(remote') = Len(remote) /\ Len(imputed') = Len(imputed) /\ errors' = errors
    BY <2>1
  <2>6. Counted' = Counted + 1
    BY <1>1, <2>2, <2>4, <2>5 DEF Counted
  <2>7. QED
    BY <1>1, <2>4, <2>6
<1>7. CASE UNCHANGED <<question, rows, buckets>>
  BY <1>1, <1>7 DEF Numbered, Counted, RowsIn, buckets
<1>8. CASE \E r \in Results : BeginJudging(r)
  BY <1>7, <1>8 DEF BeginJudging
<1>9. CASE PassOver \/ JudgeCallFails \/ JudgeMalformed \/ Abort \/ Report \/ UNCHANGED vars
  BY <1>7, <1>9 DEF PassOver, JudgeCallFails, JudgeMalformed, GiveUpJudge, Abort, Report,
                    vars, buckets
<1>10. QED
  BY <1>2, <1>3, <1>4, <1>5, <1>6, <1>8, <1>9 DEF Next

\* Every question taken is in one row and in one count, for any data set and any
\* outcomes: none vanishes from a denominator (run, summarise).
THEOREM EveryQuestionIsCounted == Spec => []EveryQuestionCounts
<1>1. Init => CountInv
  <2>1. SUFFICES ASSUME Init PROVE CountInv
    OBVIOUS
  <2>2. rows = <<>> /\ RowsIn(Fallbacks) = {}
    BY <2>1 DEF Init, RowsIn
  <2>3. Cardinality(RowsIn(Fallbacks)) = 0
    BY <2>2, FS_EmptySet
  <2>4. QED
    BY <2>1, <2>2, <2>3, TypeInit DEF Init, CountInv, Numbered, Counted
<1>2. CountInv /\ [Next]_vars => CountInv'
  BY TypeStep, CountStep DEF CountInv
<1>3. QED
  BY <1>1, <1>2, CountInvIsEveryQuestionCounts, PTL DEF Spec

-----------------------------------------------------------------------------
(* The headline.                                                           *)

Measured == RowsIn({"remote"})

UpTo(i) == { j \in Measured : j <= i }

HeadInv == TypeOK /\ HeadlineIsMeasured

LEMMA HeadlineParts ==
    HeadlineIsMeasured <=>
        /\ Len(remote) = Cardinality(Measured)
        /\ \A i \in Measured :
              rows[i].score \in Scores /\ rows[i].score = remote[Cardinality(UpTo(i))]
BY DEF HeadlineIsMeasured, Measured, UpTo

LEMMA HeadlinePartsNext ==
    HeadlineIsMeasured' <=>
        /\ Len(remote') = Cardinality(Measured')
        /\ \A i \in Measured' :
              rows'[i].score \in Scores /\ rows'[i].score = remote'[Cardinality(UpTo(i)')]
BY DEF HeadlineIsMeasured, Measured, UpTo

\* A measured row has its score within the headline.
LEMMA PlaceInHeadline ==
    ASSUME HeadInv, NEW i \in Measured
    PROVE  /\ IsFiniteSet(Measured)
           /\ Cardinality(UpTo(i)) \in 1..Len(remote)
<1>1. Len(rows) \in Nat /\ Measured \subseteq 1..Len(rows)
  BY DEF HeadInv, TypeOK, Measured, RowsIn
<1>2. IsFiniteSet(1..Len(rows))
  BY <1>1, FS_Interval
<1>3. IsFiniteSet(Measured)
  BY <1>1, <1>2, FS_Subset
<1>4. UpTo(i) \in SUBSET Measured
  BY DEF UpTo
<1>5. IsFiniteSet(UpTo(i)) /\ Cardinality(UpTo(i)) <= Cardinality(Measured)
  BY <1>3, <1>4, FS_Subset
<1>6. i \in UpTo(i)
  BY <1>1 DEF UpTo
<1>7. Cardinality(UpTo(i)) \in Nat /\ Cardinality(UpTo(i)) # 0
  BY <1>5, <1>6, FS_CardinalityType, FS_EmptySet
<1>8. Cardinality(Measured) = Len(remote) /\ Len(remote) \in Nat
  BY HeadlineParts DEF HeadInv, TypeOK
<1>9. QED
  BY <1>3, <1>5, <1>7, <1>8

\* A row of another bucket leaves the headline alone.
LEMMA OtherRow ==
    ASSUME HeadInv, NEW row \in Rows, row.bucket # "remote",
           rows' = Append(rows, row), remote' = remote
    PROVE  HeadlineIsMeasured'
<1>1. rows \in Seq(Rows)
  BY DEF HeadInv, TypeOK
<1>2. Measured' = Measured /\ Measured \subseteq 1..Len(rows)
  BY <1>1, RowsAppended DEF Measured
<1>3. \A i \in Measured : rows'[i] = rows[i] /\ UpTo(i)' = UpTo(i)
  BY <1>1, <1>2 DEF UpTo
<1>4. QED
  BY <1>2, <1>3, HeadlineParts, HeadlinePartsNext DEF HeadInv

\* A measured row joins the headline with its score.
LEMMA MeasuredRow ==
    ASSUME HeadInv, NEW s \in Scores, NEW row \in Rows, row.bucket = "remote", row.score = s,
           rows' = Append(rows, row), remote' = Append(remote, s)
    PROVE  HeadlineIsMeasured'
<1>1. /\ rows \in Seq(Rows) /\ remote \in Seq(0..5)
      /\ Len(rows) \in Nat /\ Len(remote) \in Nat
  BY DEF HeadInv, TypeOK
<1> PICK n \in Nat : n = Len(rows) + 1
  BY <1>1
<1>2. /\ Measured \subseteq 1..Len(rows)
      /\ Measured' = Measured \cup {n}
      /\ Cardinality(Measured') = Cardinality(Measured) + 1
  BY <1>1, RowsAppended DEF Measured
<1>3. Len(remote) = Cardinality(Measured) /\ Len(remote') = Len(remote) + 1
  BY <1>1, HeadlineParts DEF HeadInv
<1>4. ASSUME NEW i \in Measured
      PROVE  rows'[i].score \in Scores /\ rows'[i].score = remote'[Cardinality(UpTo(i)')]
  <2>1. i \in 1..Len(rows) /\ rows'[i] = rows[i]
    BY <1>1, <1>2
  <2>2. UpTo(i)' = UpTo(i)
    BY <1>1, <1>2, <2>1 DEF UpTo
  <2>3. Cardinality(UpTo(i)) \in 1..Len(remote)
    BY PlaceInHeadline
  <2>4. remote'[Cardinality(UpTo(i))] = remote[Cardinality(UpTo(i))]
    BY <1>1, <2>3
  <2>5. QED
    BY <2>1, <2>2, <2>4, HeadlineParts DEF HeadInv
<1>5. rows'[n].score \in Scores /\ rows'[n].score = remote'[Cardinality(UpTo(n)')]
  <2>1. rows'[n] = row
    BY <1>1
  <2>2. UpTo(n)' = Measured'
    <3>1. \A j \in Measured' : j <= n
      BY <1>1, <1>2
    <3>2. QED
      BY <3>1 DEF UpTo
  <2>3. remote'[Len(remote) + 1] = s
    BY <1>1
  <2>4. QED
    BY <1>2, <1>3, <2>1, <2>2, <2>3
<1>6. QED
  BY <1>2, <1>3, <1>4, <1>5, HeadlinePartsNext

LEMMA HeadStep ==
    ASSUME HeadInv, [Next]_vars
    PROVE  HeadlineIsMeasured'
<1>1. pc \in {"ask", "judge"} => question \in Questions
  BY DEF HeadInv, TypeOK
<1>2. ASSUME NEW b \in Buckets, b # "remote", NEW s \in 0..5, NEW i \in {Local, None},
             pc \in {"ask", "judge"}, Finish(Row(b, s, i)), remote' = remote
      PROVE  HeadlineIsMeasured'
  <2>1. Row(b, s, i) \in Rows /\ Row(b, s, i).bucket # "remote"
    BY <1>1, <1>2 DEF Row, Rows
  <2>2. rows' = Append(rows, Row(b, s, i))
    BY <1>2 DEF Finish
  <2>3. QED
    BY <1>2, <2>1, <2>2, OtherRow
<1>3. CASE GenerationFails
  BY <1>2, <1>3 DEF GenerationFails, Buckets
<1>4. ASSUME NEW r \in Results, ScoreFallback(r) PROVE HeadlineIsMeasured'
  <2> DEFINE b == IF r.exact /\ r.tokens = 0 THEN "fallbackCorrect" ELSE "fallbackWrong"
  <2>1. Finish(Row(b, 0, None)) /\ pc \in {"ask", "judge"} /\ remote' = remote
    BY <1>4 DEF ScoreFallback, buckets
  <2>2. b \in Buckets /\ b # "remote"
    BY DEF Buckets
  <2> HIDE DEF b
  <2>3. QED
    BY <1>2, <2>1, <2>2
<1>5. ASSUME NEW r \in Results, ImputeRefusal(r) PROVE HeadlineIsMeasured'
  BY <1>2, <1>5 DEF ImputeRefusal, Buckets
<1>6. ASSUME NEW s \in Scores, JudgeScores(s) PROVE HeadlineIsMeasured'
  <2> DEFINE row == Row("remote", s, None)
  <2>1. row \in Rows /\ row.bucket = "remote" /\ row.score = s
    BY <1>1, <1>6 DEF JudgeScores, Judging, Row, Rows, Buckets, Scores
  <2>2. rows' = Append(rows, row) /\ remote' = Append(remote, s)
    BY <1>6 DEF JudgeScores, Finish
  <2> HIDE DEF row
  <2>3. QED
    BY <2>1, <2>2, MeasuredRow
<1>7. ASSUME NEW s \in Scores, ScoreLocally(s) PROVE HeadlineIsMeasured'
  BY <1>2, <1>7 DEF ScoreLocally, Buckets, Scores
<1>8. CASE UNCHANGED <<rows, remote>>
  BY <1>8 DEF HeadInv, HeadlineIsMeasured, RowsIn
<1>9. CASE \E r \in Results : BeginJudging(r)
  BY <1>8, <1>9 DEF BeginJudging, buckets
<1>10. CASE PassOver \/ JudgeCallFails \/ JudgeMalformed \/ Abort \/ Report \/ UNCHANGED vars
  BY <1>8, <1>10 DEF PassOver, JudgeCallFails, JudgeMalformed, GiveUpJudge, Abort, Report,
                     vars, buckets
<1>11. QED
  BY <1>3, <1>4, <1>5, <1>6, <1>7, <1>9, <1>10 DEF Next

\* The headline holds the scores LLM judges gave, in order, and no other, for any
\* data set and chain of judges (run, summarise).
THEOREM HeadlineIsAlwaysMeasured == Spec => []HeadlineIsMeasured
<1>1. Init => HeadInv
  <2>1. SUFFICES ASSUME Init PROVE HeadInv
    OBVIOUS
  <2>2. Measured = {} /\ remote = <<>>
    BY <2>1 DEF Init, Measured, RowsIn
  <2>3. QED
    BY <2>1, <2>2, TypeInit, HeadlineParts, FS_EmptySet DEF HeadInv
<1>2. HeadInv /\ [Next]_vars => HeadInv'
  BY TypeStep, HeadStep DEF HeadInv
<1>3. HeadInv => HeadlineIsMeasured
  BY DEF HeadInv
<1>4. QED
  BY <1>1, <1>2, <1>3, PTL DEF Spec

-----------------------------------------------------------------------------
(* The cache under the programs.                                           *)

CacheTypeOK ==
    /\ entry \in [Prompts -> Entries]
    /\ asking \in [Processes -> Prompts \cup {NotAsking}]
    /\ putting \in [Processes -> (Prompts \X Replies) \cup {NotPutting}]
    /\ replied \in [Prompts -> Nat]
    /\ lost \in [Prompts -> Nat]

Askers(k) == { q \in Processes : asking[q] = k }

Quiet(k) == \A q \in Processes : asking[q] # k /\ putting[q][1] # k

\* A process waits for a reply or writes one.
OneThing == \A p \in Processes : asking[p] = NotAsking \/ putting[p] = NotPutting

\* The reply of everyone who asks is paid for in advance, except one; and with
\* nobody on the way to an entry that is not there, none is left to pay for.
PaidInv ==
    /\ CacheTypeOK
    /\ OneThing
    /\ \A k \in Prompts : replied[k] + Cardinality(Askers(k)) <= lost[k] + 1
    /\ \A k \in Prompts : entry[k] \notin Replies /\ Quiet(k) => replied[k] <= lost[k]

\* What a step of a program does to the cache.
CacheStep(p) ==
    \/ \E k \in Prompts : Miss(p, k)
    \/ AskFails(p)
    \/ \E r \in Replies : Receive(p, r)
    \/ ReceiveUncached(p)
    \/ Put(p)
    \/ CrashOfCall(p)

LEMMA AskersAreFinite ==
    ASSUME NEW k PROVE IsFiniteSet(Askers(k)) /\ Cardinality(Askers(k)) \in Nat
<1>1. Askers(k) \subseteq Processes
  BY DEF Askers
<1>2. QED
  BY <1>1, ProcessesAssumption, FS_Subset, FS_CardinalityType

\* Who asks is counted.
LEMMA AskerCounts ==
    ASSUME NEW p \in Processes, NEW k, asking[p] = k
    PROVE  Cardinality(Askers(k)) >= 1
<1>1. p \in Askers(k)
  BY DEF Askers
<1>2. Cardinality(Askers(k)) # 0
  BY <1>1, AskersAreFinite, FS_EmptySet
<1>3. QED
  BY <1>2, AskersAreFinite

\* A process that begins or ceases to ask.
LEMMA AskersChange ==
    ASSUME CacheTypeOK, NEW p \in Processes, NEW j \in Prompts \cup {NotAsking},
           asking' = [asking EXCEPT ![p] = j], NEW k \in Prompts
    PROVE  /\ k # j /\ k # asking[p] => Cardinality(Askers(k))' = Cardinality(Askers(k))
           /\ k = j /\ k # asking[p] => Cardinality(Askers(k))' = Cardinality(Askers(k)) + 1
           /\ k # j /\ k = asking[p] => Cardinality(Askers(k))' = Cardinality(Askers(k)) - 1
<1>1. \A q \in Processes : asking'[q] = IF q = p THEN j ELSE asking[q]
  BY DEF CacheTypeOK
<1>2. CASE k # j /\ k # asking[p]
  <2>1. Askers(k)' = Askers(k)
    BY <1>1, <1>2 DEF Askers
  <2>2. QED
    BY <1>2, <2>1
<1>3. CASE k = j /\ k # asking[p]
  <2>1. Askers(k)' = Askers(k) \cup {p} /\ p \notin Askers(k)
    BY <1>1, <1>3 DEF Askers
  <2>2. QED
    BY <1>3, <2>1, AskersAreFinite, FS_AddElement
<1>4. CASE k # j /\ k = asking[p]
  <2>1. Askers(k)' = Askers(k) \ {p} /\ p \in Askers(k)
    BY <1>1, <1>4 DEF Askers
  <2>2. QED
    BY <1>4, <2>1, AskersAreFinite, FS_RemoveElement
<1>5. QED
  BY <1>2, <1>3, <1>4

\* What is left of an invariant at a prompt that nothing happened to.
LEMMA OtherPrompts ==
    ASSUME PaidInv, NEW p \in Processes, NEW k \in Prompts,
           entry'[k] = entry[k], replied'[k] = replied[k], lost'[k] = lost[k],
           Cardinality(Askers(k))' = Cardinality(Askers(k)),
           \A q \in Processes : asking'[q] = k <=> asking[q] = k,
           \A q \in Processes : putting'[q][1] = k <=> putting[q][1] = k
    PROVE  /\ replied'[k] + Cardinality(Askers(k))' <= lost'[k] + 1
           /\ entry'[k] \notin Replies /\ Quiet(k)' => replied'[k] <= lost'[k]
<1>1. Quiet(k)' => Quiet(k)
  BY DEF Quiet
<1>2. QED
  BY <1>1 DEF PaidInv

LEMMA CacheTypeStep ==
    ASSUME CacheTypeOK, NEW p \in Processes, CacheStep(p)
    PROVE  CacheTypeOK'
<1> USE DEF CacheTypeOK
<1>1. ASSUME NEW k \in Prompts, Miss(p, k) PROVE CacheTypeOK'
  BY <1>1 DEF Miss, Lose
<1>2. CASE AskFails(p)
  BY <1>2 DEF AskFails
<1>3. ASSUME NEW r \in Replies, Receive(p, r) PROVE CacheTypeOK'
  <2>1. asking[p] \in Prompts
    BY <1>3 DEF Receive
  <2>2. QED
    BY <1>3, <2>1 DEF Receive, Entries, Damaged
<1>4. CASE ReceiveUncached(p)
  <2>1. asking[p] \in Prompts
    BY <1>4 DEF ReceiveUncached
  <2>2. QED
    BY <1>4, <2>1 DEF ReceiveUncached, Lose
<1>5. CASE Put(p)
  <2>1. putting[p] \in Prompts \X Replies
    BY <1>5 DEF Put
  <2>2. putting[p][1] \in Prompts /\ putting[p][2] \in Entries /\ "cut" \in Entries
    BY <2>1 DEF Entries, Damaged
  <2>3. QED
    BY <1>5, <2>2 DEF Put, Lose
<1>6. CASE CutShort(p)
  <2>1. putting[p] \in Prompts \X Replies
    BY <1>6 DEF CutShort
  <2>2. putting[p][1] \in Prompts /\ Damaged \subseteq Entries
    BY <2>1 DEF Entries
  <2>3. QED
    BY <1>6, <2>2 DEF CutShort, Lose
<1>7. CASE CrashOfCall(p)
  BY <1>6, <1>7 DEF CrashOfCall
<1>8. QED
  BY <1>1, <1>2, <1>3, <1>4, <1>5, <1>7 DEF CacheStep

LEMMA OneThingStep ==
    ASSUME CacheTypeOK, OneThing, NEW p \in Processes, CacheStep(p)
    PROVE  OneThing'
<1> USE DEF OneThing, CacheTypeOK
<1>1. ASSUME NEW k \in Prompts, Miss(p, k) PROVE OneThing'
  BY <1>1 DEF Miss, CacheIdle
<1>2. ASSUME NEW r \in Replies, Receive(p, r) PROVE OneThing'
  BY <1>2 DEF Receive
<1>3. QED
  BY <1>1, <1>2 DEF CacheStep, AskFails, ReceiveUncached, Put, CutShort, CrashOfCall

\* At every prompt, a step keeps what is paid in step with what was replied.
LEMMA PaidStep ==
    ASSUME PaidInv, NEW p \in Processes, CacheStep(p)
    PROVE  PaidInv'
<1> SUFFICES ASSUME NEW k \in Prompts
             PROVE  /\ replied'[k] + Cardinality(Askers(k))' <= lost'[k] + 1
                    /\ entry'[k] \notin Replies /\ Quiet(k)' => replied'[k] <= lost'[k]
  <2>1. CacheTypeOK' /\ OneThing'
    BY CacheTypeStep, OneThingStep DEF PaidInv
  <2>2. QED
    BY <2>1 DEF PaidInv
<1> DEFINE Kept ==
      /\ replied'[k] + Cardinality(Askers(k))' <= lost'[k] + 1
      /\ entry'[k] \notin Replies /\ Quiet(k)' => replied'[k] <= lost'[k]
<1>1. /\ CacheTypeOK /\ replied[k] \in Nat /\ lost[k] \in Nat /\ Cardinality(Askers(k)) \in Nat
      /\ replied[k] + Cardinality(Askers(k)) <= lost[k] + 1
      /\ entry[k] \notin Replies /\ Quiet(k) => replied[k] <= lost[k]
  BY AskersAreFinite DEF PaidInv, CacheTypeOK
<1>2. ASSUME asking' = asking
      PROVE  /\ Cardinality(Askers(k))' = Cardinality(Askers(k))
             /\ \A q \in Processes : asking'[q] = k <=> asking[q] = k
  BY <1>2 DEF Askers
<1>3. ASSUME NEW j \in Prompts, Miss(p, j) PROVE Kept
  <2>1. /\ asking' = [asking EXCEPT ![p] = j] /\ asking[p] = NotAsking /\ putting[p] = NotPutting
        /\ entry' = entry /\ putting' = putting /\ replied' = replied
        /\ entry[j] \notin Replies
        /\ lost' = [lost EXCEPT ![j] = @ + IF InFlight(p, j) THEN 1 ELSE 0]
    BY <1>3 DEF Miss, CacheIdle, Lose, Replies
  <2>2. asking[p] # k /\ putting[p][1] # k
    BY <2>1, KeysAssumption DEF NotPutting, NotAsking
  <2>3. CASE k # j
    <3>1. Cardinality(Askers(k))' = Cardinality(Askers(k))
      BY <1>1, <2>1, <2>2, <2>3, AskersChange
    <3>2. \A q \in Processes : asking'[q] = k <=> asking[q] = k
      BY <1>1, <2>1, <2>2, <2>3 DEF CacheTypeOK
    <3>3. QED
      BY <1>1, <2>1, <2>3, <3>1, <3>2, OtherPrompts DEF CacheTypeOK
  <2>4. CASE k = j
    <3>1. Cardinality(Askers(k))' = Cardinality(Askers(k)) + 1
      BY <1>1, <2>1, <2>2, <2>4, AskersChange
    <3>2. ~Quiet(k)'
      BY <1>1, <2>1, <2>4 DEF Quiet, CacheTypeOK
    <3>3. InFlight(p, k) => lost'[k] = lost[k] + 1
      BY <1>1, <2>1, <2>4 DEF CacheTypeOK
    <3>4. ~InFlight(p, k) => lost'[k] = lost[k] /\ replied[k] <= lost[k] /\ Cardinality(Askers(k)) = 0
      <4>1. SUFFICES ASSUME ~InFlight(p, k)
                     PROVE  lost'[k] = lost[k] /\ replied[k] <= lost[k] /\ Cardinality(Askers(k)) = 0
        OBVIOUS
      <4>2. Quiet(k)
        BY <2>2, <4>1 DEF Quiet, InFlight
      <4>3. Askers(k) = {}
        BY <4>2 DEF Quiet, Askers
      <4>4. QED
        BY <1>1, <2>1, <2>4, <4>1, <4>2, <4>3, FS_EmptySet DEF CacheTypeOK
    <3>5. QED
      BY <1>1, <2>1, <3>1, <3>2, <3>3, <3>4
  <2>5. QED
    BY <2>3, <2>4
<1>4. ASSUME asking' = [asking EXCEPT ![p] = NotAsking], asking[p] # NotAsking,
             UNCHANGED <<entry, putting, replied, lost>>
      PROVE  Kept
  <2>1. CASE k # asking[p]
    <3>1. Cardinality(Askers(k))' = Cardinality(Askers(k))
      BY <1>1, <1>4, <2>1, AskersChange, KeysAssumption
    <3>2. \A q \in Processes : asking'[q] = k <=> asking[q] = k
      BY <1>1, <1>4, <2>1, KeysAssumption DEF CacheTypeOK
    <3>3. QED
      BY <1>4, <3>1, <3>2, OtherPrompts
  <2>2. CASE k = asking[p]
    <3>1. Cardinality(Askers(k))' = Cardinality(Askers(k)) - 1
      BY <1>1, <1>4, <2>2, AskersChange, KeysAssumption
    <3>2. Cardinality(Askers(k)) >= 1
      BY <2>2, AskerCounts
    <3>3. QED
      BY <1>1, <1>4, <3>1, <3>2
  <2>3. QED
    BY <2>1, <2>2
<1>5. CASE AskFails(p)
  BY <1>4, <1>5 DEF AskFails
<1>6. ASSUME NEW r \in Replies, Receive(p, r) PROVE Kept
  <2>1. /\ asking[p] \in Prompts /\ lost' = lost
        /\ replied' = [replied EXCEPT ![asking[p]] = @ + 1]
        /\ asking' = [asking EXCEPT ![p] = NotAsking]
        /\ putting' = [putting EXCEPT ![p] = <<asking[p], r>>]
        /\ entry' = [entry EXCEPT ![asking[p]] = "cut"]
    BY <1>1, <1>6 DEF Receive, CacheTypeOK
  <2>2. CASE k # asking[p]
    <3>1. Cardinality(Askers(k))' = Cardinality(Askers(k))
      BY <1>1, <2>1, <2>2, AskersChange, KeysAssumption
    <3>2. entry'[k] = entry[k] /\ replied'[k] = replied[k] /\ lost'[k] = lost[k]
      BY <1>1, <2>1, <2>2 DEF CacheTypeOK
    <3>3. \A q \in Processes : asking'[q] = k <=> asking[q] = k
      BY <1>1, <2>1, <2>2, KeysAssumption DEF CacheTypeOK
    <3>4. putting[p][1] # k /\ putting'[p][1] # k
      <4>1. putting[p] = NotPutting
        BY <2>1, KeysAssumption DEF PaidInv, OneThing
      <4>2. QED
        BY <1>1, <2>1, <2>2, <4>1, KeysAssumption DEF NotPutting, NotAsking, CacheTypeOK
    <3>5. \A q \in Processes : putting'[q][1] = k <=> putting[q][1] = k
      BY <1>1, <2>1, <3>4 DEF CacheTypeOK
    <3>6. QED
      BY <3>1, <3>2, <3>3, <3>5, OtherPrompts
  <2>3. CASE k = asking[p]
    <3>1. Cardinality(Askers(k))' = Cardinality(Askers(k)) - 1
      BY <1>1, <2>1, <2>3, AskersChange, KeysAssumption
    <3>2. replied'[k] = replied[k] + 1
      BY <1>1, <2>1, <2>3 DEF CacheTypeOK
    <3>3. ~Quiet(k)'
      BY <1>1, <2>1, <2>3 DEF Quiet, CacheTypeOK
    <3>4. QED
      BY <1>1, <2>1, <3>1, <3>2, <3>3
  <2>4. QED
    BY <2>2, <2>3
<1>7. CASE ReceiveUncached(p)
  <2>1. /\ asking[p] \in Prompts
        /\ lost' = [lost EXCEPT ![asking[p]] = @ + 1]
        /\ replied' = [replied EXCEPT ![asking[p]] = @ + 1]
        /\ asking' = [asking EXCEPT ![p] = NotAsking]
        /\ putting' = putting /\ entry' = entry
    BY <1>1, <1>7 DEF ReceiveUncached, CacheTypeOK, Lose
  <2>2. CASE k # asking[p]
    <3>1. Cardinality(Askers(k))' = Cardinality(Askers(k))
      BY <1>1, <2>1, <2>2, AskersChange, KeysAssumption
    <3>2. \A q \in Processes : asking'[q] = k <=> asking[q] = k
      BY <1>1, <2>1, <2>2, KeysAssumption DEF CacheTypeOK
    <3>3. QED
      BY <1>1, <2>1, <2>2, <3>1, <3>2, OtherPrompts DEF CacheTypeOK
  <2>3. CASE k = asking[p]
    <3>1. Cardinality(Askers(k))' = Cardinality(Askers(k)) - 1
      BY <1>1, <2>1, <2>3, AskersChange, KeysAssumption
    <3>2. replied'[k] = replied[k] + 1 /\ lost'[k] = lost[k] + 1
      BY <1>1, <2>1, <2>3 DEF CacheTypeOK
    <3>3. Cardinality(Askers(k)) >= 1
      BY <2>3, AskerCounts
    <3>4. QED
      BY <1>1, <3>1, <3>2, <3>3
  <2>4. QED
    BY <2>2, <2>3
<1>8. ASSUME NEW e \in Entries, putting[p] # NotPutting,
             asking' = asking, replied' = replied,
             putting' = [putting EXCEPT ![p] = NotPutting],
             entry' = [entry EXCEPT ![putting[p][1]] = e],
             \/ e \in Replies /\ lost' = lost
             \/ Lose(putting[p][1], 1)
      PROVE  Kept
  <2>1. putting[p] \in Prompts \X Replies /\ putting[p][1] \in Prompts
    BY <1>1, <1>8 DEF CacheTypeOK
  <2>2. CASE k # putting[p][1]
    <3>1. putting'[p][1] # k
      BY <1>1, <1>8, KeysAssumption DEF NotPutting, NotAsking, CacheTypeOK
    <3>2. \A q \in Processes : putting'[q][1] = k <=> putting[q][1] = k
      BY <1>1, <1>8, <2>2, <3>1 DEF CacheTypeOK
    <3>3. entry'[k] = entry[k] /\ lost'[k] = lost[k]
      BY <1>1, <1>8, <2>1, <2>2 DEF CacheTypeOK, Lose
    <3>4. QED
      BY <1>2, <1>8, <3>2, <3>3, OtherPrompts
  <2>3. CASE k = putting[p][1]
    <3>1. entry'[k] = e
      BY <1>1, <1>8, <2>3 DEF CacheTypeOK
    <3>2. (e \in Replies /\ lost'[k] = lost[k]) \/ lost'[k] = lost[k] + 1
      BY <1>1, <1>8, <2>3 DEF CacheTypeOK, Lose
    <3>3. QED
      BY <1>1, <1>2, <1>8, <3>1, <3>2
  <2>4. QED
    BY <2>2, <2>3
<1>9. CASE Put(p)
  <2>1. putting[p] # NotPutting /\ putting[p] \in Prompts \X Replies
    BY <1>1, <1>9 DEF Put, CacheTypeOK
  <2>2. putting[p][2] \in Replies /\ putting[p][2] \in Entries /\ "cut" \in Entries
    BY <2>1 DEF Entries, Damaged
  <2>3. QED
    BY <1>8, <1>9, <2>1, <2>2 DEF Put
<1>10. CASE CutShort(p)
  BY <1>8, <1>10 DEF CutShort, Entries
<1>11. CASE CrashOfCall(p)
  <2>1. ASSUME putting[p] = NotPutting, asking' = [asking EXCEPT ![p] = NotAsking],
               asking[p] = NotAsking, UNCHANGED <<entry, putting, replied, lost>>
        PROVE  Kept
    <3>1. asking' = asking
      BY <1>1, <2>1 DEF CacheTypeOK
    <3>2. QED
      BY <1>2, <2>1, <3>1, OtherPrompts
  <2>2. QED
    BY <1>4, <1>10, <1>11, <2>1 DEF CrashOfCall
<1>12. QED
  BY <1>3, <1>5, <1>6, <1>7, <1>9, <1>11 DEF CacheStep

-----------------------------------------------------------------------------
(* Types of the programs.                                                  *)

Files == {Broken} \cup { Holds(r) : r \in Reports }

Places == {"idle", "probe", "work", "read", "write", "writing"}

Programs ==
    [at : Places, kind : Kinds \cup {"none"}, run : Runs, prompt : DOMAIN ProbePrompts,
     base : Reports, alone : BOOLEAN, origin : Files]

ProgramsTypeOK ==
    /\ file \in Files
    /\ program \in [Processes -> Programs]
    /\ started \in Runs
    /\ \A p \in Processes : Working(p) => program[p].kind \in Kinds

ResultsTypeOK == CacheTypeOK /\ ProgramsTypeOK

\* What TextMatchesAnswers asks of the report on file.
Text(r) == r.text \in {0, r.answer}

LEMMA NothingYet ==
    /\ NoReport \in Reports
    /\ 1 \in DOMAIN ProbePrompts
    /\ NoProgram \in Programs
    /\ \A r \in Reports : Holds(r)[1] = r /\ Holds(r) # Broken
<1>1. NoReport \in Reports /\ 1 \in DOMAIN ProbePrompts
  BY PromptsAssumption DEF NoReport, Reports, Runs
<1>2. NoProgram \in Programs
  BY <1>1, PromptsAssumption DEF NoProgram, Programs, Places, Files, Runs
<1>3. QED
  BY <1>1, <1>2 DEF Holds, Broken

\* A merged report is a report, in order, with the run's own sections replaced.
LEMMA Merged ==
    ASSUME NEW old \in Reports, NEW k \in Kinds, NEW n \in Runs
    PROVE  /\ Merge(old, k, n) \in Reports
           /\ Text(old) => Text(Merge(old, k, n))
           /\ OwnSectionsOnly(old, Merge(old, k, n), k, n)
<1>1. 0 \in Runs /\ old.answer \in Runs
  BY PromptsAssumption DEF Runs, Reports
<1>2. k \in {"answer", "answerUnprobed", "probes", "retrieval", "text"}
  BY DEF Kinds
<1>3. CASE k = "answer"
  BY <1>1, <1>3 DEF Merge, Text, OwnSectionsOnly, Reports, Probes
<1>4. CASE k = "answerUnprobed"
  BY <1>1, <1>4 DEF Merge, Text, OwnSectionsOnly, Reports, Probes
<1>5. CASE k = "probes"
  BY <1>1, <1>5 DEF Merge, Text, OwnSectionsOnly, Reports, Probes
<1>6. CASE k = "retrieval"
  BY <1>1, <1>6 DEF Merge, Text, OwnSectionsOnly, Reports, Probes
<1>7. CASE k = "text"
  BY <1>1, <1>7 DEF Merge, Text, OwnSectionsOnly, Reports, Probes
<1>8. QED
  BY <1>2, <1>3, <1>4, <1>5, <1>6, <1>7

-----------------------------------------------------------------------------
(* The kinds of steps.                                                     *)

\* A program goes on, as the same run.
Moves(p) ==
    /\ program' \in [Processes -> Programs]
    /\ \A q \in Processes \ {p} : program'[q] = program[q]
    /\ \/ program[p].at = "probe" /\ program'[p].at \in {"probe", "read", "work"}
       \/ program[p].at = "work" /\ program'[p].at = "read"
    /\ program'[p].kind = program[p].kind
    /\ program'[p].run = program[p].run
    /\ program'[p].base = program[p].base
    /\ program'[p].alone = program[p].alone
    /\ program'[p].origin = program[p].origin
    /\ UNCHANGED <<file, started>>

Ends(p) == Working(p) /\ Stop(p)

Reads(p) ==
    /\ At(p, "read") /\ file # Broken
    /\ program' = [program EXCEPT ![p].at = "write", ![p].base = file[1]]
    /\ UNCHANGED <<file, started>>

LEMMA MovesAt ==
    ASSUME ProgramsTypeOK, NEW p \in Processes, NEW at \in {"probe", "read", "work"},
           NEW prompt \in DOMAIN ProbePrompts,
           program' = [program EXCEPT ![p].at = at, ![p].prompt = prompt],
           At(p, "probe") \/ (At(p, "work") /\ at = "read"),
           UNCHANGED <<file, started>>
    PROVE  Moves(p)
<1>1. program[p] \in Programs
  BY DEF ProgramsTypeOK
<1>2. program'[p] = [program[p] EXCEPT !.at = at, !.prompt = prompt]
  BY DEF ProgramsTypeOK
<1>3. program'[p] \in Programs
  <2>1. at \in Places
    BY DEF Places
  <2>2. \A x \in Programs : [x EXCEPT !.at = at, !.prompt = prompt] \in Programs
    BY <2>1 DEF Programs
  <2>3. QED
    BY <1>1, <1>2, <2>2
<1>4. program' \in [Processes -> Programs]
  BY <1>3 DEF ProgramsTypeOK
<1>5. QED
  BY <1>1, <1>2, <1>4 DEF Moves, At, ProgramsTypeOK, Programs

LEMMA JudgeMoves ==
    ASSUME ProgramsTypeOK, NEW p \in Processes, At(p, "probe"), NEW r, Judge(p, r)
    PROVE  Moves(p)
<1>1. /\ program[p] \in Programs /\ program[p].prompt \in DOMAIN ProbePrompts
      /\ DOMAIN ProbePrompts = 1..Len(ProbePrompts) /\ 1 \in DOMAIN ProbePrompts
  BY PromptsAssumption DEF ProgramsTypeOK, Programs
<1>2. CASE r = "malformed" /\ program[p].prompt < Len(ProbePrompts)
  <2>1. /\ program' = [program EXCEPT ![p].prompt = program[p].prompt + 1]
        /\ UNCHANGED <<file, started>>
    BY <1>2 DEF Judge
  <2>2. program[p].prompt + 1 \in DOMAIN ProbePrompts
    BY <1>1, <1>2, PromptsAssumption
  <2>3. [program[p] EXCEPT !.prompt = program[p].prompt + 1]
          = [program[p] EXCEPT !.at = "probe", !.prompt = program[p].prompt + 1]
    BY <1>1 DEF At, Programs
  <2>4. program' = [program EXCEPT ![p].at = "probe", ![p].prompt = program[p].prompt + 1]
    BY <2>1, <2>3 DEF ProgramsTypeOK
  <2>5. QED
    BY <2>1, <2>2, <2>4, MovesAt
<1>3. CASE ~(r = "malformed" /\ program[p].prompt < Len(ProbePrompts))
  BY <1>1, <1>3, MovesAt DEF Judge, Probed
<1>4. QED
  BY <1>2, <1>3

\* Every step of a process is of one kind for the file and of one for the cache.
LEMMA KindsOfSteps ==
    ASSUME ResultsTypeOK, NEW p \in Processes,
           \/ ProbeFromCache(p) \/ AskProvider(p) \/ ProviderFails(p)
           \/ ProviderReplies(p) \/ ProbeUncached(p) \/ PutReply(p) \/ CacheRaises(p)
           \/ Work(p) \/ Read(p) \/ ReportOnly(p) \/ Truncate(p) \/ Write(p)
           \/ Crash(p)
    PROVE  /\ \/ UNCHANGED fileVars \/ Moves(p) \/ Ends(p) \/ Reads(p)
              \/ Truncate(p) \/ Write(p)
           /\ CacheStep(p) \/ UNCHANGED cacheVars
<1> USE DEF ResultsTypeOK
<1>1. ProbePrompt(p) \in Prompts
  BY PromptsAssumption DEF ProbePrompt, ProgramsTypeOK, Programs
<1>2. CASE ProbeFromCache(p)
  BY <1>2, JudgeMoves DEF ProbeFromCache, Hit
<1>3. CASE AskProvider(p)
  BY <1>1, <1>3 DEF AskProvider, CacheStep
<1>4. CASE ProviderFails(p)
  <2>1. Moves(p)
    BY <1>4, JudgeMoves DEF ProviderFails, Judge
  <2>2. QED
    BY <1>4, <2>1 DEF ProviderFails, CacheStep
<1>5. CASE ProviderReplies(p)
  BY <1>5 DEF ProviderReplies, CacheStep
<1>6. CASE ProbeUncached(p)
  BY <1>6, JudgeMoves DEF ProbeUncached, CacheStep
<1>7. CASE PutReply(p)
  BY <1>7, JudgeMoves DEF PutReply, CacheStep, CrashOfCall
<1>8. CASE CacheRaises(p)
  BY <1>8 DEF CacheRaises, Undecodable, Ends, Working, At
<1>9. CASE Work(p)
  <2>1. ASSUME Go(p, "read") PROVE Moves(p)
    <3>1. program[p] \in Programs
      BY DEF ProgramsTypeOK
    <3>2. [program[p] EXCEPT !.at = "read"]
            = [program[p] EXCEPT !.at = "read", !.prompt = program[p].prompt]
      BY <3>1 DEF Programs
    <3>3. program' = [program EXCEPT ![p].at = "read", ![p].prompt = program[p].prompt]
      BY <2>1, <3>2 DEF Go, ProgramsTypeOK
    <3>4. program[p].prompt \in DOMAIN ProbePrompts
      BY <3>1 DEF Programs
    <3>5. QED
      BY <1>9, <2>1, <3>3, <3>4, MovesAt DEF Work, Go
  <2>2. QED
    BY <1>9, <2>1 DEF Work, Ends, Working, At
<1>10. CASE Read(p)
  BY <1>10 DEF Read, Reads, Ends, Working, At
<1>11. CASE ReportOnly(p)
  BY <1>11 DEF ReportOnly, Ends, Working, At
<1>12. CASE Truncate(p)
  BY <1>12 DEF Truncate
<1>13. CASE Write(p)
  BY <1>13 DEF Write
<1>14. CASE Crash(p)
  BY <1>14 DEF Crash, Ends, CacheStep
<1>15. QED
  BY <1>2, <1>3, <1>4, <1>5, <1>6, <1>7, <1>8, <1>9, <1>10, <1>11, <1>12, <1>13, <1>14

\* The same of the whole system.
LEMMA KindsOfNext ==
    ASSUME ResultsTypeOK, [ResultsNext]_resultsVars
    PROVE  /\ \/ UNCHANGED fileVars
              \/ \E p \in Processes :
                   \/ \E k \in Kinds : Start(p, k)
                   \/ Moves(p) \/ Ends(p) \/ Reads(p) \/ Truncate(p) \/ Write(p)
           /\ UNCHANGED cacheVars \/ \E p \in Processes : CacheStep(p)
<1>1. CASE UNCHANGED resultsVars
  BY <1>1 DEF resultsVars
<1>2. ASSUME NEW p \in Processes, NEW k \in Kinds, Start(p, k)
      PROVE  UNCHANGED cacheVars
  BY <1>2 DEF Start
<1>3. QED
  BY <1>1, <1>2, KindsOfSteps DEF ResultsNext

-----------------------------------------------------------------------------
(* Type correctness.                                                       *)

LEMMA WritesReport ==
    ASSUME ResultsTypeOK, NEW p \in Processes, Write(p)
    PROVE  \/ file' = Broken
           \/ /\ Merge(program[p].base, program[p].kind, program[p].run) \in Reports
              /\ file' = Holds(Merge(program[p].base, program[p].kind, program[p].run))
<1>1. program[p].base \in Reports /\ program[p].run \in Runs /\ program[p].kind \in Kinds
  BY DEF ResultsTypeOK, ProgramsTypeOK, Programs, Write, At, Working
<1>2. QED
  BY <1>1, Merged DEF Write

LEMMA ProgramsTypeStep ==
    ASSUME ResultsTypeOK, [ResultsNext]_resultsVars
    PROVE  ProgramsTypeOK'
<1>1. ProgramsTypeOK /\ \A p \in Processes : program[p] \in Programs
  BY DEF ResultsTypeOK, ProgramsTypeOK
<1>2. ASSUME NEW p \in Processes, NEW k \in Kinds, Start(p, k) PROVE ProgramsTypeOK'
  <2>1. started + 1 \in Runs /\ started' = started + 1 /\ file' = file
    <3>1. started < MaxRuns /\ started' = started + 1 /\ file' = file
      BY <1>2 DEF Start
    <3>2. started \in 0..MaxRuns /\ MaxRuns \in Nat
      BY <1>1, PromptsAssumption DEF ProgramsTypeOK, Runs
    <3>3. QED
      BY <3>1, <3>2 DEF Runs
  <2>2. ASSUME NEW q \in Processes
        PROVE  program'[q] \in Programs /\ (Working(q)' => program'[q].kind \in Kinds)
    <3>1. CASE q = p
      <4>1. program'[q] =
               [at |-> IF Probes(k) THEN "probe" ELSE IF k = "text" THEN "read" ELSE "work",
                kind |-> k, run |-> started + 1, prompt |-> 1, base |-> NoReport,
                alone |-> \A o \in Processes : ~Working(o),
                origin |-> IF \A o \in Processes : ~Working(o) THEN file ELSE Broken]
        BY <1>2, <3>1 DEF Start
      <4>2. Broken \in Files /\ file \in Files
        BY <1>1 DEF ProgramsTypeOK, Files
      <4>3. QED
        BY <2>1, <4>1, <4>2, NothingYet DEF Programs, Places
    <3>2. CASE q # p
      <4>1. program'[q] = [program[q] EXCEPT !.alone = FALSE, !.origin = Broken]
        BY <1>2, <3>2 DEF Start
      <4>2. \A x \in Programs :
               /\ [x EXCEPT !.alone = FALSE, !.origin = Broken] \in Programs
               /\ [x EXCEPT !.alone = FALSE, !.origin = Broken].at = x.at
               /\ [x EXCEPT !.alone = FALSE, !.origin = Broken].kind = x.kind
        BY DEF Programs, Files
      <4>3. QED
        BY <1>1, <4>1, <4>2 DEF ProgramsTypeOK, Working, At
    <3>3. QED
      BY <3>1, <3>2
  <2>3. DOMAIN program' = Processes /\ program' = [q \in Processes |-> program'[q]]
    BY <1>2 DEF Start
  <2>4. program' \in [Processes -> Programs]
    BY <2>2, <2>3
  <2>5. QED
    BY <1>1, <2>1, <2>2, <2>4 DEF ProgramsTypeOK
<1>3. ASSUME NEW p \in Processes, Moves(p) PROVE ProgramsTypeOK'
  BY <1>1, <1>3 DEF Moves, ProgramsTypeOK, Working, At
<1>4. ASSUME NEW p \in Processes, program' = [program EXCEPT ![p] = NoProgram],
             file' \in Files, started' = started
      PROVE  ProgramsTypeOK'
  BY <1>1, <1>4, NothingYet DEF ProgramsTypeOK, Working, At, NoProgram
<1>5. ASSUME NEW p \in Processes, Reads(p) PROVE ProgramsTypeOK'
  <2>1. file[1] \in Reports
    BY <1>1, <1>5, NothingYet DEF Reads, ProgramsTypeOK, Files
  <2>2. \A x \in Programs :
           /\ [x EXCEPT !.at = "write", !.base = file[1]] \in Programs
           /\ [x EXCEPT !.at = "write", !.base = file[1]].kind = x.kind
    BY <2>1 DEF Programs, Places
  <2>3. program'[p] = [program[p] EXCEPT !.at = "write", !.base = file[1]]
    BY <1>1, <1>5 DEF Reads, ProgramsTypeOK
  <2>4. program' \in [Processes -> Programs]
    BY <1>1, <1>5, <2>2, <2>3 DEF Reads, ProgramsTypeOK
  <2>5. QED
    BY <1>1, <1>5, <2>2, <2>3, <2>4 DEF Reads, ProgramsTypeOK, Working, At
<1>6. ASSUME NEW p \in Processes, Truncate(p) PROVE ProgramsTypeOK'
  <2>1. \A x \in Programs :
           /\ [x EXCEPT !.at = "writing"] \in Programs
           /\ [x EXCEPT !.at = "writing"].kind = x.kind
    BY DEF Programs, Places
  <2>2. program'[p] = [program[p] EXCEPT !.at = "writing"] /\ file' \in Files
    BY <1>1, <1>6 DEF Truncate, ProgramsTypeOK, Files
  <2>3. program' \in [Processes -> Programs]
    BY <1>1, <1>6, <2>1, <2>2 DEF Truncate, ProgramsTypeOK
  <2>4. QED
    BY <1>1, <1>6, <2>1, <2>2, <2>3 DEF Truncate, ProgramsTypeOK, Working, At
<1>7. ASSUME NEW p \in Processes, Write(p) PROVE ProgramsTypeOK'
  <2>1. file' \in Files
    BY <1>7, WritesReport DEF Files
  <2>2. QED
    BY <1>4, <1>7, <2>1 DEF Write
<1>8. ASSUME NEW p \in Processes, Ends(p) PROVE ProgramsTypeOK'
  BY <1>1, <1>4, <1>8 DEF Ends, Stop, ProgramsTypeOK
<1>9. CASE UNCHANGED fileVars
  BY <1>1, <1>9 DEF fileVars, ProgramsTypeOK, Working, At
<1>10. QED
  BY <1>2, <1>3, <1>5, <1>6, <1>7, <1>8, <1>9, KindsOfNext

LEMMA PaidInit == ResultsInit => PaidInv
<1>1. SUFFICES ASSUME ResultsInit PROVE PaidInv
  OBVIOUS
<1>2. ASSUME NEW k \in Prompts PROVE Cardinality(Askers(k)) = 0
  <2>1. Askers(k) = {}
    BY <1>1, KeysAssumption DEF ResultsInit, CacheInit, Askers
  <2>2. QED
    BY <2>1, FS_EmptySet
<1>3. QED
  BY <1>1, <1>2 DEF ResultsInit, CacheInit, PaidInv, CacheTypeOK, OneThing, Entries, Damaged

LEMMA ProgramsInit == ResultsInit => ProgramsTypeOK
<1>1. ResultsInit => program \in [Processes -> Programs] /\ file \in Files /\ started \in Runs
  BY NothingYet, PromptsAssumption DEF ResultsInit, Files, Runs
<1>2. ResultsInit => \A p \in Processes : ~Working(p)
  BY DEF ResultsInit, Working, At, NoProgram
<1>3. QED
  BY <1>1, <1>2 DEF ProgramsTypeOK

\* Every reachable state is well typed, and what is paid is in step with what was
\* replied.
THEOREM AlwaysPaid == ResultsSpec => [](ResultsTypeOK /\ PaidInv)
<1>1. ResultsInit => ResultsTypeOK /\ PaidInv
  BY PaidInit, ProgramsInit DEF ResultsTypeOK, PaidInv
<1>2. ASSUME ResultsTypeOK, PaidInv, [ResultsNext]_resultsVars PROVE ResultsTypeOK' /\ PaidInv'
  <2>1. ASSUME UNCHANGED cacheVars PROVE PaidInv'
    BY <1>2, <2>1 DEF cacheVars, PaidInv, CacheTypeOK, OneThing, Askers, Quiet
  <2>2. PaidInv'
    BY <1>2, <2>1, KindsOfNext, PaidStep
  <2>3. QED
    BY <1>2, <2>2, ProgramsTypeStep DEF PaidInv, ResultsTypeOK
<1>3. QED
  BY <1>1, <1>2, PTL DEF ResultsSpec

\* No prompt is paid for twice, whatever overlaps or is killed, but for a reply
\* that was lost.
THEOREM RepliesArePaidOnce == ResultsSpec => []PaidOnce
<1>1. PaidInv => PaidOnce
  <2>1. SUFFICES ASSUME PaidInv, NEW k \in Prompts PROVE replied[k] <= 1 + lost[k]
    BY DEF PaidOnce
  <2>2. QED
    BY <2>1, AskersAreFinite DEF PaidInv, CacheTypeOK
<1>2. QED
  BY <1>1, AlwaysPaid, PTL

-----------------------------------------------------------------------------
(* The scores of the text are those of the answers.                        *)

\* What a program read before it writes is in order as well.
TextInv ==
    /\ file # Broken => Text(file[1])
    /\ \A p \in Processes : program[p].at \in {"write", "writing"} => Text(program[p].base)

LEMMA TextStep ==
    ASSUME ResultsTypeOK, TextInv, [ResultsNext]_resultsVars
    PROVE  TextInv'
<1>1. \A p \in Processes : program[p] \in Programs
  BY DEF ResultsTypeOK, ProgramsTypeOK
<1> USE DEF TextInv
<1>2. ASSUME NEW p \in Processes, NEW k \in Kinds, Start(p, k) PROVE TextInv'
  <2>1. ASSUME NEW q \in Processes, program'[q].at \in {"write", "writing"}
        PROVE  Text(program'[q].base)
    <3>1. q # p
      BY <1>2, <2>1 DEF Start
    <3>2. program'[q] = [program[q] EXCEPT !.alone = FALSE, !.origin = Broken]
      BY <1>2, <3>1 DEF Start
    <3>3. program'[q].at = program[q].at /\ program'[q].base = program[q].base
      BY <1>1, <3>2 DEF Programs
    <3>4. QED
      BY <2>1, <3>3
  <2>2. QED
    BY <1>2, <2>1 DEF Start, Text
<1>3. ASSUME NEW p \in Processes, Moves(p) PROVE TextInv'
  BY <1>3 DEF Moves, Text
<1>4. ASSUME NEW p \in Processes, program' = [program EXCEPT ![p] = NoProgram],
             file' # Broken => Text(file'[1])
      PROVE  TextInv'
  BY <1>4 DEF ResultsTypeOK, ProgramsTypeOK, NoProgram, Text
<1>5. ASSUME NEW p \in Processes, Reads(p) PROVE TextInv'
  <2>1. /\ file' = file
        /\ \A q \in Processes \ {p} : program'[q] = program[q]
        /\ program'[p].base = file[1] /\ file # Broken
    BY <1>1, <1>5 DEF Reads, ResultsTypeOK, ProgramsTypeOK, Programs
  <2>2. QED
    BY <2>1 DEF Text
<1>6. ASSUME NEW p \in Processes, Truncate(p) PROVE TextInv'
  <2>1. /\ file' = Broken
        /\ \A q \in Processes \ {p} : program'[q] = program[q]
        /\ program'[p].base = program[p].base /\ program[p].at = "write"
    BY <1>1, <1>6 DEF Truncate, At, ResultsTypeOK, ProgramsTypeOK, Programs
  <2>2. QED
    BY <2>1 DEF Text
<1>7. ASSUME NEW p \in Processes, Write(p) PROVE TextInv'
  <2>1. /\ program[p].base \in Reports /\ program[p].run \in Runs /\ program[p].kind \in Kinds
        /\ Text(program[p].base)
    BY <1>7 DEF ResultsTypeOK, ProgramsTypeOK, Programs, Write, At, Working
  <2>2. file' # Broken => Text(file'[1])
    BY <1>7, <2>1, WritesReport, Merged, NothingYet
  <2>3. QED
    BY <1>4, <1>7, <2>2 DEF Write
<1>8. ASSUME NEW p \in Processes, Ends(p) PROVE TextInv'
  BY <1>4, <1>8 DEF Ends, Stop
<1>9. CASE UNCHANGED fileVars
  BY <1>9 DEF fileVars, Text
<1>10. QED
  BY <1>2, <1>3, <1>5, <1>6, <1>7, <1>8, <1>9, KindsOfNext

\* The text metrics on file are always those of the answers on file.
THEOREM TextAlwaysMatches == ResultsSpec => []TextMatchesAnswers
<1>1. ResultsInit => TextInv
  BY NothingYet DEF ResultsInit, TextInv, Text, NoReport, NoProgram
<1>2. TextInv => TextMatchesAnswers
  BY DEF TextInv, TextMatchesAnswers, Text
<1>3. QED
  BY <1>1, <1>2, TextStep, AlwaysPaid, PTL DEF ResultsSpec

-----------------------------------------------------------------------------
(* A lone run keeps the rest.                                              *)

\* A program that nothing ran beside knows what the file holds: what it found,
\* until it opens the file to write, and then nothing; and what it writes back
\* is made from what it found.
LoneAt(p) ==
    LET job == program[p] IN
    /\ \A q \in Processes \ {p} : ~Working(q)
    /\ job.at # "writing" => file = job.origin
    /\ job.at \in {"write", "writing"} => job.origin = Holds(job.base)
    /\ job.at = "writing" => file = Broken

LoneInv == \A p \in Processes : Working(p) /\ program[p].alone => LoneAt(p)

LEMMA LoneStep ==
    ASSUME ResultsTypeOK, LoneInv, [ResultsNext]_resultsVars
    PROVE  LoneInv'
<1>1. \A p \in Processes : program[p] \in Programs
  BY DEF ResultsTypeOK, ProgramsTypeOK
<1>2. ASSUME NEW p \in Processes, NEW k \in Kinds, Start(p, k) PROVE LoneInv'
  <2>1. ASSUME NEW q \in Processes \ {p}
        PROVE  ~program'[q].alone /\ program'[q].at = program[q].at
    <3>1. program'[q] = [program[q] EXCEPT !.alone = FALSE, !.origin = Broken]
      BY <1>2 DEF Start
    <3>2. QED
      BY <1>1, <3>1 DEF Programs
  <2>2. /\ program'[p].alone => \A q \in Processes : ~Working(q)
        /\ (\A q \in Processes : ~Working(q)) => program'[p].origin = file
        /\ program'[p].at \in {"probe", "read", "work"}
        /\ file' = file
    BY <1>2 DEF Start
  <2>3. QED
    BY <2>1, <2>2 DEF LoneInv, LoneAt, Working, At
<1>3. ASSUME NEW p \in Processes, Moves(p) PROVE LoneInv'
  <2>1. \A q \in Processes : Working(q)' => Working(q)
    BY <1>3 DEF Moves, Working, At
  <2>2. QED
    BY <1>3, <2>1 DEF Moves, LoneInv, LoneAt, Working, At
<1>4. ASSUME NEW p \in Processes, Working(p), program' = [program EXCEPT ![p] = NoProgram]
      PROVE  LoneInv'
  <2>1. \A q \in Processes \ {p} : program'[q] = program[q]
    BY <1>4 DEF ResultsTypeOK, ProgramsTypeOK
  <2>2. ~Working(p)'
    BY <1>4 DEF ResultsTypeOK, ProgramsTypeOK, Working, At, NoProgram
  <2>3. \A q \in Processes \ {p} : ~(Working(q) /\ program[q].alone)
    BY <1>4 DEF LoneInv, LoneAt
  <2>4. QED
    BY <2>1, <2>2, <2>3 DEF LoneInv, Working, At
<1>5. ASSUME NEW p \in Processes, Reads(p) PROVE LoneInv'
  <2>1. /\ file' = file /\ file # Broken /\ program[p].at = "read"
        /\ \A q \in Processes \ {p} : program'[q] = program[q]
        /\ program'[p] = [program[p] EXCEPT !.at = "write", !.base = file[1]]
    BY <1>1, <1>5 DEF Reads, At, ResultsTypeOK, ProgramsTypeOK
  <2>2. /\ program'[p].base = file[1] /\ program'[p].at = "write"
        /\ program'[p].alone = program[p].alone /\ program'[p].origin = program[p].origin
    BY <1>1, <2>1 DEF Programs
  <2>3. Holds(file[1]) = file
    BY <2>1, NothingYet DEF ResultsTypeOK, ProgramsTypeOK, Files
  <2>4. ASSUME program[p].alone PROVE LoneAt(p)'
    <3>1. LoneAt(p)
      BY <2>1, <2>4 DEF LoneInv, Working, At
    <3>2. \A q \in Processes \ {p} : ~Working(q)'
      BY <2>1, <3>1 DEF LoneAt, Working, At
    <3>3. file' = program'[p].origin /\ program'[p].origin = Holds(program'[p].base)
      BY <2>1, <2>2, <2>3, <3>1 DEF LoneAt
    <3>4. QED
      BY <2>2, <3>2, <3>3 DEF LoneAt
  <2>5. \A q \in Processes \ {p} : ~(Working(q) /\ program[q].alone)
    BY <2>1 DEF LoneInv, LoneAt, Working, At
  <2>6. QED
    BY <2>1, <2>2, <2>4, <2>5 DEF LoneInv, Working, At
<1>6. ASSUME NEW p \in Processes, Truncate(p) PROVE LoneInv'
  <2>1. /\ file' = Broken /\ program[p].at = "write"
        /\ \A q \in Processes \ {p} : program'[q] = program[q]
        /\ program'[p] = [program[p] EXCEPT !.at = "writing"]
    BY <1>1, <1>6 DEF Truncate, At, ResultsTypeOK, ProgramsTypeOK
  <2>2. /\ program'[p].base = program[p].base /\ program'[p].at = "writing"
        /\ program'[p].alone = program[p].alone /\ program'[p].origin = program[p].origin
    BY <1>1, <2>1 DEF Programs
  <2>3. \A q \in Processes \ {p} : ~(Working(q) /\ program[q].alone)
    BY <2>1 DEF LoneInv, LoneAt, Working, At
  <2>4. ASSUME program[p].alone PROVE LoneAt(p)'
    <3>1. LoneAt(p)
      BY <2>1, <2>4 DEF LoneInv, Working, At
    <3>2. \A q \in Processes \ {p} : ~Working(q)'
      BY <2>1, <3>1 DEF LoneAt, Working, At
    <3>3. program'[p].origin = Holds(program'[p].base)
      BY <2>1, <2>2, <3>1 DEF LoneAt
    <3>4. QED
      BY <2>1, <2>2, <3>2, <3>3 DEF LoneAt
  <2>5. QED
    BY <2>1, <2>2, <2>3, <2>4 DEF LoneInv, Working, At
<1>7. CASE UNCHANGED fileVars
  BY <1>7 DEF fileVars, LoneInv, LoneAt, Working, At
<1>8. QED
  BY <1>2, <1>3, <1>4, <1>5, <1>6, <1>7, KindsOfNext DEF Ends, Stop, Write, Working, At

\* A program that no other ran beside replaces its own sections and keeps the
\* rest, and what ends it before it writes leaves the file as it was.
THEOREM LoneRunsKeepTheRest == ResultsSpec => LoneRunKeepsTheRest
<1>1. ASSUME ResultsTypeOK, LoneInv, [ResultsNext]_resultsVars, NEW p \in Processes,
             Working(p), program[p].alone, program'[p] = NoProgram
      PROVE  \/ file' = program[p].origin
             \/ /\ program[p].at = "writing" /\ program[p].origin # Broken
                /\ file' # Broken => OwnSectionsOnly(program[p].origin[1], file'[1],
                                                     program[p].kind, program[p].run)
  <2>1. /\ program[p] \in Programs /\ LoneAt(p)
        /\ program[p].base \in Reports /\ program[p].run \in Runs /\ program[p].kind \in Kinds
    BY <1>1 DEF ResultsTypeOK, ProgramsTypeOK, Programs, LoneInv
  <2>2. program'[p].at = "idle" /\ program[p].at # "idle"
    BY <1>1 DEF NoProgram, Working, At
  <2>3. ASSUME NEW q \in Processes \ {p}, Moves(q) \/ Ends(q) \/ Reads(q) \/ Truncate(q) \/ Write(q)
        PROVE  FALSE
    BY <2>1, <2>3 DEF LoneAt, Working, At, Moves, Ends, Reads, Truncate, Write
  <2>4. ASSUME NEW q \in Processes, NEW k \in Kinds, Start(q, k)
        PROVE  FALSE
    <3>1. q # p
      BY <1>1, <2>4 DEF Start
    <3>2. program'[p] = [program[p] EXCEPT !.alone = FALSE, !.origin = Broken]
      BY <2>4, <3>1 DEF Start
    <3>3. QED
      BY <2>1, <2>2, <3>2 DEF Programs
  <2>5. Ends(p) \/ Write(p)
    <3>1. ~UNCHANGED fileVars /\ ~Moves(p)
      BY <1>1, <2>2 DEF fileVars, Moves
    <3>2. ~Reads(p) /\ ~Truncate(p)
      BY <1>1, <2>1, <2>2 DEF Reads, Truncate, ResultsTypeOK, ProgramsTypeOK, Programs
    <3>3. QED
      BY <1>1, <2>3, <2>4, <3>1, <3>2, KindsOfNext
  <2>6. CASE Ends(p)
    BY <2>1, <2>6, NothingYet DEF Ends, Stop, LoneAt
  <2>7. CASE Write(p)
    <3>1. program[p].at = "writing"
      BY <2>7 DEF Write, At
    <3>2. program[p].origin # Broken /\ program[p].origin[1] = program[p].base
      BY <2>1, <3>1, NothingYet DEF LoneAt
    <3>3. file' # Broken => OwnSectionsOnly(program[p].base, file'[1], program[p].kind, program[p].run)
      BY <1>1, <2>1, <2>7, WritesReport, Merged, NothingYet
    <3>4. QED
      BY <3>1, <3>2, <3>3
  <2>8. QED
    BY <2>5, <2>6, <2>7
<1>2. ResultsTypeOK /\ LoneInv /\ [ResultsNext]_resultsVars =>
        [\A p \in Processes :
           LET job == program[p] IN
           Working(p) /\ job.alone /\ program'[p] = NoProgram =>
             \/ file' = job.origin
             \/ /\ job.at = "writing" /\ job.origin # Broken
                /\ file' # Broken => OwnSectionsOnly(job.origin[1], file'[1], job.kind, job.run)]_resultsVars
  BY <1>1
<1>3. ResultsInit => LoneInv
  BY DEF ResultsInit, LoneInv, Working, At, NoProgram
<1>4. QED
  BY <1>2, <1>3, LoneStep, AlwaysPaid, PTL DEF ResultsSpec, LoneRunKeepsTheRest
=============================================================================
