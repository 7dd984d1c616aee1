----------------------------- MODULE ResultsFile -----------------------------
(***************************************************************************)
(* results/eval_results.json and the programs that share it: main and      *)
(* run_probes of src/eval/evaluate_answer.py, main of evaluate_retrieval.py *)
(* and main of src/scripts/add_text_metrics.py.                            *)
(*                                                                         *)
(* Each reads the file, replaces its own sections and writes the whole     *)
(* file back, truncating it first; the answer and text programs work on    *)
(* answers, the text metrics being part of the answer section.  A section  *)
(* is the number of the run that made it, 0 when there is none.  Programs  *)
(* overlap and are killed anywhere.  The questions of a run are EvalRun's  *)
(* and RetrievalEval's; the judge's probes go through the response cache,  *)
(* their prompts being the ones that recur for certain.                    *)
(***************************************************************************)
EXTENDS ResponseCache, Sequences

CONSTANTS
    ProbePrompts,    \* a probe's prompt and its repairs, in order
    MaxRuns          \* bound on the programs started

ASSUME PromptsAssumption ==
    /\ ProbePrompts \in Seq(Prompts)
    /\ MaxRuns \in Nat
    /\ Len(ProbePrompts) >= 1

Kinds == {"answer", "answerUnprobed", "probes", "retrieval", "text"}

Probes(kind) == kind \in {"answer", "probes"}

Runs == 0..MaxRuns

Reports ==
    [answer : Runs, text : Runs, retrieval : Runs, probes : Runs]

NoReport == [answer |-> 0, text |-> 0, retrieval |-> 0, probes |-> 0]

\* What the file parses to; one that is not there reads as an empty report.
Holds(report) == << report >>
Broken == <<>>

\* A process that runs no program.
NoProgram ==
    [at |-> "idle", kind |-> "none", run |-> 0, prompt |-> 1, base |-> NoReport,
     alone |-> FALSE, origin |-> Broken]

VARIABLES
    file,     \* the report it holds, or Broken when it does not parse
    program,  \* what each process runs: where it is in it, the run's number,
              \* the probe's prompt, the report it read and, as history, whether
              \* no other has run beside it and if so the file it found
    started   \* programs started so far

fileVars == <<file, program, started>>

resultsVars == <<cacheVars, fileVars>>

-----------------------------------------------------------------------------
At(p, place) == program[p].at = place

Working(p) == ~At(p, "idle")

\* Fault: a run of the answers starts from an empty report.
Merge_Fresh(old, k, n) ==
    CASE k = "answer"         -> [NoReport EXCEPT !.answer = n, !.probes = n]
      [] k = "answerUnprobed" -> [NoReport EXCEPT !.answer = n]
      [] k = "probes"         -> [old EXCEPT !.probes = n]
      [] k = "retrieval"      -> [old EXCEPT !.retrieval = n]
      [] k = "text"           -> [old EXCEPT !.text = old.answer]

\* Fault: the text metrics outlive the answers they were computed from.
Merge_KeepsText(old, k, n) ==
    CASE k = "answer"         -> [old EXCEPT !.answer = n, !.probes = n]
      [] k = "answerUnprobed" -> [old EXCEPT !.answer = n]
      [] k = "probes"         -> [old EXCEPT !.probes = n]
      [] k = "retrieval"      -> [old EXCEPT !.retrieval = n]
      [] k = "text"           -> [old EXCEPT !.text = old.answer]

\* The run's own sections replaced.  The metrics of the text are part of the
\* answer section and computed from the answers in the report that was read.
Merge(old, k, n) ==
    CASE k = "answer"         -> [old EXCEPT !.answer = n, !.text = 0, !.probes = n]
      [] k = "answerUnprobed" -> [old EXCEPT !.answer = n, !.text = 0]
      [] k = "probes"         -> [old EXCEPT !.probes = n]
      [] k = "retrieval"      -> [old EXCEPT !.retrieval = n]
      [] k = "text"           -> [old EXCEPT !.text = old.answer]

Start(p, k) ==
    /\ ~Working(p)
    /\ started < MaxRuns
    /\ started' = started + 1
    /\ program' = [q \in Processes |->
          IF q = p
          THEN [at |-> IF Probes(k) THEN "probe" ELSE IF k = "text" THEN "read" ELSE "work",
                kind |-> k, run |-> started + 1, prompt |-> 1, base |-> NoReport,
                alone |-> \A o \in Processes : ~Working(o),
                origin |-> IF \A o \in Processes : ~Working(o) THEN file ELSE Broken]
          ELSE [program[q] EXCEPT !.alone = FALSE, !.origin = Broken]]
    /\ UNCHANGED <<file, cacheVars>>

Go(p, place) ==
    /\ program' = [program EXCEPT ![p].at = place]
    /\ UNCHANGED <<file, started>>

\* The program ends without touching the file.
Stop(p) ==
    /\ program' = [program EXCEPT ![p] = NoProgram]
    /\ UNCHANGED <<file, started>>

\* What comes after the probes.
Probed(p) ==
    /\ program' = [program EXCEPT ![p].at = IF program[p].kind = "probes" THEN "read" ELSE "work",
                                  ![p].prompt = 1]
    /\ UNCHANGED <<file, started>>

\* judge_answer on a reply: a verdict, a repair, or giving up.
Judge(p, r) ==
    IF r = "malformed" /\ program[p].prompt < Len(ProbePrompts)
    THEN /\ program' = [program EXCEPT ![p].prompt = @ + 1]
         /\ UNCHANGED <<file, started>>
    ELSE Probed(p)

ProbePrompt(p) == ProbePrompts[program[p].prompt]

ProbeFromCache(p) ==
    /\ At(p, "probe")
    /\ Hit(p, ProbePrompt(p))
    /\ Judge(p, entry[ProbePrompt(p)])

AskProvider(p) ==
    /\ At(p, "probe")
    /\ Miss(p, ProbePrompt(p))
    /\ UNCHANGED fileVars

ProviderFails(p) ==
    /\ At(p, "probe")
    /\ AskFails(p)
    /\ Probed(p)

ProviderReplies(p) ==
    /\ At(p, "probe")
    /\ \E r \in Replies : Receive(p, r)
    /\ UNCHANGED fileVars

ProbeUncached(p) ==
    /\ At(p, "probe")
    /\ ReceiveUncached(p)
    /\ \E r \in Replies : Judge(p, r)

\* The reply is put, as well as it can be, and used either way.
PutReply(p) ==
    /\ At(p, "probe")
    /\ Put(p) \/ CutShort(p)
    /\ Judge(p, putting[p][2])

CacheRaises(p) ==
    /\ At(p, "probe")
    /\ Undecodable(p, ProbePrompt(p))
    /\ Stop(p)

-----------------------------------------------------------------------------
\* The questions: done, or the store is empty, the run raises, or printing the
\* summary does.
Work(p) ==
    /\ At(p, "work")
    /\ Go(p, "read") \/ Stop(p)
    /\ UNCHANGED cacheVars

\* A file that does not parse ends the program, with its work; the text metrics
\* need a file with answers.
Read(p) ==
    /\ At(p, "read")
    /\ IF file = Broken \/ (program[p].kind = "text" /\ file[1].answer = 0)
       THEN Stop(p)
       ELSE /\ program' = [program EXCEPT ![p].at = "write", ![p].base = file[1]]
            /\ UNCHANGED <<file, started>>
    /\ UNCHANGED cacheVars

\* --check, or answers none of which can be scored: nothing is written.
ReportOnly(p) ==
    /\ At(p, "write") /\ program[p].kind = "text"
    /\ Stop(p)
    /\ UNCHANGED cacheVars

\* write_text opens the file, which empties it.
Truncate(p) ==
    /\ At(p, "write")
    /\ file' = Broken
    /\ program' = [program EXCEPT ![p].at = "writing"]
    /\ UNCHANGED <<started, cacheVars>>

\* Over what another writer has left in the file since, the end may show.
Write(p) ==
    /\ At(p, "writing")
    /\ \/ file' = Holds(Merge(program[p].base, program[p].kind, program[p].run))
       \/ /\ file # Broken \/ \E q \in Processes \ {p} : At(q, "writing")
          /\ file' = Broken
    /\ program' = [program EXCEPT ![p] = NoProgram]
    /\ UNCHANGED <<started, cacheVars>>

Crash(p) ==
    /\ Working(p)
    /\ Stop(p)
    /\ CrashOfCall(p)

-----------------------------------------------------------------------------
ResultsInit ==
    /\ CacheInit
    /\ file = Holds(NoReport)
    /\ program = [p \in Processes |-> NoProgram]
    /\ started = 0

ResultsNext ==
    \E p \in Processes :
        \/ \E k \in Kinds : Start(p, k)
        \/ ProbeFromCache(p) \/ AskProvider(p) \/ ProviderFails(p)
        \/ ProviderReplies(p) \/ ProbeUncached(p) \/ PutReply(p) \/ CacheRaises(p)
        \/ Work(p) \/ Read(p) \/ ReportOnly(p) \/ Truncate(p) \/ Write(p)
        \/ Crash(p)

ResultsSpec == ResultsInit /\ [][ResultsNext]_resultsVars

-----------------------------------------------------------------------------
(* Properties.                                                             *)

\* The text metrics in the file are those of the answers in the file, whichever
\* programs overlapped or were killed: a newer run's answers never appear with
\* an older run's scores ("EM and F1 need only the stored answers").
TextMatchesAnswers ==
    file # Broken => file[1].text \in {0, file[1].answer}

\* What a run of a kind may make of a report.
OwnSectionsOnly(old, new, k, n) ==
    /\ IF k \in {"answer", "answerUnprobed"} THEN new.answer = n ELSE new.answer = old.answer
    /\ k \in {"probes", "retrieval"} => new.text = old.text
    /\ IF Probes(k) THEN new.probes = n ELSE new.probes = old.probes
    /\ IF k = "retrieval" THEN new.retrieval = n ELSE new.retrieval = old.retrieval

\* A program no other ran beside replaces its own sections and keeps the rest,
\* and unless it is killed while it writes the file is never left worse than it
\* found it: what fails before leaves the file as it was.
LoneRunKeepsTheRest ==
    [][\A p \in Processes :
         LET job == program[p] IN
         Working(p) /\ job.alone /\ program'[p] = NoProgram =>
           \/ file' = job.origin
           \/ /\ job.at = "writing" /\ job.origin # Broken
              /\ file' # Broken => OwnSectionsOnly(job.origin[1], file'[1], job.kind, job.run)]_resultsVars
=============================================================================
