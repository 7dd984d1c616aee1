# cost-efficient-rag: a verification development

TLA+ modules of the question answering service in `src/src` and of its
evaluation in `src/eval`, the TLC configurations that check them on small
instances, and TLAPS proofs of the properties that matter most.  Paths below
are relative to the repository root as `src/`: the application package is
`src/src`, the evaluation `src/eval`, and so on.

Contents: [the system](#the-system), [the modules](#the-modules),
[runs](#runs), [bounds and fairness](#bounds-and-fairness),
[proofs](#proofs), [divergences found](#divergences-between-code-and-documents),
[limits](#what-is-not-modelled), [plan](#plan).

## The system

A FastAPI service ingests uploaded documents into a vector table and answers
questions from them.  Endpoints are plain `def` functions, so each request runs
on a thread of the server's pool; the container starts one worker process
(`src/Dockerfile`), and the corpus and evaluation scripts run beside it as
processes of their own on the same directory or database.

| Component | Source | State | Operations | Hard behaviour |
|---|---|---|---|---|
| Ingestion | `src/src/ingest_service.py`, `ingestion.py` | none; the table's rows | `ingest_bytes`, `ingest_directory` | read-decide-delete-read-embed-write without a lock or a transaction; failures between two writes; retries; revisions and copies |
| LanceDB store | `src/src/vector_store.py` | `_db`, `_table` per process; versions on disk | open, create, refresh, upsert, delete, search, scan | handle shared by threads without a lock; other processes write; model asserted once per open; swallowed errors |
| pgvector store | `src/src/pgvector_store.py` | `_conn`, `_ready` per process; rows | connect, register, schema, check, the same operations | order of set-up steps; a check that is made once; lost connections |
| Embeddings | `src/src/embeddings.py` | the loaded model | encode, `assert_model_matches` | vectors of two models are numerically comparable and meaningless |
| Provider chain | `src/src/providers.py` | a circuit breaker per provider | available, record success / transient / fatal | shared by threads; locked per method, not per call |
| LLM client | `src/src/llm_client.py` | disk cache, token windows | `complete`, `complete_with_chain`, `_throttle` | retries inside a fallback; classification of failures; pacing |
| Query pipeline | `src/src/rag_pipeline.py` | handle, client and chain | `query`: embed, search, threshold, generate, cite, log | several exits, one log line each |
| Query log | `src/src/logger.py` | queue and file | `log_query`, `read_query_log` | asynchronous writer |
| HTTP API | `src/src/api.py` | none | `/ingest`, `/query`, `/health` | a batch of files in one request; error mapping |
| Answer evaluation | `src/eval/evaluate_answer.py`, `judge.py`, `local_judge.py` | buckets of scores, token totals | `run`, `judge_with_fallback`, `judge_answer` | a chain of judges with a repair loop each; what counts where |
| Retrieval evaluation and metrics | `src/eval/evaluate_retrieval.py`, `metrics.py` | sums over questions | `run`, `main` | truncated rankings; questions left out of a mean |
| Response cache | `src/src/llm_client.py` | one file per prompt, shared by all processes | `get`, `put` | files read or killed while written |
| Results file | the evaluation programs, `src/scripts/add_text_metrics.py` | one JSON file of sections | read, replace, rewrite | no lock, truncated before written; sections of one run beside another's |
| Loaders, normaliser, splitter | `src/src/ingestion.py` | none | `normalize_text`, `split_text` | order of the passes; separators, recursion and overlap at the window's edge |
| Labels | `src/scripts/build_eval_dataset.py` | none | resolve markers to chunks | passages across a cut |
| Calibration | `src/scripts/calibrate_threshold.py` | none | choose the threshold | scores equal to a candidate |
| Text metrics, cost analysis | `src/eval/text_metrics.py`, `cost_analysis.py` | none | formulas | repeated tokens; words of the report against its numbers |
| Configuration, packaging, corpus generators, printers of pools and sweeps | `src/src/config.py`, `src/Dockerfile`, `src/scripts` | none | read once | none |

How they interact.  `/ingest` calls `ingest_bytes` once per file, which calls
five store operations; `/query` calls the pipeline, which searches the store,
asks the chain through the client and writes one log line; the evaluation calls
the same pipeline and then the judges through the same client, without the
chain.  The shared state is the vector table, the response cache and the results
file (between processes), the cached handle or connection (between the threads
of a process), the breakers and the token windows (between threads).

What makes each correct:

* ingestion: a source holds exactly the chunks of its last contents, whatever
  failed or was repeated before; a reader never finds part of a document; an
  answered batch is true of each of its files;
* the stores: vectors of two embedding models never meet; a read sees the
  writes that finished before it; an error is not taken for an empty store;
* the chain: a dead credential is not asked once per query, a live provider is
  not given up on while it only throttles, an error means that every provider
  failed, and every call ends;
* the pacing: no minute exceeds a provider's budget, and nobody waits in vain;
* the query pipeline: a question is refused exactly when nothing relevant was
  found, an answer cites what was retrieved for it, and the log has one line per
  query, which every reported latency and cost comes from;
* the evaluations: no question drops out of a denominator, headline numbers are
  measured by an LLM judge and nothing else, and what was billed is reported;
* the files: no prompt is paid for twice without a reason, and a program that
  adds its section to the results neither loses nor mixes up the others';
* the computations: text survives normalising and splitting, labels resolve
  wherever the cuts fall, the calibrated threshold is the best for the gate that
  uses it, scores follow what they score, and the cost report's sentences are
  true of its numbers.

## The modules

| Module | Models | Variables and what they stand for |
|---|---|---|
| `Catalog` | what the table promises a reader | `found`: under which sources a reader finds a document's chunks |
| `Ingest` | `ingest_bytes` and the operations it calls | `table`: chunk id to source; per thread the call, its next store operation and the ids it read |
| `Batch` | `POST /ingest` and `ingest_directory` over `Ingest` | per thread the batch, the rows of its files so far, the reply |
| `Query` | `query` and `_finish` of the pipeline, `POST /query`, the query log, over `Catalog` | per thread the query, its hits, its citations; `queue`, `file`: the log |
| `LLMChain` | `ProviderChain`, `complete_with_chain`, `complete` | breakers per model; per thread the snapshot of available entries, those left, the attempt and its exception |
| `TokenPacer` | `_throttle` under the attempts of `complete` | `window`: reservations of each model; per thread its request and its sleep |
| `Store` | what the backends have in common | `model`: each process's configuration; `pc`, `op`: the step and the operation of each thread |
| `ModelStore` | what `assert_model_matches` promises of a store | `stored`: the models its vectors came from; `accepted`: those it was opened with |
| `LanceStore` | `LanceDBVectorStore`'s life cycle under all operations | `versions`, `stamp`: the directory; `connected`, `table`: `_db`, `_table`; `pinned`: the version an object reads; `stale`, `unasserted`: history of refreshes and assertions that did not happen |
| `PgStore` | `PgVectorStore`'s life cycle under all operations | `extension`, `rows`: the database; `conn`, `ready`: `_conn`, `_ready`; `accepted`: history of the models that passed the check over an empty table |
| `EvalRun` | `run`, `judge_with_fallback`, `judge_answer`, and the end of `main` | the question and judge at hand; the buckets `remote`, `local`, `imputed`, `errors`, `rows`; tokens |
| `RetrievalEval` | `run` and `main` of the retrieval evaluation, and the metrics | the questions with the store's order for each; `judgeable`, `sweep`: the scores; `section` |
| `ResponseCache` | `DiskCache.get` and `put` under `complete` | `entry`: the files; per process the prompt it asks for and the reply it writes; `replied`, `lost`: history |
| `ResultsFile` | the programs that share `eval_results.json`, over `ResponseCache` | `file`: the report; `program`: where each process is, and the report it read |
| `Splitter` | `normalize_text`, `_split_recursive`, `split_text` | operators |
| `EvalDataset` | the resolution of markers to chunks, over `Splitter` | operators |
| `Calibration` | the sweep and the choice of the threshold | operators |
| `TextMetrics` | exact match and token F1 | operators |
| `LocalJudge` | `judge_answer_locally` | operators |
| `Selection` | a list without some of its elements, as both evaluations use it | operator |
| `CostModel` | the formulas of the cost report | operators |
| `Computations` | those from `Splitter` on applied to every bounded input | `input`, `output` |

`IngestProofs` (of `Batch` too), `QueryProofs`, `LLMChainProofs`, `StoreProofs`
(of both backends), `EvalProofs` (of `EvalRun` and `ResultsFile`), `SumProofs`
(of `TokenPacer`, `RetrievalEval` and what `Computations` asks of figures),
`SplitterProofs` (of what it asks of the splitter) and `NormaliserProofs` (of
normalisation) hold the theorems; each `MC...` module gives a module its
instances.

**Ingest.**  One action per store operation of `ingest_bytes`: `Validate` (the
probe inside the `try`), `ReadKeys` (the stored keys and the branch they
decide), `DeleteBySource`, `ReadIds`, `Upsert` (with the embedding filter before
it), and `Reject` for what the loader refuses.  `Raise` is any of them failing,
which also covers a killed process.  A chunk id is the triple of document, index
and text that the code hashes, so equal bytes under two names give equal ids, as
they do in the code.  `Split` is a constant: every theorem holds for whatever a
deterministic splitter does.  `Unopened` is a read or a delete whose store cannot
be opened: the Lance backend swallows the error and answers as an empty store
would, so the call deletes nothing and embeds everything; `misled` remembers that
a call decided or deleted on such an answer, until it returns.  The source a row
carries is the only part of its contents kept, because it is the only column
the operations select on that the id does not determine.

**Batch** extends `Ingest`: a file is a call of it, and its steps are the steps
of `ingest_bytes`.  `Screen` is a file turned away by extension or size, `Fail`
a store error inside a file, which ends the request, `Escape` an error between
two files or in the count at the end.  A misled call disturbs its batch and
counts as a fault, like one that raises.  `SafeName` is what the route leaves of a
name; the walk of a directory keeps names as they are and skips, without a row,
what has no loader.

**Query.**  A query is `Receive`, `Search`, one of `Refuse`, `Answer`, `Abstain`
and `ChainFails`, and `Reply`; `Escape` is the exception path of the API.  A
document stands for its nearest chunk, a hit for a document under a source. The
provider chain is what its specification promises: an answer or a failure. The
catalog starts as any whole catalog, since the service starts on a table of
earlier runs.  `SearchUnopened` is the empty answer of a store that could not be
opened, `Write` the writer thread of the log, `Restart` a killed process.

**LLMChain.**  The chain's methods are atomic (each takes the chain's lock); a
call holds none between them.  `Begin` takes the snapshot of `available()`,
`AttemptAnswers`, `AttemptFails` and `AttemptMalformed` are the outcomes of one
provider call, `GiveUp` and `Succeed` record a provider's outcome and move on or
return.  Before each attempt, retries included, is `Pace`, the wait in
`_throttle`; how long it takes is `TokenPacer`'s subject.  What `_is_transient`
can see of an exception is modelled, and so is what is left of it when `complete`
wraps it.  The prompt has a fresh nonce per request, so the disk cache never
answers on this path; the back-off delays and `degraded_from`, which decides
nothing, are left out.

**TokenPacer.**  `Reserve` and `Sleep` are the two outcomes of the critical
section of `_throttle`, `Wake` goes back to it, `Send` is the request.  Time is
counted in ticks and a reservation is kept by its age.  The window belongs to a
process, as in the code: two processes share a quota and not a window.

**LanceStore and PgStore** extend `Store`; what is of Postgres only has `Pg` in
front where both have it.  `_open_table` and `_ensure_schema` are taken apart
into one step per access to the attribute the threads share or to the store, and
every operation of the stores goes through them, so the actions are these steps
followed by `Search`, `Upsert` or `Delete`.  `RefreshFails` is the suppressed
failure of `checkout_latest`, which may happen at any call, and `OpenUnasserted`
an opening whose schema cannot be read or has no stamp, after which
`_assert_metadata` returns without comparing anything.  `Restart` ends a process
and starts it with any model.  A Postgres database may be new, empty or written
to with one model when the service starts.  LanceDB, psycopg and Postgres are
external: their calls are atomic and may raise.  `search`, `count`,
`existing_chunk_ids`, `scan` and the column reads differ in what they return, not
in what they do to this state, and are one operation here.

**EvalRun and RetrievalEval.**  Sequential programs whose inputs (what the
pipeline returns, what a judge replies, the labels of a question and the store's
order of its chunks) are chosen freely, so TLC goes through every mix of them.
`Report` is the end of `main`: the printed summary, then the file.  The metrics
are operators on sequences and sets; a fraction is a whole number of parts of
`One`, which all the denominators divide, and the discounts of nDCG are
decreasing weights.

**ResponseCache and ResultsFile.**  Both are files that several processes
rewrite in place, so an action ends where another process can see the file:
opening it, which empties it, and closing it.  `Receive` opens an entry, `Put`
closes it, `CutShort` is a kill or a full disk between the two; an entry that
was cut may parse no more (`get` takes it for a miss) or not even decode (`get`
raises).  In `ResultsFile` a section is the number of the run that made it, so
that sections of different runs can be told apart; the programs' paid work is
one step (`Work`), and the probes of the judge, whose prompts recur exactly and
are answered from the cache, are taken apart.  Two writers of one file may leave
a mixture, which is broken.

**Computations.**  The parts of the system without state are operators over
small alphabets: a text is a sequence of characters where the splitter's
properties tell characters apart (letters, digits, the hyphen, blanks and the
separators), an answer is a sequence of tokens for the text metrics and of
sentences for the local evaluator, a score is a whole number for the
calibration, money is counted in thousandths of a dollar.  The splitter's
recursion is over the separators, as in the code; it is a function of the first
separator that is left, and so are the cuts of `str.split` a function of where
the text goes on.  Each step applies one
computation to one input, and the properties state what comes out without
following how: `WordsAndParagraphsSurvive` reads the document line by line instead
of pass by pass (what each line says is `Written`, and what is between two of
them depends on the lines only), `ChosenTauIsBest` asks the gate of the pipeline and not the
sweep.

Composition.  `Ingest` is related to `Catalog` by the refinement mapping `Found`,
and `Query` reads a `Catalog` that takes the steps `Ingest` may make it take:
what ingestion is shown to implement is all that the query pipeline is allowed
to know of the table.  `Batch` extends `Ingest`, `ResultsFile` extends
`ResponseCache`, `EvalDataset` resolves its markers in what `Splitter` returns,
and `Computations` compares the calibration with the gate of the pipeline.
`LanceStore` and `PgStore` are
related to `ModelStore` by the models of the vectors they hold and the models
they were opened with: for `LanceStore` those of the latest version, and the
stamp with the models nothing compared with it; for `PgStore` those of the rows,
and the ones that passed the check over an empty table.  The contract says of
both when a second model may get in, and lets nothing else do it.

## Runs

| Run | Question | Answer |
|---|---|---|
| `ingest` | Two threads of uploads and walks, any operation may raise or find no store to open: are documents whole, lone calls exact and idempotent, the catalog implemented, answered batches true of each of their files, and do overlapping retries of a revision converge? | holds |
| `ingest_revise` | While every operation finds the store, do overlapping revisions leave one version? | violated |
| `query` | Are refusals right, citations of what was retrieved, and is every query logged once, across restarts and under ingestion? | holds |
| `llm_chain` | Do circuits stay open, are dead providers left alone, are outcomes earned, does every call end? | holds |
| `token_pacer` | Does every minute stay within the budget, retries included, is nobody held back in vain, is every attempt sent? | holds |
| `lance_store` | Two threads that share a handle and another process: does a read see what was written before, is an existing table never taken for a missing one, does a second model get in only where nothing was compared? | holds |
| `pg_store` | From any database, across restarts and lost connections: do vectors of two models meet only where one passed the check over an empty table? | holds |
| `eval_run` | Is every question counted once, the headline measured, the local evaluator the last resort, are the tokens accounted for? | holds |
| `eval_unjudged` | Does an evaluation that no LLM judge scored leave its results? | violated |
| `retrieval_eval` | Is every metric at every cut-off what the store's whole order gives, and is every question counted? | holds |
| `computations` | Does each computation give what it promises on every small input? | holds |
| `eval_files` | Do programs that share the results file and the response cache, overlap and are killed, keep each other's sections apart and pay once? | holds |

Every property of a run that holds is broken by at least one fault of the code,
stated beside the definition it replaces (`..._TextOnly`, `..._Unchecked`, and
so on) and listed under `mutants` in `PROJECT.json`.

## Bounds and fairness

* `ingest`: two threads, batches of two and three files around one revision,
  with files turned away before and after it, one batch above the limit and one
  directory; a document without chunks, two revisions that share a chunk text, a
  copy of one document's bytes, an unsafe name.  The store holds the previous
  revision of the retried document, so that each retry must replace it.  A third
  thread (1.4 million states with fewer batches) shows nothing else, since every
  conflict is of two calls.  `RetriesConverge` asks that no call has raised or been
  misled: a retry that dies after its delete leaves nothing to converge to until
  the next one, and one that takes the store for an empty one leaves the version
  before.  `LoneOkIsExact` speaks of calls that were not misled, and
  `AnswersAreTrue` of what is stored only for a batch none of whose calls was,
  and whose files have names and bytes of their own; files that share them
  replace each other (see the divergences).  That each row is right about its file
  holds without either.
* `ingest_revise`: two threads, the version the store holds and two revisions of
  it, the smallest that overlap.  `OverlapSpec` lets every operation find the
  store, so that what it finds violated is a matter of the overlap alone.
* `query`: two threads, two documents of two sources, one question for both and
  one restricted to the less similar source, `TopK` 1 so that a document can be
  crowded out, `MaxQueries` 2, which bounds a behaviour's queries and with them
  the log.  The catalog and restarts are not bounded.
* `llm_chain`: two threads, three providers of which the middle one has no
  credential, one retry, threshold two.  A circuit is opened by one fatal
  failure or by two transient ones, and there are failures of every combination
  of being transient before and after they are wrapped.
* `token_pacer`: two threads, one model with a ceiling of 4 (a budget of 3) and
  one without; estimates of 1 and 5, so that some requests share a minute and
  some exceed the budget; a minute of 2 ticks; one retry; `MaxCalls` 2.
* `lance_store`: two threads of one process and one of another, two models,
  `MaxVersions` 3 (created, written, written again).  `TwoAtATime` is a bound:
  any two operations overlap, of one process or of two, while the third thread
  rests, and what it did before stays in the handle it shares.  A race of the
  cached handle is between two accesses, so two operations reach it; without the
  bound the run takes hours.  `ThirdCompared` is another: once a model got in
  without being compared, the run goes on to the second version and not to a
  third, which is enough for one process to write what the other one reads.
  `EndsSeen` goes on only from operations that ended as done; how one ended is
  looked at in its last step, and the failure at the same place leaves the same
  state.
* `pg_store`: two processes of one thread, two models, any database to begin
  with; nothing is counted, so there is no bound.
* `eval_*`: two answerable questions around one out of the corpus, three
  judges of which one has no credential, `MAX_REPAIR_ATTEMPTS` as in the code.
* `retrieval_eval`: two questions over four chunks, of which three are fetched
  and any may be missing from the store; any labels; cut-offs 1 to 3.  Cut-offs
  below, at and above the number of labels all occur.  A chunk's name says
  nothing, so chunks are symmetric.
* `computations`: one page of up to three lines or two of up to two, of eight
  kinds, and three pages of up to two lines, a choice of kinds for each (from
  which on lines can recur); texts of up to six words, stops and gaps under six
  pairs of window and overlap, so that windows are smaller than, equal to and
  larger than pieces; up to three answerable questions, two others and scores
  below, at, between and above the candidates; answers of up to four tokens with
  a citation and an article among them; up to three claims and two sentences of
  context at every edge of the score bands; the cost tables at one, fifty (the
  default), 115, 116, 467, 468 and 500 thousand queries: both sides of where each
  of two sentences of the report ceases to be true, and the volume its usage names.
* `eval_files`: two processes, a probe with one repair, `MaxRuns` 3: two programs
  overlap and a third finds what they left.  Five kinds of programs.

The evaluation programs and the computations end, so deadlock is not checked in
their runs; it is in every other run in which the system is meant to go on.

Fairness is assumed in two runs.  In `llm_chain` a thread inside a call keeps
running: each attempt ends by the provider's timeout (`llm_timeout_seconds` is
passed with every request) and no lock is held across one.  Nothing is assumed of
the wait before an attempt while calls keep coming: there is no queue in front of
the window, so a sleeper that is asked again could be overtaken for ever.  Once
no new call begins (`CallsCease`) each wait ends, as `token_pacer` shows, and
`CallsReturn` says of such behaviours that every call ends.  In `token_pacer`
threads keep running and time passes, and `AttemptsAreSent` is a statement about
finitely many calls (`MaxCalls`) for the same reason.  Nothing is assumed of
calls being made at all.

## Proofs

Each theorem holds for every value of the constants that satisfies the named
assumptions of the module, among them any number of threads, processes,
documents, providers, retries, questions and judges.  The type invariants of
`Ingest`, `Query`, `LLMChain`, `TokenPacer`, `LanceStore`, `PgStore`, `EvalRun`
and `ResultsFile` are proved and therefore in no run.

**Ingestion** (`IngestProofs`).  The lemmas are about `Calls`, in which any
request may start at any time; single calls (`Spec`) and batches (`BatchSpec`)
are both such behaviours, so the theorems hold of either.  `TypeCorrect` is
inductive by itself.
`DocumentsStayWhole` assumes one chunking configuration (`Sizes = {size}`; with
two it is false, since a document then has two sets of chunks) and strengthens
`DocumentIsWhole` with `WholeInv`: what a thread read as existing ids is whole as
well, because an upsert adds exactly the rest.  `LoneOkLeavesExact`,
`LoneReingestWritesNothing` and `IngestImplementsCatalog` rest on `LoneInv`, what
is true of a call at each of its steps while no conflicting call has overlapped
it and it has not been misled; a misled call of a source that was exact when it
began is in it too, because what it writes again is what is there.  Its proof
splits into the call's own steps, the others' steps (which commute
with it, `ForeignStep`) and the start of calls.  The refinement maps a delete to
`Drop`, an upsert to `Take`, and every other step to a stutter, `Unopened` among
them: what ingestion does to the catalog stays whole when its reads are wrong.

That batches are calls needs `UnderwayInv`: a thread's call is that of its
batch's upcoming file, and each row so far says of its file what the route and
the loader say of it.  `AnswersAreAlwaysTrue` adds `AloneInv`: beside an
undisturbed batch no other is under way, so none of its calls is overlapped; a
file just reported ok is stored exactly by the lemma of lone calls
(`LoneOkStep`), and stays so under the files that follow, because distinct files
do not conflict (`StoredIsKept`, by `ForeignStep` again).  That a walk's
remaining files are a batch is assumed (`BatchesAssumption`, evaluated by TLC):
what `SelectSeq` returns is out of the provers' reach.

`RetriesAlwaysConverge` holds for any number of threads, any batches and any
whole table to begin with (TLC's run begins with one table).  Its
invariant `RetryInv` says of a retried revision that either no retry has come far
enough, or its source is `Settled`: it holds no other document, and whatever it
lacks of this one, a call under way is about to write (`InDebt`: past its delete,
and what it remembers as stored is not missing), unless a call has raised or been
misled.  The
hard step is a delete or an upsert of one retry under another one's remembered
ids.  `GapIsAll` carries it: since documents are whole, a source lacks either no
row of the revision or all of them, so whoever read its ids in a gap read none.

**Query pipeline** (`QueryProofs`).  `RefusalsAreRight` and
`CitationsAreRetrieved` follow from `GroundedInv`: the hits a thread holds are
among what its own search saw under the filter, its citations are among the
hits, and where it goes from the threshold is right for all that it saw.
The lemma that carries them is `NearestClears`: the nearest hits reach the
threshold exactly when some candidate does, whatever `TopK` is and however ties
are broken, so the decision at the threshold does not depend on the cut-off.
Steps of ingestion leave the invariant alone because it speaks of what was seen,
and not of the table as it is now.

**Provider chain** (`LLMChainProofs`).  `TypeCorrect` holds the bound on
attempts.  `CircuitsStayOpen` is a step lemma over the three record methods.
`DeadProvidersAskedOnce` and `OutcomesAreEarned` use an invariant that relates
the entries left to try to the snapshot and to the entries that failed:
`todo` is what is left of `snapshot` from some position on.

**LanceDB store** (`StoreProofs`).  `TypeCorrect` is proved together with
`ObjectInv` (objects that are held pin a version of the table).
`VectorsAreComparable` and `ImplementsContract` rest on `StampInv`: all versions
hold vectors of accepted models only, and whoever holds an object is of an
accepted model, where the accepted ones are the stamped one and those nothing
compared with it.  As long as every opening compares, that is one model: the
stamp never changes while the table exists, and a process changes its model only
by restarting, which drops the handle, so one assertion per open is enough.
`ReadsSeeFinishedWrites` relates the version pinned after a refresh to the one at
the call's begin, and leaves out a search whose own refresh failed or whose
handle another thread replaced while it opened the table.
`ExistingTablesAreFound` uses `CreateInv`: a thread is about to create the table
only if there was none when its call began.

**Query log** (`QueryProofs`).  `TypeCorrect` types the records a thread
holds by where it is in its query.  `LoggedExactlyOnce` rests on `LogInv`: a
query is in exactly one place, a thread that works on it, the queue, the file,
or the set of those a kill took with it; numbers are given once; and whoever has
been answered has queued a line.  The lemmas `Queued`, `Moved` and `Killed` are the
three ways a line changes its place.

**Postgres store** (`StoreProofs`).  `PgImplementsContract` holds of any database
to begin with and any deletes.  It rests on `CheckedInv`: whatever has passed the
check is of an accepted model, and so are the rows.  The check adds a model to the
accepted ones only when it finds no row; when it finds one, that row's model is
accepted already.

**Evaluation** (`EvalProofs`).  `EveryQuestionIsCounted` is `CountInv`: the
buckets together hold as many answers as there are rows, and the rows are the
questions done so far.  `HeadlineIsAlwaysMeasured` compares the bucket of the LLM
judges with the rows they scored, one appended with the other (`MeasuredRow`,
`OtherRow`).  `TokensAlwaysAddUp` needs `BillInv`, that
what was billed is counted, pending or dropped, with `PendingInv`, which relates
the tokens of the judge at work to its attempts; `LocalComesLast` needs `PassedInv`, that a
judge is passed over only after it had its attempts or for want of a credential.

**Sums** (`SumProofs`).  A window's tokens, a gain and a mean are sums of the
community modules, which are recursive functions on sets.  What the proofs need
of them is an induction over finite sets, and it is stated of sets instead of
predicates, so that no theorem takes an operator: `SubsetInduction` says that a
set which holds the empty set, and any subset of S once it holds all that are
that subset less one element, holds every subset of S.  It rests on the naturals
being well founded (`LeastNatural`).  From it follow what a sum unfolds to
(`SumByAny`), that it is monotone, additive over parts, the same under a
bijection (`SumOfImage`), and how one changed element changes it.

**Token pacing** (`SumProofs`).  `SentStaysWithinBudget` relates two lists that
age apart, the window and the history of what was sent, by what is younger than
an age a, for every a up to a minute: what was sent plus what threads have
reserved and not sent yet (`Pending`, a sum over threads) is what the window
holds (`Accounted`).  It is not enough to state it for a whole minute, since a
tick moves every age to the next; and it needs that both lists are oldest first
(`OldestFirst`), because popping from the front removes what is a minute old
only then (`YoungerLive`).  `NobodySleepsInVain` follows from `HeldBack`: what
stood in a sleeper's way when it went to sleep was no older than the entry it
waits for, so all of it is in the window until the sleeper is due, whatever has
been reserved since.  Both hold for any finite set of threads, any ceilings,
estimates and length of the minute.

**Retrieval evaluation** (`SumProofs`).  The invariant says that the k-th list of
scores holds, at the place of each ranked question, its scores at cut-off k.
`ScoresAlwaysMatchTheStore` then compares the hits, the first `Depth` of the
store's order, with that order (`HitsCount`); `OnlyPerfectRankingsScoreOne` is
`FirstRanksGainMost`: no n ranks below a bound gain as much as the first n,
except those n, because the discounts fall; and `DeeperNeverHurtsAnyone` takes
the monotony of each metric to the means by `SumMonotone`.  `NoneLeftOut` relates
the length of each list to the questions gone through.  The scale is assumed to
be divisible by every denominator and fine enough for the last rank to count
(`FractionAssumption`), so that fractions are exact where they are compared.

**Sequences** (`SumProofs`, folds in `SplitterProofs`).  What a list without some
of its elements is (`Without`, a fold), how it distributes over concatenation,
what a fold is over a prefix (`FoldingExists`, `FoldedType`), and that a
recursive function over positions or separators exists and unfolds.  The library
states neither of folds nor of recursion anything that the provers can use, so
each is an induction of its own, over the naturals as a set (`NaturalInduction`
of `SumProofs`).

**Calibration** (`SumProofs`).  `ThresholdIsBest` says that the first best of
the candidates is best and first (`FirstBest`), that the sweep's two counts are
those of the pipeline's gate, and that the margin is the distance to the nearest
score.  Scores are assumed of both kinds of questions (`ScoresAssumption`),
without which the margin is of nothing, and candidates to be given.

**Local evaluator** (`SumProofs`).  `LocalScoreIsSupport` follows the sum of
the claims' best support: one more sentence of context lowers no summand, one
more claim adds its own, a claim supported no better than the others lowers no
less than the mean, and the order of either list does not change the sum
(`SumOfImage`).  The property speaks of answers with usable context, or without a
claim.  Closeness is assumed between -100 and 100, and 100 with itself.

**Token F1** (`SumProofs`).  `F1IsContent` counts: the occurrences of the
tokens add up to the length, the overlap is at most either, and it is both
exactly when the answers have the same tokens in any order.

**Cost report** (`SumProofs`).  `ReportIsTrue` holds of every volume.  Two of the
report's sentences are true up to a volume and false above it, and the property
says which: usage stays below the floor at the higher unit price exactly up to
`FloorVolume` (115 thousand a month), and the usage-based bill lies within the
embedded store's range exactly up to `WashVolume` (467 thousand), by
`UsageBelowFloor` and `LargestScale`.  Only the serverless columns
depend on the volume; the others are computed.

**Splitting** (`SplitterProofs`).  `ChunksAlwaysFit` and `NothingIsEverLost` hold of
any text, any window longer than its overlap and any separators without word
characters among which are the blank and the line break (`SeparatorsAssumption`,
`WindowsAssumption`, `TextsAssumption`).  The argument has four levels.  What a
text says is its word characters (`Said`); cutting it at a separator or at given
places keeps what it says, and no part has the separator (`SaidOfCuts`).  The
pass that gathers the parts keeps an invariant over the parts taken so far: what
is out and what is in the buffer say what they said, everything out fits the
window, and so does the buffer (`GatheredAre`).  The recursion is an
induction from the last separator to the first (`SplitRecursiveIsRight`): a piece
reaches level k only without the separators before k, so that one that reaches
the hard cut has no white space left and is cut into pieces that are not blank,
which is why none is dropped.  The overlap is a fold in which each chunk keeps
its own piece behind a tail of the chunk before (`KeepsToPiece`, `ChunksAre`).

`MarkersAlwaysResolve` needs where the pieces lie in the text and not only what
they say.  `Lie(text, e, pieces)` says that the pieces are places of the text, in
order, apart, and with no word character left out up to `e`; every level above
carries it too, as long as no word is longer than the window (`SplitAtPlaces`,
`GatheredLie`, the third part of `SplitsWell`).  A passage of words with single
blanks (`Phrase`) that is not within one piece is cut exactly where one of its
blanks is (`GapInPhrase`); what is before the cut ends the chunk before, at any
number of cuts, because each tail keeps an end no longer than the overlap
(`TailKept`), and the blank that joins tail and piece is the one the cut took
(`TailJoins`, `PhraseIsWhole`).  Texts are assumed to have no two blanks side by
side (`TextsAssumption`), which `normalize_text` sees to
(`src/src/ingestion.py`, `_HORIZONTAL_WS`): in a text such as `xxxxx  b` the
passage's own gap would have a character more than the joint, and the theorem
would be false.

**Normalising** (`NormaliserProofs`).  `WordsAlwaysSurvive` holds of any document
of any pages and lines.  It is assumed that a line holds no line end
(`DocumentsAssumption`), which is what `splitlines` leaves.  The property reads a
document line by line, the code rewrites the whole text in passes (drop, join
broken words, unwrap lines, cut at paragraphs, tidy), so the proof shows first
that each pass works piece by piece.  For a text that ends in no white space
(`Settled`), a gap of white space behind it and a line behind that, the breaks
are those of the text and at most the one in the gap (`BreaksOfLine`,
`JoinedLine`), what cutting gives for the longer text is what it gives for the
shorter one with its last part longer or with a part more (last sections of
`SplitterProofs`), and single line breaks become blanks where they are.  A line's
own blanks do not reach the other side of it (`StripParts`, `LineIsTold`).

The document is then followed a line at a time and a page at a time.  The
invariant (`ReachedBy`) is that the text so far is a settled one and a gap, that
the settled text, normalised, is what the reading of the lines so far tells
(`Told`, one text, of which `ToldByLinks` concludes what the property says of the
links between words), and that it ends in a broken word exactly when the last line does.
`GapTells` says what the gap has to remember: it holds an empty line exactly when
a page has ended or an empty line has come since the last line of words.  Dropped
lines leave both alone, which is what makes a word whole that a header separates;
a blank line makes the gap longer and not a paragraph.  `NoiseIsSorted` relates
the lines the code drops to those the property calls noise.

**Cache and results file** (`EvalProofs`).  `RepliesArePaidOnce` is
`PaidInv`: the replies to a prompt and those who ask for it are at most one more
than what was lost, and when nobody is on the way to an entry that is not there,
the replies alone are no more than that; the first half is what each miss
consumes and each loss refills.  `TextAlwaysMatches` needs that the report a
program read and is about to write is in order as well (`TextInv`), since a stale
one may come back after any number of other writes.  `LoneRunsKeepTheRest` needs
`LoneInv`: a program that is alone knows what the file holds at each of its
steps.

Every safety property of a run that holds is proved.  What is left to TLC is
liveness (`CallsReturn`, `AttemptsAreSent`), which needs ENABLED.

## Divergences between code and documents

Two are runs that TLC finds violated; `PROJECT.json` quotes the lines.

* Overlapping revisions of one source leave both versions (`ingest_revise`): the
  first deletes the version before, the second reads before the first writes and
  finds nothing to delete, and both write
  (`src/src/ingest_service.py:76`; `src/src/vector_store.py:292` says that the
  delete prevents orphans).
* An evaluation whose answers were all scored by the local evaluator, imputed or
  failed ends in a `TypeError` of its own summary (`src/eval/evaluate_answer.py:391`)
  and writes nothing, although `summarise` returns nulls so that such a run can
  be written (`eval_unjudged`).  `RetrievalEval` has the same step: a data set
  without a ranked question.

The others were met while modelling and have no run.

*Documents and stores*

* A file with the bytes of another takes over its rows: the chunk id hashes the
  bytes and not the name (`src/src/ingestion.py:56`).
* Chunks may exceed the window by the overlap and the blank that joins it.  The
  comment at `src/src/ingestion.py:263` prepends the tail "if doing so does not blow
  past the window by more than the overlap itself", the code always; they differ
  where a piece fills the window by itself, and `ChunksFit` leaves that case open
  and holds the code to the comment everywhere else.
* Step 4 of `normalize_text` is said to preserve "blank-line paragraph breaks"
  (`src/src/ingestion.py:168`).  A line of blanks merges the paragraphs around it,
  and a hyphen joins the halves of a word across an empty line or the end of a
  page.  `WordsAndParagraphsSurvive` takes either outcome there.
* The overlap keeps a passage whole only if it is no longer than the overlap
  leaves room for, and a separator at a cut is in no chunk, so a marker across
  one resolves to nothing; `MarkersResolve` states the length.
* Two files of one batch whose names sanitise to one, or of one directory tree
  with one base name, replace each other, and both rows say ok
  (`src/src/api.py:245`, `src/src/ingest_service.py:125`).
* Re-ingesting under another chunk size reports chunks as cached and stores
  none: only document keys are compared (`src/src/ingest_service.py:61`).
* The process-wide pipeline and client are created without a lock
  (`src/src/llm_client.py:380`): two first requests may each make one, and then
  token windows and breakers are counted apart.  `ingest_corpus.py --reset`
  removes a directory that a service may hold a handle on.

*Providers, cache and files*

* A transient failure that only its status code or type tells opens a circuit at
  once, because the wrapping exception is classified
  (`src/src/llm_client.py:255`).
* `degraded_from` is relative to the snapshot, so it says nothing once the first
  provider's circuit is open (`src/src/llm_client.py:261`, against the comment
  in line 66).  No property speaks of it.
* Nobody is queued in front of a token window, so a call can be overtaken for as
  long as others keep coming (`src/src/llm_client.py:180`).
* A store that cannot be opened counts as one without documents
  (`src/src/vector_store.py:303`, `326`, `344`; "nothing ingested yet"): a search
  finds nothing, and a re-ingest of a changed file whose key read or delete meets
  it reports ok with the version before still stored.  `RestMeansOneVersion` fails
  of `UnopenedSpec` for that reason alone, without any overlap.
* The check of the embedding model is skipped without a word when the schema cannot
  be read or has no stamp (`src/src/vector_store.py:242`, `250`), although it is to
  "fail at open, with a named error"; `ComparableOnly` and `KeepsContract` say that
  vectors of two models meet then, and only then.
* Whatever `checkout_latest` raises is suppressed (`src/src/vector_store.py:191`),
  a failure that would pass included, and the search reads what the handle had
  pinned; `ReadsAreFresh` leaves such a search out.
* Two first upserts: the table may exist by the time the second creates it, and
  that one raises (`src/src/vector_store.py:204`).
* An empty Postgres table passes the model check, and the process does not check
  again (`src/src/pgvector_store.py:128`): two processes of different models that
  start on a new database write vectors that never should meet.  `PgKeepsContract`
  says that they meet only so.
* On a database without the vector type the first call leaves a connection that
  can bind no vector, because the adapter is registered before the extension is
  created (`src/src/pgvector_store.py:82`).
* A cache entry cut inside a character raises `UnicodeDecodeError` out of `get`,
  although "a corrupt cache entry is a miss, never a failure"
  (`src/src/llm_client.py:109`); `Undecodable` models it.
* A reply that does not parse as a verdict is cached and replayed by every later
  run with the same prompt.
* Programs that overlap on the results file lose each other's sections
  (`src/eval/evaluate_retrieval.py:216`); a file that does not parse ends a run
  after its paid work and not before.  A kill during the write leaves part of a
  file (`LoneRunKeepsTheRest` allows that).
* Log records that are queued when the process is killed are lost
  (`LoggedOnce` counts them as lost with it).

*Evaluation*

* Tokens of judges that were given up on are not in the reported total, whose
  note claims every failed attempt (`src/eval/evaluate_answer.py:281`, `363`);
  `TokensAddUp` holds the total to the note exactly where no judge was given up on,
  and otherwise bounds it.
* Rows scored by an LLM judge do not name it (`src/eval/judge.py:148`).
* Exceptions other than `LLMError` end the evaluation (`src/eval/judge.py:252`).
* `--top-k` above the fixed retrieval depth of 20 is scored as if that many had
  been fetched (`src/eval/evaluate_retrieval.py:72`); `RetrievalEval` assumes
  that cut-offs are within the depth.
* `--probes-only` overwrites `meta.judge_model`, which the stored answers were
  not judged by; a failed control of the length probe is noted as a length bias.
* The local evaluator's mean hides one unsupported sentence among supported ones
  (three at 1.0 and one at 0.2 score 5), although its docstring reads a score as
  "nothing here is obviously ungrounded" (`src/eval/local_judge.py:30`).
* An answer without usable context scores 1, although the comment says that
  faithfulness 1 "would blame the generator for a retrieval failure"
  (`src/eval/local_judge.py:128`); `LocalScoreFollowsSupport` leaves the case out.
* When no threshold keeps the budget of false refusals, the calibration takes
  the smallest of those that refuse least, whatever it answers wrongly.
* The cost report prints two sentences at every volume that are true of low ones
  only (`src/eval/cost_analysis.py:360`, `420`): that usage stays under the floor
  even at the higher unit price is false above 115 thousand queries a month, and
  that usage-based pricing is "roughly a wash" above 467 thousand.  The usage in
  line 8 names 500 thousand.  The sensitivity table ignores the flag, and at a
  million vectors the embedded advantage falls at a hundredfold volume;
  `ReportIsBackedByItsNumbers` says up to which volume each sentence holds.

## What is not modelled

* Numerics: embeddings, the similarity and the index behind a search, latency
  percentiles, bootstrap intervals and standard deviations.
* Text: prompts and the parsing of verdicts, the loaders of PDF, HTML and
  Markdown, the patterns that cut text into sentences and tokens, wording.
* What each adversarial probe expects of a judge: a comparison of two given
  scores each.
* Configuration, packaging, the generators of the corpus, the printers of label
  pools and chunking sweeps: no state that changes, and no arithmetic of their
  own.
* `reset` and `close` of the stores, which only tests call; a closed store is a
  restarted process here.
* `ingest_corpus.py --reset` beside a running service: what a cached table
  object sees of a removed directory is decided inside LanceDB.
* Two pipelines of one process: both would work as two processes do on the store.
* How the cache's key hashes its parts; equal prompts are equal keys here.

## Plan

Every component with state of its own is modelled, and every safety property of a
run that holds is proved.  What could follow is `Ingest` over `LanceStore` step by
step: `Unopened` is what ingestion sees of a store that does not open, and the
handle that goes stale under it is in `LanceStore` only.
