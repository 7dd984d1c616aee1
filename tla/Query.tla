-------------------------------- MODULE Query --------------------------------
(***************************************************************************)
(* Answering a question: POST /query of src/src/api.py, the pipeline of    *)
(* src/src/rag_pipeline.py and the query log of src/src/logger.py, over a  *)
(* table other threads ingest into.                                        *)
(*                                                                         *)
(* The request threads of one process search the table, which is the       *)
(* catalog here, refuse or ask the provider chain, log one line and reply. *)
(* Log lines go through loguru's queue to a file, and a killed process     *)
(* loses what is queued.  A document stands for its chunk nearest to the   *)
(* question, and a hit is the document with the source it was found under. *)
(***************************************************************************)
EXTENDS Integers, Sequences, FiniteSets

CONSTANTS
    Threads,
    Docs, Sources, Absent,   \* of the catalog
    Questions,
    Similarity,   \* [Questions -> [Docs -> Nat]]
    Filter,       \* metadata_filter of each question: a source, or None
    Threshold,    \* similarity_threshold
    TopK,
    MaxQueries,   \* bound: queries of a behaviour
    None

ASSUME SearchAssumption ==
    /\ Similarity \in [Questions -> [Docs -> Nat]]
    /\ Filter \in [Questions -> Sources \cup {None}]
    /\ Threshold \in Nat /\ TopK \in Nat \ {0} /\ MaxQueries \in Nat

ASSUME NoneAssumption ==
    None \notin Sources /\ None \notin Questions /\ Absent \notin Sources

VARIABLES
    found,      \* the catalog
    pc,         \* what each thread does next
    question,   \* the question of the query it is in
    number,     \* the number of that query
    context,    \* the hits it retrieved
    citations,  \* the hits its answer cites, verified
    kind,       \* how its query ends
    asked,      \* queries begun
    queue,      \* log records loguru has not written yet
    file,       \* the query log
    lost,       \* history: records a killed process had queued
    replies,    \* history: how each query's client was answered
    seen        \* history: what the thread's search found of each document

vars == <<found, pc, question, number, context, citations, kind, asked, queue,
          file, lost, replies, seen>>

logs == <<queue, file, lost>>

Hits == Docs \X Sources

\* Two versions of a source may be found together.
Catalog == INSTANCE Catalog

Nothing == [d \in Docs |-> {Absent}]

\* What a search with the question's filter may return.
Candidates(catalog, q) ==
    { h \in Hits : catalog[h[1]] = {h[2]} /\ Filter[q] \in {None, h[2]} }

\* The TopK candidates nearest to the question; ties are broken at will.
Nearest(hits, candidates, q) ==
    /\ Cardinality(hits) <= TopK
    /\ hits # candidates => Cardinality(hits) = TopK
    /\ \A h \in hits, g \in candidates \ hits :
          Similarity[q][g[1]] <= Similarity[q][h[1]]

\* The best hit reaches the threshold.
Clears(q, hits) == \E h \in hits : Similarity[q][h[1]] >= Threshold

-----------------------------------------------------------------------------
Goto(t, step) == pc' = [pc EXCEPT ![t] = step]

Forget(t) ==
    /\ Goto(t, "idle")
    /\ question' = [question EXCEPT ![t] = None]
    /\ number' = [number EXCEPT ![t] = 0]
    /\ context' = [context EXCEPT ![t] = {}]
    /\ citations' = [citations EXCEPT ![t] = {}]
    /\ kind' = [kind EXCEPT ![t] = "none"]
    /\ seen' = [seen EXCEPT ![t] = Nothing]

Receive(t, q) ==
    /\ pc[t] = "idle"
    /\ asked < MaxQueries
    /\ asked' = asked + 1
    /\ number' = [number EXCEPT ![t] = asked + 1]
    /\ question' = [question EXCEPT ![t] = q]
    /\ Goto(t, "search")
    /\ UNCHANGED <<found, context, citations, kind, logs, replies, seen>>

\* THE fallback decision.
Decide(t, hits) ==
    /\ context' = [context EXCEPT ![t] = hits]
    /\ Goto(t, IF Clears(question[t], hits) THEN "generate" ELSE "refuse")
    /\ UNCHANGED <<found, question, number, citations, kind, asked, logs, replies>>

\* Fault: the filter is applied to the TopK hits of the whole table.
Search_FilterLast(t) ==
    /\ pc[t] = "search"
    /\ LET all == { h \in Hits : found[h[1]] = {h[2]} } IN
       \E hits \in SUBSET all :
        /\ Nearest(hits, all, question[t])
        /\ Decide(t, hits \cap Candidates(found, question[t]))
    /\ seen' = [seen EXCEPT ![t] = found]

Search(t) ==
    /\ pc[t] = "search"
    /\ LET candidates == Candidates(found, question[t]) IN
       \E hits \in SUBSET candidates :
          Nearest(hits, candidates, question[t]) /\ Decide(t, hits)
    /\ seen' = [seen EXCEPT ![t] = found]

\* A store that cannot be opened is searched as an empty one.
SearchUnopened(t) ==
    /\ pc[t] = "search"
    /\ Decide(t, {})
    /\ seen' = [seen EXCEPT ![t] = Nothing]

Finish(t, how) ==
    /\ queue' = Append(queue, [query |-> number[t], kind |-> how])
    /\ kind' = [kind EXCEPT ![t] = how]
    /\ Goto(t, "reply")
    /\ UNCHANGED <<found, question, number, context, asked, file, lost, replies, seen>>

Refuse(t) ==
    /\ pc[t] = "refuse"
    /\ Finish(t, "refused")
    /\ UNCHANGED citations

\* Fault: a cited chunk is looked up in the table instead of in the context.
Answer_Reread(t, claimed) ==
    /\ pc[t] = "generate"
    /\ citations' = [citations EXCEPT
            ![t] = { h \in Hits : h[1] \in claimed /\ found[h[1]] = {h[2]} }]
    /\ Finish(t, "answered")

\* The model may cite anything; what was not retrieved is counted, not kept.
Answer(t, claimed) ==
    /\ pc[t] = "generate"
    /\ citations' = [citations EXCEPT ![t] = { h \in context[t] : h[1] \in claimed }]
    /\ Finish(t, "answered")

\* An answer that is the fallback sentence cites nothing.
Abstain(t) ==
    /\ pc[t] = "generate"
    /\ Finish(t, "abstained")
    /\ UNCHANGED citations

\* Fault: the error is raised again without a log line.
ChainFails_Unlogged(t) ==
    /\ pc[t] = "generate"
    /\ kind' = [kind EXCEPT ![t] = "failed"]
    /\ Goto(t, "reply")
    /\ UNCHANGED <<found, question, number, context, citations, asked, logs, replies, seen>>

\* LLMError is logged and raised again: a 502.
ChainFails(t) ==
    /\ pc[t] = "generate"
    /\ Finish(t, "failed")
    /\ UNCHANGED citations

Reply(t) ==
    /\ pc[t] = "reply"
    /\ replies' = [replies EXCEPT ![number[t]] = kind[t]]
    /\ Forget(t)
    /\ UNCHANGED <<found, asked, logs>>

\* A rejected filter, a store or embedding error, or an exception of the chain
\* that is no LLMError: an error reply without a log line.
Escape(t) ==
    /\ pc[t] \in {"search", "generate"}
    /\ replies' = [replies EXCEPT ![number[t]] = "escaped"]
    /\ Forget(t)
    /\ UNCHANGED <<found, asked, logs>>

\* loguru's worker writes the next record.
Write ==
    /\ queue # <<>>
    /\ file' = Append(file, Head(queue))
    /\ queue' = Tail(queue)
    /\ UNCHANGED <<found, pc, question, number, context, citations, kind, asked,
                   lost, replies, seen>>

\* The process is killed and started again; the table and the file stay.
Restart ==
    /\ lost' = lost \o queue
    /\ queue' = <<>>
    /\ pc' = [t \in Threads |-> "idle"]
    /\ question' = [t \in Threads |-> None]
    /\ number' = [t \in Threads |-> 0]
    /\ context' = [t \in Threads |-> {}]
    /\ citations' = [t \in Threads |-> {}]
    /\ kind' = [t \in Threads |-> "none"]
    /\ seen' = [t \in Threads |-> Nothing]
    /\ UNCHANGED <<found, asked, file, replies>>

\* Other threads and processes ingest meanwhile.
Ingest ==
    /\ Catalog!Next
    /\ UNCHANGED <<pc, question, number, context, citations, kind, asked, logs,
                   replies, seen>>

-----------------------------------------------------------------------------
Init ==
    /\ Catalog!Init
    /\ pc = [t \in Threads |-> "idle"]
    /\ question = [t \in Threads |-> None]
    /\ number = [t \in Threads |-> 0]
    /\ context = [t \in Threads |-> {}]
    /\ citations = [t \in Threads |-> {}]
    /\ kind = [t \in Threads |-> "none"]
    /\ asked = 0
    /\ queue = <<>>
    /\ file = <<>>
    /\ lost = <<>>
    /\ replies = [n \in 1..MaxQueries |-> "none"]
    /\ seen = [t \in Threads |-> Nothing]

Step(t) ==
    \/ Search(t) \/ SearchUnopened(t)
    \/ Refuse(t) \/ Abstain(t) \/ ChainFails(t)
    \/ \E claimed \in SUBSET Docs : Answer(t, claimed)
    \/ Reply(t)
    \/ Escape(t)

Next ==
    \/ \E t \in Threads : Step(t) \/ \E q \in Questions : Receive(t, q)
    \/ Write
    \/ Restart
    \/ Ingest

Spec == Init /\ [][Next]_vars

-----------------------------------------------------------------------------
(* Properties.                                                             *)

Logged == {"refused", "answered", "abstained", "failed"}

Records == [query : 1..MaxQueries, kind : Logged]

Finds == [Docs -> { {s} : s \in Sources \cup {Absent} }]

\* Every variable has its type, and a thread's variables say nothing while it
\* is in no query.
TypeOK ==
    /\ found \in Finds
    /\ pc \in [Threads -> {"idle", "search", "refuse", "generate", "reply"}]
    /\ question \in [Threads -> Questions \cup {None}]
    /\ number \in [Threads -> 0..MaxQueries]
    /\ context \in [Threads -> SUBSET Hits]
    /\ citations \in [Threads -> SUBSET Hits]
    /\ kind \in [Threads -> Logged \cup {"none"}]
    /\ asked \in 0..MaxQueries
    /\ queue \in Seq(Records) /\ file \in Seq(Records) /\ lost \in Seq(Records)
    /\ replies \in [1..MaxQueries -> Logged \cup {"none", "escaped"}]
    /\ seen \in [Threads -> Finds]
    /\ \A t \in Threads :
        /\ Cardinality(context[t]) <= TopK
        /\ pc[t] # "idle" => question[t] # None /\ number[t] # 0
        /\ pc[t] = "idle" => context[t] = {} /\ citations[t] = {}
        /\ pc[t] = "reply" <=> kind[t] # "none"

\* A question is refused without asking a provider exactly when nothing its
\* search could find, under its filter, reaches the threshold: no candidate
\* that does is crowded out or held against another one's score.
RefusedIffIrrelevant ==
    \A t \in Threads :
        LET relevant == Clears(question[t], Candidates(seen[t], question[t])) IN
        /\ pc[t] = "refuse" => ~relevant
        /\ pc[t] = "generate" => relevant

\* An answer cites only what its own search found, as it found it, however the
\* table changed while the model wrote, and within its question's filter.
CitesWhatItSaw ==
    \A t \in Threads : \A h \in citations[t] :
        /\ seen[t][h[1]] = {h[2]}
        /\ Filter[question[t]] \in {None, h[2]}

Log == file \o queue \o lost

RecordsOf(n) == { i \in DOMAIN Log : Log[i].query = n }

\* The query log is complete and has no duplicates: a query answered, refused,
\* abstained from or failed has exactly one record of that kind, written,
\* queued or lost with its process; one that escaped as another error has none.
LoggedOnce ==
    \A n \in 1..MaxQueries :
        /\ Cardinality(RecordsOf(n)) <= 1
        /\ replies[n] \in Logged =>
              \E i \in RecordsOf(n) : Log[i].kind = replies[n]
        /\ replies[n] = "escaped" => RecordsOf(n) = {}
=============================================================================
