----------------------------- MODULE QueryProofs -----------------------------
(***************************************************************************)
(* Proofs about Query, for all threads, documents, questions and scores:   *)
(* what a thread answers is grounded in what it saw, and the query log is  *)
(* complete and has no duplicates, though between the pipeline and the     *)
(* file there is a queue that a killed process loses.                      *)
(***************************************************************************)
EXTENDS Query, FiniteSetTheorems, TLAPS

-----------------------------------------------------------------------------
(* The context.                                                            *)

\* If a candidate reaches the threshold, one of the nearest does: an empty
\* context means that there is no candidate, and the others are no nearer.
LEMMA NearestClears ==
    ASSUME NEW q \in Questions, NEW candidates \in SUBSET Hits,
           NEW hits \in SUBSET candidates, Nearest(hits, candidates, q)
    PROVE  Clears(q, hits) <=> Clears(q, candidates)
<1>1. SUFFICES ASSUME NEW g \in candidates, Similarity[q][g[1]] >= Threshold
               PROVE  \E h \in hits : Similarity[q][h[1]] >= Threshold
  BY DEF Clears
<1>2. \A h \in candidates : Similarity[q][h[1]] \in Nat
  BY SearchAssumption DEF Hits
<1>3. hits # {}
  <2>1. Cardinality({}) = 0
    BY FS_EmptySet
  <2>2. hits = {} => hits # candidates
    BY <1>1
  <2>3. QED
    BY <2>1, <2>2, SearchAssumption DEF Nearest
<1>4. CASE g \in hits
  BY <1>1, <1>4
<1>5. CASE g \notin hits
  <2>1. PICK h \in hits : TRUE
    BY <1>3
  <2>2. Similarity[q][g[1]] <= Similarity[q][h[1]]
    BY <1>5, <2>1 DEF Nearest
  <2>3. Similarity[q][h[1]] >= Threshold
    BY <1>1, <1>2, <2>1, <2>2, SearchAssumption
  <2>4. QED
    BY <2>1, <2>3
<1>6. QED
  BY <1>4, <1>5

\* The types the properties below rest on.
Typed ==
    /\ pc \in [Threads -> {"idle", "search", "refuse", "generate", "reply"}]
    /\ question \in [Threads -> Questions \cup {None}]
    /\ context \in [Threads -> SUBSET Hits]
    /\ citations \in [Threads -> SUBSET Hits]
    /\ DOMAIN seen = Threads
    /\ \A t \in Threads : pc[t] # "idle" => question[t] # None

\* What a thread works on comes from its own search, and the fallback decision
\* was taken on all of it.
Grounded(t) ==
    /\ citations[t] \subseteq context[t]
    /\ pc[t] \in {"idle", "search"} => context[t] = {}
    /\ pc[t] # "idle" => context[t] \subseteq Candidates(seen[t], question[t])
    /\ pc[t] = "refuse" => ~Clears(question[t], Candidates(seen[t], question[t]))
    /\ pc[t] = "generate" => Clears(question[t], Candidates(seen[t], question[t]))

GroundedInv == Typed /\ \A t \in Threads : Grounded(t)

\* A step of one thread leaves the others grounded.
LEMMA OthersStayGrounded ==
    ASSUME GroundedInv, NEW t \in Threads, Typed', Grounded(t)',
           \A u \in Threads \ {t} :
              /\ pc'[u] = pc[u] /\ question'[u] = question[u]
              /\ context'[u] = context[u] /\ citations'[u] = citations[u]
              /\ seen'[u] = seen[u]
    PROVE  GroundedInv'
<1>1. ASSUME NEW u \in Threads \ {t} PROVE Grounded(u)'
  BY DEF GroundedInv, Grounded, Candidates, Clears
<1>2. QED
  BY <1>1 DEF GroundedInv

\* A thread that forgets its query is grounded.
LEMMA ForgetGrounded ==
    ASSUME GroundedInv, NEW t \in Threads, Forget(t)
    PROVE  GroundedInv'
<1>1. Typed'
  BY DEF GroundedInv, Typed, Forget, Goto
<1>2. Grounded(t)'
  BY DEF GroundedInv, Typed, Grounded, Forget, Goto
<1>3. \A u \in Threads \ {t} :
        /\ pc'[u] = pc[u] /\ question'[u] = question[u]
        /\ context'[u] = context[u] /\ citations'[u] = citations[u]
        /\ seen'[u] = seen[u]
  BY DEF GroundedInv, Typed, Forget, Goto
<1>4. QED
  BY <1>1, <1>2, <1>3, OthersStayGrounded

\* The fallback decision on the nearest candidates grounds a thread.
LEMMA DecideGrounded ==
    ASSUME GroundedInv, NEW t \in Threads, pc[t] = "search", NEW catalog,
           seen' = [seen EXCEPT ![t] = catalog],
           NEW hits \in SUBSET Candidates(catalog, question[t]), Decide(t, hits),
           Clears(question[t], hits)
              <=> Clears(question[t], Candidates(catalog, question[t]))
    PROVE  GroundedInv'
<1>1. Candidates(catalog, question[t]) \subseteq Hits /\ question[t] \in Questions
  BY DEF Candidates, GroundedInv, Typed
<1>2. Typed'
  BY <1>1 DEF GroundedInv, Typed, Decide, Goto
<1>3. /\ seen'[t] = catalog /\ question'[t] = question[t]
      /\ context'[t] = hits /\ citations'[t] = citations[t]
      /\ pc'[t] = IF Clears(question[t], hits) THEN "generate" ELSE "refuse"
  BY DEF GroundedInv, Typed, Decide, Goto
<1>4. citations[t] = {}
  BY DEF GroundedInv, Grounded
<1>5. Grounded(t)'
  BY <1>3, <1>4 DEF Grounded, Candidates, Clears
<1>6. \A u \in Threads \ {t} :
        /\ pc'[u] = pc[u] /\ question'[u] = question[u]
        /\ context'[u] = context[u] /\ citations'[u] = citations[u]
        /\ seen'[u] = seen[u]
  BY DEF GroundedInv, Typed, Decide, Goto
<1>7. QED
  BY <1>2, <1>5, <1>6, OthersStayGrounded

\* Finishing a query keeps its thread grounded, with citations of its context.
LEMMA FinishGrounded ==
    ASSUME GroundedInv, NEW t \in Threads, pc[t] # "idle", NEW how, Finish(t, how),
           NEW cited \in SUBSET context[t],
           citations' = [citations EXCEPT ![t] = cited]
    PROVE  GroundedInv'
<1>1. Typed'
  BY DEF GroundedInv, Typed, Finish, Goto
<1>2. /\ citations'[t] = cited /\ pc'[t] = "reply"
      /\ UNCHANGED <<context, seen, question>>
  BY DEF GroundedInv, Typed, Finish, Goto
<1>3. Grounded(t)'
  BY <1>2 DEF GroundedInv, Grounded, Candidates
<1>4. \A u \in Threads \ {t} :
        /\ pc'[u] = pc[u] /\ question'[u] = question[u]
        /\ context'[u] = context[u] /\ citations'[u] = citations[u]
        /\ seen'[u] = seen[u]
  BY DEF GroundedInv, Typed, Finish, Goto
<1>5. QED
  BY <1>1, <1>3, <1>4, OthersStayGrounded

\* No step breaks the invariant.
LEMMA GroundedStep ==
    ASSUME GroundedInv, [Next]_vars
    PROVE  GroundedInv'
<1>1. CASE UNCHANGED vars
  BY <1>1 DEF vars, GroundedInv, Typed, Grounded, Candidates, Clears
<1>2. ASSUME NEW t \in Threads, NEW q \in Questions, Receive(t, q)
      PROVE  GroundedInv'
  <2>1. Typed'
    BY <1>2, NoneAssumption DEF GroundedInv, Typed, Receive, Goto
  <2>2. Grounded(t)'
    BY <1>2 DEF GroundedInv, Typed, Grounded, Receive, Goto
  <2>3. \A u \in Threads \ {t} :
          /\ pc'[u] = pc[u] /\ question'[u] = question[u]
          /\ context'[u] = context[u] /\ citations'[u] = citations[u]
          /\ seen'[u] = seen[u]
    BY <1>2 DEF GroundedInv, Typed, Receive, Goto
  <2>4. QED
    BY <2>1, <2>2, <2>3, OthersStayGrounded
<1>3. ASSUME NEW t \in Threads, Search(t) PROVE GroundedInv'
  <2>1. PICK hits \in SUBSET Candidates(found, question[t]) :
            Nearest(hits, Candidates(found, question[t]), question[t]) /\ Decide(t, hits)
    BY <1>3 DEF Search
  <2>2. question[t] \in Questions /\ Candidates(found, question[t]) \subseteq Hits
    BY <1>3 DEF Search, GroundedInv, Typed, Candidates
  <2>3. Clears(question[t], hits) <=> Clears(question[t], Candidates(found, question[t]))
    BY <2>1, <2>2, NearestClears
  <2>4. QED
    BY <1>3, <2>1, <2>3, DecideGrounded DEF Search
<1>4. ASSUME NEW t \in Threads, SearchUnopened(t) PROVE GroundedInv'
  <2>1. Candidates(Nothing, question[t]) = {}
    BY NoneAssumption DEF Candidates, Nothing, Hits
  <2>2. QED
    BY <1>4, <2>1, DecideGrounded DEF SearchUnopened
<1>5. ASSUME NEW t \in Threads, Refuse(t) \/ Abstain(t) \/ ChainFails(t)
      PROVE  GroundedInv'
  <2>1. citations' = [citations EXCEPT ![t] = citations[t]]
    BY <1>5 DEF Refuse, Abstain, ChainFails, GroundedInv, Typed
  <2>2. citations[t] \subseteq context[t] /\ pc[t] # "idle"
    BY <1>5 DEF GroundedInv, Grounded, Refuse, Abstain, ChainFails
  <2>3. \E how : Finish(t, how)
    BY <1>5 DEF Refuse, Abstain, ChainFails
  <2>4. QED
    BY <2>1, <2>2, <2>3, FinishGrounded
<1>6. ASSUME NEW t \in Threads, NEW claimed \in SUBSET Docs, Answer(t, claimed)
      PROVE  GroundedInv'
  <2>1. { h \in context[t] : h[1] \in claimed } \subseteq context[t]
    OBVIOUS
  <2>2. QED
    BY <1>6, <2>1, FinishGrounded DEF Answer
<1>7. ASSUME NEW t \in Threads, Reply(t) \/ Escape(t) PROVE GroundedInv'
  BY <1>7, ForgetGrounded DEF Reply, Escape
<1>8. CASE Write \/ Ingest
  <2>1. UNCHANGED <<pc, question, context, citations, seen>>
    BY <1>8 DEF Write, Ingest
  <2>2. QED
    BY <2>1 DEF GroundedInv, Typed, Grounded, Candidates, Clears
<1>9. CASE Restart
  BY <1>9 DEF Restart, GroundedInv, Typed, Grounded
<1>10. QED
  BY <1>1, <1>2, <1>3, <1>4, <1>5, <1>6, <1>7, <1>8, <1>9 DEF Next, Step

\* In every reachable state every thread is grounded.
LEMMA AlwaysGrounded == Spec => []GroundedInv
<1>1. Init => GroundedInv
  BY DEF Init, GroundedInv, Typed, Grounded
<1>2. GroundedInv /\ [Next]_vars => GroundedInv'
  BY GroundedStep
<1>3. QED
  BY <1>1, <1>2, PTL DEF Spec

\* A query is refused without asking a provider exactly when nothing its search
\* could find reaches the threshold.
THEOREM RefusalsAreRight == Spec => []RefusedIffIrrelevant
<1>1. GroundedInv => RefusedIffIrrelevant
  BY DEF GroundedInv, Grounded, RefusedIffIrrelevant
<1>2. QED
  BY <1>1, AlwaysGrounded, PTL

\* An answer's citations are what its search found, under their sources and
\* within the filter, whatever was ingested since.
THEOREM CitationsAreRetrieved == Spec => []CitesWhatItSaw
<1>1. ASSUME GroundedInv PROVE CitesWhatItSaw
  <2>1. SUFFICES ASSUME NEW t \in Threads, NEW h \in citations[t]
                 PROVE  /\ seen[t][h[1]] = {h[2]}
                        /\ Filter[question[t]] \in {None, h[2]}
    BY DEF CitesWhatItSaw
  <2>2. h \in context[t] /\ pc[t] # "idle"
    BY <1>1, <2>1 DEF GroundedInv, Grounded
  <2>3. h \in Candidates(seen[t], question[t])
    BY <1>1, <2>2 DEF GroundedInv, Grounded
  <2>4. QED
    BY <2>3 DEF Candidates
<1>2. QED
  BY <1>1, AlwaysGrounded, PTL

-----------------------------------------------------------------------------
(* Types.                                                                  *)

LEMMA NothingIsAFind == Nothing \in Finds
BY DEF Nothing, Finds

LEMMA CatalogType ==
    ASSUME found \in Finds, Catalog!Next
    PROVE  found' \in Finds
<1>1. CASE \E s \in Sources : Catalog!Drop(s)
  BY <1>1 DEF Finds, Catalog!Drop
<1>2. ASSUME NEW s \in Sources, NEW d \in Docs, Catalog!Take(d, s)
      PROVE  found' \in Finds
  BY <1>2 DEF Finds, Catalog!Take
<1>3. QED
  BY <1>1, <1>2 DEF Catalog!Next

LEMMA TypeInit == Init => TypeOK
<1>1. SUFFICES ASSUME Init PROVE TypeOK
  OBVIOUS
<1>2. found \in Finds /\ Nothing \in Finds
  BY <1>1, NothingIsAFind DEF Init, Catalog!Init, Finds
<1>3. \A t \in Threads : Cardinality(context[t]) <= TopK
  BY <1>1, FS_EmptySet, SearchAssumption DEF Init
<1>4. queue \in Seq(Records) /\ file \in Seq(Records) /\ lost \in Seq(Records)
  BY <1>1 DEF Init
<1>5. QED
  BY <1>1, <1>2, <1>3, <1>4, SearchAssumption DEF Init, TypeOK, Logged

\* A thread that leaves its query forgets it.
LEMMA ForgetType ==
    ASSUME TypeOK, NEW t \in Threads, pc[t] # "idle", Forget(t), UNCHANGED <<found, asked, logs>>,
           NEW r \in Logged \cup {"escaped"}, replies' = [replies EXCEPT ![number[t]] = r]
    PROVE  TypeOK'
<1>1. Nothing \in Finds
  BY NothingIsAFind
<1>2. replies' \in [1..MaxQueries -> Logged \cup {"none", "escaped"}]
  BY DEF TypeOK
<1>3. \A u \in Threads : Cardinality(context'[u]) <= TopK
  BY FS_EmptySet, SearchAssumption DEF TypeOK, Forget
<1>4. /\ pc' \in [Threads -> {"idle", "search", "refuse", "generate", "reply"}]
      /\ question' \in [Threads -> Questions \cup {None}]
      /\ number' \in [Threads -> 0..MaxQueries]
      /\ context' \in [Threads -> SUBSET Hits]
      /\ citations' \in [Threads -> SUBSET Hits]
      /\ kind' \in [Threads -> Logged \cup {"none"}]
      /\ seen' \in [Threads -> Finds]
  BY <1>1, SearchAssumption DEF TypeOK, Forget, Goto
<1>5. \A u \in Threads :
        /\ pc'[u] # "idle" => question'[u] # None /\ number'[u] # 0
        /\ pc'[u] = "idle" => context'[u] = {} /\ citations'[u] = {}
        /\ pc'[u] = "reply" <=> kind'[u] # "none"
  BY DEF TypeOK, Forget, Goto
<1>6. QED
  BY <1>2, <1>3, <1>4, <1>5 DEF TypeOK, logs

LEMMA DecideType ==
    ASSUME TypeOK, NEW t \in Threads, pc[t] = "search", NEW hits \in SUBSET Hits,
           Cardinality(hits) <= TopK, Decide(t, hits),
           NEW catalog \in Finds, seen' = [seen EXCEPT ![t] = catalog]
    PROVE  TypeOK'
<1>1. context' \in [Threads -> SUBSET Hits]
  BY DEF TypeOK, Decide
<1>2. \A u \in Threads : Cardinality(context'[u]) <= TopK
  BY DEF TypeOK, Decide
<1>3. pc' = [pc EXCEPT ![t] = "generate"] \/ pc' = [pc EXCEPT ![t] = "refuse"]
  BY DEF Decide, Goto
<1>4. QED
  BY <1>1, <1>2, <1>3 DEF TypeOK, Decide, logs

LEMMA FinishType ==
    ASSUME TypeOK, NEW t \in Threads, pc[t] \in {"refuse", "generate"}, NEW how \in Logged,
           Finish(t, how), citations' \in [Threads -> SUBSET Hits],
           \A u \in Threads \ {t} : citations'[u] = citations[u]
    PROVE  TypeOK'
<1>1. [query |-> number[t], kind |-> how] \in Records
  BY DEF TypeOK, Records
<1>2. queue' \in Seq(Records)
  BY <1>1 DEF TypeOK, Finish
<1>3. kind' \in [Threads -> Logged \cup {"none"}] /\ "none" \notin Logged
  BY DEF TypeOK, Finish, Logged
<1>4. QED
  BY <1>2, <1>3 DEF TypeOK, Finish, Goto

LEMMA TypeStep ==
    ASSUME TypeOK, [Next]_vars
    PROVE  TypeOK'
<1>1. CASE UNCHANGED vars
  BY <1>1 DEF vars, TypeOK
<1>2. ASSUME NEW t \in Threads, NEW q \in Questions, Receive(t, q) PROVE TypeOK'
  <2>1. asked' \in 0..MaxQueries /\ asked + 1 \in 1..MaxQueries
    BY <1>2, SearchAssumption DEF TypeOK, Receive
  <2>2. q # None
    BY NoneAssumption
  <2>3. QED
    BY <1>2, <2>1, <2>2 DEF TypeOK, Receive, Goto, logs
<1>3. ASSUME NEW t \in Threads, Search(t) PROVE TypeOK'
  <2>1. PICK hits \in SUBSET Candidates(found, question[t]) :
            Nearest(hits, Candidates(found, question[t]), question[t]) /\ Decide(t, hits)
    BY <1>3 DEF Search
  <2>2. hits \subseteq Hits /\ found \in Finds
    BY DEF Candidates, TypeOK
  <2>3. QED
    BY <1>3, <2>1, <2>2, DecideType DEF Search, Nearest
<1>4. ASSUME NEW t \in Threads, SearchUnopened(t) PROVE TypeOK'
  <2>1. Cardinality({}) <= TopK
    BY FS_EmptySet, SearchAssumption
  <2>2. QED
    BY <1>4, <2>1, DecideType, NothingIsAFind DEF SearchUnopened
<1>5. ASSUME NEW t \in Threads, Refuse(t) PROVE TypeOK'
  BY <1>5, FinishType DEF Refuse, TypeOK, Logged
<1>6. ASSUME NEW t \in Threads, Abstain(t) PROVE TypeOK'
  BY <1>6, FinishType DEF Abstain, TypeOK, Logged
<1>7. ASSUME NEW t \in Threads, ChainFails(t) PROVE TypeOK'
  BY <1>7, FinishType DEF ChainFails, TypeOK, Logged
<1>8. ASSUME NEW t \in Threads, NEW claimed \in SUBSET Docs, Answer(t, claimed) PROVE TypeOK'
  <2>1. { h \in context[t] : h[1] \in claimed } \in SUBSET Hits
    BY DEF TypeOK
  <2>2. /\ citations' \in [Threads -> SUBSET Hits]
        /\ \A u \in Threads \ {t} : citations'[u] = citations[u]
    BY <1>8, <2>1 DEF TypeOK, Answer
  <2>3. QED
    BY <1>8, <2>2, FinishType DEF Answer, Logged
<1>9. ASSUME NEW t \in Threads, Reply(t) PROVE TypeOK'
  <2>1. kind[t] \in Logged /\ pc[t] # "idle"
    BY <1>9 DEF TypeOK, Reply
  <2>2. QED
    BY <1>9, <2>1, ForgetType DEF Reply
<1>10. ASSUME NEW t \in Threads, Escape(t) PROVE TypeOK'
  BY <1>10, ForgetType DEF Escape
<1>11. CASE Write
  <2>1. Head(queue) \in Records /\ Tail(queue) \in Seq(Records)
    BY <1>11 DEF Write, TypeOK
  <2>2. file' \in Seq(Records) /\ queue' \in Seq(Records)
    BY <1>11, <2>1 DEF Write, TypeOK
  <2>3. QED
    BY <1>11, <2>2 DEF Write, TypeOK
<1>12. CASE Restart
  <2>1. lost' \in Seq(Records) /\ queue' \in Seq(Records)
    BY <1>12 DEF Restart, TypeOK
  <2>2. Nothing \in Finds
    BY NothingIsAFind
  <2>3. \A u \in Threads : Cardinality(context'[u]) <= TopK
    BY <1>12, FS_EmptySet, SearchAssumption DEF Restart
  <2>4. /\ question' \in [Threads -> Questions \cup {None}]
        /\ number' \in [Threads -> 0..MaxQueries]
        /\ context' \in [Threads -> SUBSET Hits]
        /\ citations' \in [Threads -> SUBSET Hits]
        /\ seen' \in [Threads -> Finds]
    BY <1>12, <2>2, SearchAssumption DEF Restart
  <2>5. QED
    BY <1>12, <2>1, <2>3, <2>4 DEF Restart, TypeOK
<1>13. CASE Ingest
  <2>1. found' \in Finds
    BY <1>13, CatalogType DEF Ingest, TypeOK
  <2>2. QED
    BY <1>13, <2>1 DEF Ingest, TypeOK, logs
<1>14. QED
  BY <1>1, <1>2, <1>3, <1>4, <1>5, <1>6, <1>7, <1>8, <1>9, <1>10, <1>11, <1>12, <1>13
     DEF Next, Step

\* Every reachable state is well typed: no context is longer than TopK, and a
\* thread keeps nothing of a query it has left (query, QueryLogger).
THEOREM TypeCorrect == Spec => []TypeOK
BY TypeInit, TypeStep, PTL DEF Spec

-----------------------------------------------------------------------------
(* The three parts of the log.                                             *)

In(s) == { s[i] : i \in DOMAIN s }

Distinct(s) == \A i, j \in DOMAIN s : s[i].query = s[j].query => i = j

Apart(s, r) == \A i \in DOMAIN s, j \in DOMAIN r : s[i].query # r[j].query

\* No query has two records.
Once ==
    /\ Distinct(file) /\ Distinct(queue) /\ Distinct(lost)
    /\ Apart(file, queue) /\ Apart(file, lost) /\ Apart(queue, lost)

\* All records there are.
Written == In(file) \cup In(queue) \cup In(lost)

Recorded(n) == \E r \in Written : r.query = n

LogTyped == file \in Seq(Records) /\ queue \in Seq(Records) /\ lost \in Seq(Records)

\* A record of a query that has none yet joins the queue (Finish).
LEMMA Queued ==
    ASSUME LogTyped, Once, NEW r \in Records, ~Recorded(r.query),
           queue' = Append(queue, r), UNCHANGED <<file, lost>>
    PROVE  Once' /\ Written' = Written \cup {r}
<1>1. /\ Len(queue) \in Nat /\ DOMAIN queue = 1..Len(queue)
      /\ DOMAIN queue' = 1..(Len(queue) + 1)
      /\ \A i \in 1..Len(queue) : queue'[i] = queue[i]
      /\ queue'[Len(queue) + 1] = r
  BY DEF LogTyped
<1>2. In(queue') = In(queue) \cup {r}
  BY <1>1 DEF In
<1>3. /\ \A i \in DOMAIN queue : queue[i].query # r.query
      /\ \A i \in DOMAIN file : file[i].query # r.query
      /\ \A i \in DOMAIN lost : lost[i].query # r.query
  BY DEF Recorded, Written, In
<1>4. Distinct(queue')
  BY <1>1, <1>3 DEF Once, Distinct
<1>5. Apart(file, queue') /\ Apart(queue', lost)
  BY <1>1, <1>3 DEF Once, Apart
<1>6. QED
  BY <1>2, <1>4, <1>5 DEF Once, Written

\* loguru's worker moves the head of the queue to the file.
LEMMA Moved ==
    ASSUME LogTyped, Once, Write
    PROVE  Once' /\ Written' = Written
<1>1. queue # <<>> /\ file' = Append(file, Head(queue)) /\ queue' = Tail(queue) /\ lost' = lost
  BY DEF Write
<1>2. /\ Len(queue) \in Nat \ {0} /\ DOMAIN queue = 1..Len(queue) /\ Head(queue) = queue[1]
      /\ DOMAIN queue' = 1..(Len(queue) - 1)
      /\ \A i \in 1..(Len(queue) - 1) : queue'[i] = queue[i + 1]
  BY <1>1 DEF LogTyped
<1>3. /\ Len(file) \in Nat /\ DOMAIN file = 1..Len(file)
      /\ DOMAIN file' = 1..(Len(file) + 1)
      /\ \A i \in 1..Len(file) : file'[i] = file[i]
      /\ file'[Len(file) + 1] = queue[1]
  BY <1>1, <1>2 DEF LogTyped
<1>4. In(file') = In(file) \cup {queue[1]}
  BY <1>3 DEF In
<1>5. In(queue) = In(queue') \cup {queue[1]}
  <2>1. \A i \in 1..Len(queue) : i = 1 \/ (i - 1 \in DOMAIN queue' /\ queue'[i - 1] = queue[i])
    BY <1>2
  <2>2. \A i \in DOMAIN queue' : i + 1 \in DOMAIN queue /\ queue'[i] = queue[i + 1]
    BY <1>2
  <2>3. 1 \in DOMAIN queue
    BY <1>2
  <2>4. QED
    BY <1>2, <2>1, <2>2, <2>3 DEF In
<1>6. Distinct(file')
  BY <1>2, <1>3 DEF Once, Distinct, Apart
<1>7. Distinct(queue')
  BY <1>2 DEF Once, Distinct
<1>8. Apart(file', queue')
  <2>1. ASSUME NEW i \in DOMAIN file', NEW j \in DOMAIN queue'
        PROVE  file'[i].query # queue'[j].query
    <3>1. j + 1 \in DOMAIN queue /\ j + 1 # 1 /\ queue'[j] = queue[j + 1] /\ 1 \in DOMAIN queue
      BY <1>2, <2>1
    <3>2. CASE i \in DOMAIN file
      BY <1>3, <2>1, <3>1, <3>2 DEF Once, Apart
    <3>3. CASE i = Len(file) + 1
      BY <1>3, <3>1, <3>3 DEF Once, Distinct
    <3>4. QED
      BY <1>3, <2>1, <3>2, <3>3
  <2>2. QED
    BY <2>1 DEF Apart
<1>9. Apart(file', lost)
  BY <1>2, <1>3 DEF Once, Apart
<1>10. Apart(queue', lost)
  BY <1>2 DEF Once, Apart
<1>11. QED
  BY <1>1, <1>4, <1>5, <1>6, <1>7, <1>8, <1>9, <1>10 DEF Once, Written

\* A killed process loses its queue.
LEMMA Killed ==
    ASSUME LogTyped, Once, Restart
    PROVE  Once' /\ Written' = Written
<1>1. lost' = lost \o queue /\ queue' = <<>> /\ file' = file
  BY DEF Restart
<1>2. /\ Len(lost) \in Nat /\ Len(queue) \in Nat
      /\ DOMAIN lost = 1..Len(lost) /\ DOMAIN queue = 1..Len(queue)
      /\ DOMAIN lost' = 1..(Len(lost) + Len(queue))
      /\ \A i \in 1..Len(lost) : lost'[i] = lost[i]
      /\ \A i \in 1..Len(queue) : lost'[Len(lost) + i] = queue[i]
  BY <1>1 DEF LogTyped
<1>3. \A i \in DOMAIN lost' :
        \/ i \in DOMAIN lost /\ lost'[i] = lost[i]
        \/ i - Len(lost) \in DOMAIN queue /\ lost'[i] = queue[i - Len(lost)]
  <2>1. ASSUME NEW i \in DOMAIN lost', i \notin DOMAIN lost
        PROVE  i - Len(lost) \in DOMAIN queue /\ lost'[i] = queue[i - Len(lost)]
    <3>1. i - Len(lost) \in 1..Len(queue) /\ i = Len(lost) + (i - Len(lost))
      BY <1>2, <2>1
    <3>2. QED
      BY <1>2, <3>1
  <2>2. QED
    BY <1>2, <2>1
<1>4. In(lost') = In(lost) \cup In(queue)
  <2>1. \A i \in DOMAIN queue : Len(lost) + i \in DOMAIN lost'
    BY <1>2
  <2>2. \A i \in DOMAIN lost : i \in DOMAIN lost'
    BY <1>2
  <2>3. QED
    BY <1>2, <1>3, <2>1, <2>2 DEF In
<1>5. In(queue') = {} /\ DOMAIN queue' = {}
  BY <1>1 DEF In
<1>6. Distinct(lost')
  <2>1. ASSUME NEW i \in DOMAIN lost', NEW j \in DOMAIN lost', lost'[i].query = lost'[j].query
        PROVE  i = j
    <3>1. i \in Int /\ j \in Int
      BY <1>2
    <3>2. CASE i \in DOMAIN lost /\ lost'[i] = lost[i] /\ j \in DOMAIN lost /\ lost'[j] = lost[j]
      BY <2>1, <3>2 DEF Once, Distinct
    <3>3. CASE /\ i - Len(lost) \in DOMAIN queue /\ lost'[i] = queue[i - Len(lost)]
               /\ j - Len(lost) \in DOMAIN queue /\ lost'[j] = queue[j - Len(lost)]
      <4>1. i - Len(lost) = j - Len(lost)
        BY <2>1, <3>3 DEF Once, Distinct
      <4>2. QED
        BY <1>2, <3>1, <4>1
    <3>4. CASE i \in DOMAIN lost /\ lost'[i] = lost[i]
                 /\ j - Len(lost) \in DOMAIN queue /\ lost'[j] = queue[j - Len(lost)]
      BY <2>1, <3>4 DEF Once, Apart
    <3>5. CASE j \in DOMAIN lost /\ lost'[j] = lost[j]
                 /\ i - Len(lost) \in DOMAIN queue /\ lost'[i] = queue[i - Len(lost)]
      BY <2>1, <3>5 DEF Once, Apart
    <3>6. QED
      BY <1>3, <3>2, <3>3, <3>4, <3>5
  <2>2. QED
    BY <2>1 DEF Distinct
<1>7. Apart(file, lost')
  BY <1>3 DEF Once, Apart
<1>8. QED
  BY <1>1, <1>4, <1>5, <1>6, <1>7 DEF Once, Written, Distinct, Apart

\* The log as a whole, place by place.
LEMMA Places ==
    ASSUME LogTyped
    PROVE  \A i \in DOMAIN Log :
              \/ i \in DOMAIN file /\ Log[i] = file[i]
              \/ /\ i - Len(file) \in DOMAIN queue
                 /\ Log[i] = queue[i - Len(file)]
              \/ /\ i - (Len(file) + Len(queue)) \in DOMAIN lost
                 /\ Log[i] = lost[i - (Len(file) + Len(queue))]
<1> DEFINE a == Len(file)
           b == Len(queue)
           c == Len(lost)
<1>1. /\ a \in Nat /\ b \in Nat /\ c \in Nat
      /\ DOMAIN file = 1..a /\ DOMAIN queue = 1..b /\ DOMAIN lost = 1..c
      /\ DOMAIN Log = 1..(a + b + c)
  BY DEF LogTyped, Log
<1>2. ASSUME NEW i \in 1..a PROVE Log[i] = file[i]
  BY <1>1, <1>2 DEF LogTyped, Log
<1>3. ASSUME NEW i \in 1..b PROVE Log[a + i] = queue[i]
  BY <1>1, <1>3 DEF LogTyped, Log
<1>4. ASSUME NEW i \in 1..c PROVE Log[(a + b) + i] = lost[i]
  BY <1>1, <1>4 DEF LogTyped, Log
<1> HIDE DEF a, b, c
<1>5. TAKE i \in DOMAIN Log
<1>6. CASE i \in 1..a
  BY <1>1, <1>2, <1>6
<1>7. CASE i \in (a + 1)..(a + b)
  <2>1. i - a \in 1..b /\ i = a + (i - a)
    BY <1>1, <1>7
  <2>2. QED
    BY <1>1, <1>3, <2>1 DEF a
<1>8. CASE i \in (a + b + 1)..(a + b + c)
  <2>1. i - (a + b) \in 1..c /\ i = (a + b) + (i - (a + b))
    BY <1>1, <1>8
  <2>2. QED
    BY <1>1, <1>4, <2>1 DEF a, b
<1>9. QED
  BY <1>1, <1>5, <1>6, <1>7, <1>8

\* No two places of the log have records of one query.
LEMMA OnePlace ==
    ASSUME LogTyped, Once, NEW i \in DOMAIN Log, NEW j \in DOMAIN Log,
           Log[i].query = Log[j].query
    PROVE  i = j
<1> DEFINE a == Len(file)
           b == Len(file) + Len(queue)
           InFile(k) == k \in DOMAIN file /\ Log[k] = file[k]
           InQueue(k) == k - a \in DOMAIN queue /\ Log[k] = queue[k - a]
           InLost(k) == k - b \in DOMAIN lost /\ Log[k] = lost[k - b]
<1>1. \A k \in DOMAIN Log : InFile(k) \/ InQueue(k) \/ InLost(k)
  BY Places
<1>2. i \in Int /\ j \in Int /\ a \in Int /\ b \in Int
  BY DEF LogTyped, Log
<1>3. CASE InFile(i) /\ InFile(j)
  BY <1>3 DEF Once, Distinct
<1>4. CASE InQueue(i) /\ InQueue(j)
  <2>1. i - a = j - a
    BY <1>4 DEF Once, Distinct
  <2> HIDE DEF a
  <2>2. QED
    BY <1>2, <2>1
<1>5. CASE InLost(i) /\ InLost(j)
  <2>1. i - b = j - b
    BY <1>5 DEF Once, Distinct
  <2> HIDE DEF b
  <2>2. QED
    BY <1>2, <2>1
<1>6. ~(InFile(i) /\ InQueue(j)) /\ ~(InQueue(i) /\ InFile(j))
  BY DEF Once, Apart
<1>7. ~(InFile(i) /\ InLost(j)) /\ ~(InLost(i) /\ InFile(j))
  BY DEF Once, Apart
<1>8. ~(InQueue(i) /\ InLost(j)) /\ ~(InLost(i) /\ InQueue(j))
  BY DEF Once, Apart
<1> HIDE DEF InFile, InQueue, InLost
<1>9. QED
  BY <1>1, <1>3, <1>4, <1>5, <1>6, <1>7, <1>8

\* The log holds the records of its parts, and no other.
LEMMA LogIsWritten ==
    ASSUME LogTyped
    PROVE  In(Log) = Written
<1>1. In(Log) \subseteq Written
  BY Places DEF In, Written
<1>2. /\ Len(file) \in Nat /\ Len(queue) \in Nat /\ Len(lost) \in Nat
      /\ DOMAIN file = 1..Len(file) /\ DOMAIN queue = 1..Len(queue)
      /\ DOMAIN lost = 1..Len(lost)
      /\ DOMAIN Log = 1..(Len(file) + Len(queue) + Len(lost))
  BY DEF LogTyped, Log
<1>3. ASSUME NEW i \in DOMAIN file PROVE file[i] \in In(Log)
  <2>1. i \in DOMAIN Log /\ Log[i] = file[i]
    BY <1>2, <1>3 DEF LogTyped, Log
  <2>2. QED
    BY <2>1 DEF In
<1>4. ASSUME NEW i \in DOMAIN queue PROVE queue[i] \in In(Log)
  <2>1. Len(file) + i \in DOMAIN Log /\ Log[Len(file) + i] = queue[i]
    BY <1>2, <1>4 DEF LogTyped, Log
  <2>2. QED
    BY <2>1 DEF In
<1>5. ASSUME NEW i \in DOMAIN lost PROVE lost[i] \in In(Log)
  <2>1. /\ (Len(file) + Len(queue)) + i \in DOMAIN Log
        /\ Log[(Len(file) + Len(queue)) + i] = lost[i]
    BY <1>2, <1>5 DEF LogTyped, Log
  <2>2. QED
    BY <2>1 DEF In
<1>6. QED
  BY <1>1, <1>3, <1>4, <1>5 DEF In, Written

-----------------------------------------------------------------------------
(* One record for every query.                                             *)

Active(t) == pc[t] # "idle"

\* A query that a thread is in has no reply yet, and a record once it is ready
\* to be replied to.
Pending(t) ==
    Active(t) =>
        /\ number[t] <= asked
        /\ replies[number[t]] = "none"
        /\ pc[t] # "reply" => ~Recorded(number[t])
        /\ pc[t] = "reply" =>
              \E r \in Written : r.query = number[t] /\ r.kind = kind[t]

\* What a query's reply says of its record.
Settled(n) ==
    /\ replies[n] \in Logged => \E r \in Written : r.query = n /\ r.kind = replies[n]
    /\ replies[n] = "escaped" => ~Recorded(n)
    /\ n > asked => replies[n] = "none" /\ ~Recorded(n)

LogInv ==
    /\ TypeOK
    /\ Once
    /\ \A t \in Threads : Pending(t)
    /\ \A t, u \in Threads : Active(t) /\ Active(u) /\ number[t] = number[u] => t = u
    /\ \A n \in 1..MaxQueries : Settled(n)

LEMMA LogInvIsLoggedOnce ==
    ASSUME LogInv
    PROVE  LoggedOnce
<1>1. LogTyped
  BY DEF LogInv, TypeOK, LogTyped
<1>2. SUFFICES ASSUME NEW n \in 1..MaxQueries
               PROVE  /\ Cardinality(RecordsOf(n)) <= 1
                      /\ replies[n] \in Logged =>
                            \E i \in RecordsOf(n) : Log[i].kind = replies[n]
                      /\ replies[n] = "escaped" => RecordsOf(n) = {}
  BY DEF LoggedOnce
<1>3. In(Log) = Written
  BY <1>1, LogIsWritten
<1>4. Cardinality(RecordsOf(n)) <= 1
  <2>1. \A i, j \in RecordsOf(n) : i = j
    BY <1>1, OnePlace DEF LogInv, RecordsOf
  <2>2. RecordsOf(n) = {} \/ \E i : RecordsOf(n) = {i}
    BY <2>1
  <2>3. QED
    BY <2>2, FS_EmptySet, FS_Singleton
<1>5. ASSUME replies[n] \in Logged
      PROVE  \E i \in RecordsOf(n) : Log[i].kind = replies[n]
  <2>1. PICK r \in Written : r.query = n /\ r.kind = replies[n]
    BY <1>5 DEF LogInv, Settled
  <2>2. PICK i \in DOMAIN Log : Log[i] = r
    BY <1>3, <2>1 DEF In
  <2>3. QED
    BY <2>1, <2>2 DEF RecordsOf
<1>6. ASSUME replies[n] = "escaped" PROVE RecordsOf(n) = {}
  <2>1. \A r \in Written : r.query # n
    BY <1>6 DEF LogInv, Settled, Recorded
  <2>2. QED
    BY <1>3, <2>1 DEF In, RecordsOf
<1>7. QED
  BY <1>4, <1>5, <1>6

\* A step that logs nothing, begins nothing and ends nothing.
LEMMA QuietStep ==
    ASSUME LogInv, TypeOK', UNCHANGED <<asked, replies, number, kind>>,
           Once', Written' = Written,
           \A t \in Threads :
              /\ pc'[t] = "idle" <=> pc[t] = "idle"
              /\ pc'[t] = "reply" <=> pc[t] = "reply"
    PROVE  LogInv'
<1>1. \A t \in Threads : Pending(t)'
  BY DEF LogInv, Pending, Active, Recorded
<1>2. \A n \in 1..MaxQueries : Settled(n)'
  BY DEF LogInv, Settled, Recorded
<1>3. QED
  BY <1>1, <1>2 DEF LogInv, Active

\* A query begins with a number that no reply, record or other thread has.
LEMMA ReceiveStep ==
    ASSUME LogInv, TypeOK', NEW t \in Threads, NEW q \in Questions, Receive(t, q)
    PROVE  LogInv'
<1>1. /\ asked' = asked + 1 /\ asked \in Nat /\ asked + 1 \in 1..MaxQueries
      /\ number' = [number EXCEPT ![t] = asked + 1] /\ number'[t] = asked + 1
      /\ pc'[t] = "search" /\ UNCHANGED <<kind, replies, file, queue, lost>>
  BY SearchAssumption DEF LogInv, TypeOK, Receive, Goto, logs
<1>2. replies[asked + 1] = "none" /\ ~Recorded(asked + 1)
  BY <1>1 DEF LogInv, Settled
<1>3. Written' = Written /\ Once'
  BY <1>1 DEF LogInv, Written, In, Once, Distinct, Apart
<1>4. \A u \in Threads \ {t} : pc'[u] = pc[u] /\ number'[u] = number[u]
  BY DEF LogInv, TypeOK, Receive, Goto
<1>5. \A u \in Threads \ {t} : Active(u) => number[u] <= asked /\ number[u] \in Nat
  BY DEF LogInv, Pending, TypeOK
<1>6. Pending(t)'
  BY <1>1, <1>2, <1>3 DEF Pending, Recorded
<1>7. ASSUME NEW u \in Threads \ {t} PROVE Pending(u)'
  BY <1>1, <1>3, <1>4, <1>5 DEF LogInv, Pending, Active, Recorded
<1>8. \A u, v \in Threads : Active(u)' /\ Active(v)' /\ number'[u] = number'[v] => u = v
  BY <1>1, <1>4, <1>5 DEF LogInv, Active
<1>9. ASSUME NEW n \in 1..MaxQueries PROVE Settled(n)'
  BY <1>1, <1>3 DEF LogInv, Settled, Recorded
<1>10. QED
  BY <1>3, <1>6, <1>7, <1>8, <1>9 DEF LogInv

\* A query ends with the one record of it.
LEMMA FinishStep ==
    ASSUME LogInv, TypeOK', NEW t \in Threads, pc[t] \in {"refuse", "generate"},
           NEW how \in Logged, Finish(t, how)
    PROVE  LogInv'
<1> DEFINE rec == [query |-> number[t], kind |-> how]
<1>1. number[t] \in 1..MaxQueries /\ rec \in Records
      /\ number[t] \in Nat /\ asked \in Nat
  BY DEF LogInv, TypeOK, Records
<1>2. /\ number[t] <= asked /\ replies[number[t]] = "none" /\ ~Recorded(number[t])
  BY DEF LogInv, Pending, Active
<1>3. Once' /\ Written' = Written \cup {rec}
  BY <1>1, <1>2, Queued DEF LogInv, TypeOK, LogTyped, Finish
<1>4. /\ pc'[t] = "reply" /\ kind'[t] = how
      /\ UNCHANGED <<number, asked, replies>>
      /\ \A u \in Threads \ {t} : pc'[u] = pc[u] /\ kind'[u] = kind[u]
  BY DEF LogInv, TypeOK, Finish, Goto
<1>5. Pending(t)'
  BY <1>1, <1>2, <1>3, <1>4 DEF Pending
<1>6. ASSUME NEW u \in Threads \ {t} PROVE Pending(u)'
  <2>1. Active(u) => number[u] # number[t]
    BY DEF LogInv, Active
  <2>2. Active(u) => (Recorded(number[u])' <=> Recorded(number[u]))
    BY <1>3, <1>4, <2>1 DEF Recorded
  <2>3. QED
    BY <1>3, <1>4, <2>2 DEF LogInv, Pending, Active
<1>7. ASSUME NEW n \in 1..MaxQueries PROVE Settled(n)'
  <2>1. CASE n = number[t]
    BY <1>1, <1>2, <1>3, <1>4, <2>1 DEF Settled, Logged
  <2>2. CASE n # number[t]
    <3>1. Recorded(n)' <=> Recorded(n)
      BY <1>3, <2>2 DEF Recorded
    <3>2. QED
      BY <1>3, <1>4, <3>1 DEF LogInv, Settled
  <2>3. QED
    BY <2>1, <2>2
<1>8. \A u, v \in Threads : Active(u)' /\ Active(v)' /\ number'[u] = number'[v] => u = v
  BY <1>4 DEF LogInv, Active
<1>9. QED
  BY <1>3, <1>5, <1>6, <1>7, <1>8 DEF LogInv

\* A reply says what the record does, or escaped without one.
LEMMA ForgetStep ==
    ASSUME LogInv, TypeOK', NEW t \in Threads, pc[t] # "idle", Forget(t),
           UNCHANGED <<asked, logs>>, NEW how \in Logged \cup {"escaped"},
           replies' = [replies EXCEPT ![number[t]] = how],
           how = "escaped" => pc[t] # "reply",
           how # "escaped" => pc[t] = "reply" /\ how = kind[t]
    PROVE  LogInv'
<1>1. number[t] \in 1..MaxQueries /\ number[t] \in Nat /\ asked \in Nat /\ number[t] <= asked
  BY DEF LogInv, TypeOK, Pending, Active
<1>2. /\ replies'[number[t]] = how
      /\ \A n \in 1..MaxQueries : n # number[t] => replies'[n] = replies[n]
  BY <1>1 DEF LogInv, TypeOK
<1>3. Once' /\ Written' = Written
  BY DEF LogInv, logs, Written, In, Once, Distinct, Apart
<1>4. /\ pc'[t] = "idle"
      /\ \A u \in Threads \ {t} :
            pc'[u] = pc[u] /\ kind'[u] = kind[u] /\ number'[u] = number[u]
  BY DEF LogInv, TypeOK, Forget, Goto
<1>5. \A u \in Threads \ {t} : Active(u) => number[u] # number[t] /\ number[u] \in 1..MaxQueries
  BY DEF LogInv, TypeOK, Active
<1>6. ASSUME NEW u \in Threads PROVE Pending(u)'
  <2>1. CASE u = t
    BY <1>4, <2>1 DEF Pending, Active
  <2>2. CASE u # t
    BY <1>2, <1>3, <1>4, <1>5, <2>2 DEF LogInv, Pending, Active, Recorded
  <2>3. QED
    BY <2>1, <2>2
<1>7. ASSUME NEW n \in 1..MaxQueries PROVE Settled(n)'
  <2>1. CASE n = number[t]
    <3>1. how = "escaped" => ~Recorded(n)
      BY <2>1 DEF LogInv, Pending, Active
    <3>2. how # "escaped" => \E r \in Written : r.query = n /\ r.kind = how
      BY <2>1 DEF LogInv, Pending, Active
    <3>3. QED
      BY <1>1, <1>2, <1>3, <2>1, <3>1, <3>2 DEF Settled, Recorded, Logged
  <2>2. CASE n # number[t]
    BY <1>2, <1>3, <2>2 DEF LogInv, Settled, Recorded
  <2>3. QED
    BY <2>1, <2>2
<1>8. \A u, v \in Threads : Active(u)' /\ Active(v)' /\ number'[u] = number'[v] => u = v
  BY <1>4 DEF LogInv, Active
<1>9. QED
  BY <1>3, <1>6, <1>7, <1>8 DEF LogInv

LEMMA LogStep ==
    ASSUME LogInv, [Next]_vars
    PROVE  LogInv'
<1>1. TypeOK'
  BY TypeStep DEF LogInv
<1>2. CASE UNCHANGED vars
  BY <1>1, <1>2, QuietStep DEF vars, logs, LogInv, Once, Distinct, Apart, Written, In
<1>3. ASSUME NEW t \in Threads, NEW q \in Questions, Receive(t, q) PROVE LogInv'
  BY <1>1, <1>3, ReceiveStep
<1>4. ASSUME NEW t \in Threads, Search(t) \/ SearchUnopened(t) PROVE LogInv'
  <2>1. PICK hits : pc[t] = "search" /\ Decide(t, hits)
    BY <1>4 DEF Search, SearchUnopened
  <2>2. /\ UNCHANGED <<asked, replies, number, kind, file, queue, lost>>
        /\ pc'[t] \in {"generate", "refuse"}
        /\ \A u \in Threads \ {t} : pc'[u] = pc[u]
    BY <2>1 DEF Decide, Goto, logs, LogInv, TypeOK
  <2>3. Once' /\ Written' = Written
    BY <2>2 DEF LogInv, Once, Distinct, Apart, Written, In
  <2>4. \A u \in Threads :
          /\ pc'[u] = "idle" <=> pc[u] = "idle"
          /\ pc'[u] = "reply" <=> pc[u] = "reply"
    BY <2>1, <2>2
  <2>5. QED
    BY <1>1, <2>2, <2>3, <2>4, QuietStep
<1>5. ASSUME NEW t \in Threads,
             Refuse(t) \/ Abstain(t) \/ ChainFails(t)
                \/ \E claimed \in SUBSET Docs : Answer(t, claimed)
      PROVE  LogInv'
  <2>1. PICK how \in Logged : pc[t] \in {"refuse", "generate"} /\ Finish(t, how)
    BY <1>5 DEF Refuse, Abstain, ChainFails, Answer, Logged
  <2>2. QED
    BY <1>1, <2>1, FinishStep
<1>6. ASSUME NEW t \in Threads, Reply(t) PROVE LogInv'
  <2>1. kind[t] \in Logged /\ kind[t] # "escaped" /\ pc[t] = "reply"
    BY <1>6 DEF LogInv, TypeOK, Reply, Logged
  <2>2. QED
    BY <1>1, <1>6, <2>1, ForgetStep DEF Reply
<1>7. ASSUME NEW t \in Threads, Escape(t) PROVE LogInv'
  <2>1. pc[t] # "idle" /\ pc[t] # "reply"
    BY <1>7 DEF Escape
  <2>2. QED
    BY <1>1, <1>7, <2>1, ForgetStep DEF Escape
<1>8. CASE Write
  <2>1. Once' /\ Written' = Written
    BY <1>8, Moved DEF LogInv, TypeOK, LogTyped
  <2>2. QED
    BY <1>1, <1>8, <2>1, QuietStep DEF Write
<1>9. CASE Restart
  <2>1. Once' /\ Written' = Written
    BY <1>9, Killed DEF LogInv, TypeOK, LogTyped
  <2>2. \A t \in Threads : ~Active(t)'
    BY <1>9 DEF Restart, Active
  <2>3. \A n \in 1..MaxQueries : Settled(n)'
    BY <1>9, <2>1 DEF Restart, LogInv, Settled, Recorded
  <2>4. QED
    BY <1>1, <2>1, <2>2, <2>3 DEF LogInv, Pending
<1>10. CASE Ingest
  <2>1. UNCHANGED <<asked, replies, number, kind, pc, file, queue, lost>>
    BY <1>10 DEF Ingest, logs
  <2>2. Once' /\ Written' = Written
    BY <2>1 DEF LogInv, Once, Distinct, Apart, Written, In
  <2>3. QED
    BY <1>1, <2>1, <2>2, QuietStep
<1>11. QED
  BY <1>2, <1>3, <1>4, <1>5, <1>6, <1>7, <1>8, <1>9, <1>10 DEF Next, Step

\* Every query that got an answer, a refusal, an abstention or a failure has one
\* record, of that kind, and no query has two, through any interleaving of
\* requests, worker and crashes (query, _log_query, QueryLogger).
THEOREM LoggedExactlyOnce == Spec => []LoggedOnce
<1>1. Init => LogInv
  <2>1. SUFFICES ASSUME Init PROVE LogInv
    OBVIOUS
  <2>2. Written = {} /\ Once
    BY <2>1 DEF Init, Written, In, Once, Distinct, Apart
  <2>3. QED
    BY <2>1, <2>2, TypeInit DEF Init, LogInv, Pending, Active, Settled, Recorded, Logged
<1>2. LogInv /\ [Next]_vars => LogInv'
  BY LogStep
<1>3. LogInv => LoggedOnce
  BY LogInvIsLoggedOnce
<1>4. QED
  BY <1>1, <1>2, <1>3, PTL DEF Spec
=============================================================================
