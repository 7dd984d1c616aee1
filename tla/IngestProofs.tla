---------------------------- MODULE IngestProofs ----------------------------
(***************************************************************************)
(* Proofs about Ingest and Batch, for every set of threads, files,         *)
(* documents and batches and every splitting of the documents.             *)
(***************************************************************************)
EXTENDS Batch, TLAPS

\* A chunk id made from a document is a chunk id and carries its doc key.
LEMMA RecordsAreIds ==
    ASSUME NEW d \in Docs, NEW z \in Sizes
    PROVE  /\ BuildChunkRecords(d, z) \subseteq ChunkIds
           /\ \A id \in BuildChunkRecords(d, z) : DocKey(id) = d
<1>1. BuildChunkRecords(d, z) \subseteq ChunkIds
  BY DEF ChunkIds
<1>2. ASSUME NEW id \in BuildChunkRecords(d, z) PROVE DocKey(id) = d
  <2>1. PICK i \in DOMAIN Split[d][z] : id = <<d, i, Split[d][z][i]>>
    BY DEF BuildChunkRecords, GenerateChunkId
  <2>2. QED
    BY <2>1 DEF DocKey
<1>3. QED
  BY <1>1, <1>2

\* With one chunking configuration, the ids that carry a document's key are
\* the document's records.
LEMMA IdsOfDocument ==
    ASSUME NEW z, Sizes = {z}, NEW d \in Docs
    PROVE  BuildChunkRecords(d, z) = { id \in ChunkIds : DocKey(id) = d }
<1>1. ASSUME NEW id \in ChunkIds, DocKey(id) = d
      PROVE  id \in BuildChunkRecords(d, z)
  <2>1. PICK x \in Docs : id \in BuildChunkRecords(x, z)
    BY DEF ChunkIds
  <2>2. DocKey(id) = x
    BY <2>1, RecordsAreIds
  <2>3. QED
    BY <1>1, <2>1, <2>2
<1>2. QED
  BY <1>1, RecordsAreIds

\* The fields of a request have their types, and a request is a call.
LEMMA RequestFields ==
    ASSUME NEW r \in Requests
    PROVE  /\ Source(r) \in Sources
           /\ r.doc \in Docs
           /\ r.size \in Sizes
           /\ r # NoCall
BY FilesAssumption, ArrivalsAssumption DEF Requests, Source

-----------------------------------------------------------------------------
(* Calls, whoever makes them.                                              *)

\* A step of any call that is well formed, alone or as a file of a batch.
AnyCall ==
    \E t \in Threads :
        \/ \E r \in Requests : Start(t, r)
        \/ Step(t)
        \/ Raise(t)

\* They may find the table of earlier runs.
Calls == Init /\ [][AnyCall]_vars

-----------------------------------------------------------------------------
(* Type correctness.                                                       *)

\* A step of a call keeps the types.
LEMMA TypeStep ==
    ASSUME TypeOK, [AnyCall]_vars
    PROVE  TypeOK'
<1> USE DEF TypeOK, Steps, Active
<1>1. ASSUME NEW t \in Threads, NEW r \in Requests, Start(t, r)
      PROVE  TypeOK'
  BY <1>1, ArrivalsAssumption DEF Start
<1>2. ASSUME NEW t \in Threads, Reject(t) PROVE TypeOK'
  BY <1>2 DEF Reject, Return
<1>3. ASSUME NEW t \in Threads, Validate(t) PROVE TypeOK'
  BY <1>3, ZenonT(40) DEF Validate, Return, Goto
<1>4. ASSUME NEW t \in Threads, ReadKeys(t) PROVE TypeOK'
  <2>1. CASE Unchanged(req[t]) /\ req[t].skip
    BY <1>4, <2>1, ZenonT(40) DEF ReadKeys, Return
  <2>2. CASE ~(Unchanged(req[t]) /\ req[t].skip)
    BY <1>4, <2>2 DEF ReadKeys, Goto, NextRead
  <2>3. QED
    BY <2>1, <2>2
<1>5. ASSUME NEW t \in Threads, DeleteBySource(t) PROVE TypeOK'
  BY <1>5 DEF DeleteBySource, Goto, NextRead
<1>6. ASSUME NEW t \in Threads, ReadIds(t) PROVE TypeOK'
  BY <1>6 DEF ReadIds, Goto, ChunkIdsForSource
<1>7. ASSUME NEW t \in Threads, Upsert(t) PROVE TypeOK'
  BY <1>7, RequestFields DEF Upsert, Return
<1>8. ASSUME NEW t \in Threads, Raise(t) PROVE TypeOK'
  BY <1>8 DEF Raise, Return
<1>9. ASSUME NEW t \in Threads, Unopened(t) PROVE TypeOK'
  BY <1>9 DEF Unopened, NextRead
<1>10. CASE UNCHANGED vars
  BY <1>10 DEF vars
<1>11. QED
  BY <1>1, <1>2, <1>3, <1>4, <1>5, <1>6, <1>7, <1>8, <1>9, <1>10 DEF AnyCall, Step

\* Every state that calls reach is well typed.
LEMMA CallsAreTyped == Calls => []TypeOK
<1>1. Init => TypeOK
  BY DEF Init, TypeOK, Active, Steps
<1>2. QED
  BY <1>1, TypeStep, PTL DEF Calls

-----------------------------------------------------------------------------
(* Documents stay whole.                                                   *)

\* The strengthening: what a thread remembers as existing is whole too, so
\* the records it leaves out are all of a document's or none.
WholeIn(ids) ==
    \A d \in Docs, z \in Sizes :
        \A i, j \in BuildChunkRecords(d, z) : i \in ids <=> j \in ids

WholeInv ==
    /\ DocumentIsWhole
    /\ \A t \in Threads : WholeIn(existing[t])

\* A thread that remembers nothing remembers whole documents.
LEMMA EmptyIsWhole == WholeIn({})
BY DEF WholeIn

\* The rows of one source are whole when all documents are.
LEMMA SourceIsWhole ==
    ASSUME TypeOK, DocumentIsWhole, NEW s
    PROVE  WholeIn(ChunkIdsForSource(s))
BY RecordsAreIds DEF WholeIn, DocumentIsWhole, ChunkIdsForSource

\* A step keeps documents and snapshots whole.
LEMMA WholeStep ==
    ASSUME NEW size, Sizes = {size}, TypeOK, WholeInv, [AnyCall]_vars
    PROVE  WholeInv'
<1>1. ASSUME table' = table PROVE DocumentIsWhole'
  BY <1>1 DEF DocumentIsWhole, WholeInv
<1>2. ASSUME NEW t \in Threads, existing' = [existing EXCEPT ![t] = {}]
      PROVE  \A u \in Threads : WholeIn(existing'[u])
  BY <1>2, EmptyIsWhole DEF WholeInv, TypeOK
<1>3. ASSUME existing' = existing
      PROVE  \A u \in Threads : WholeIn(existing'[u])
  BY <1>3 DEF WholeInv
<1>4. ASSUME \A u \in Threads : WholeIn(existing'[u])
      PROVE  \A u \in Threads : WholeIn(existing[u])'
  BY <1>4 DEF WholeIn
<1>5. ASSUME NEW t \in Threads, NEW r \in Requests, Start(t, r) PROVE WholeInv'
  BY <1>1, <1>3, <1>4, <1>5 DEF WholeInv, Start
<1>6. ASSUME NEW t \in Threads, Reject(t) PROVE WholeInv'
  BY <1>1, <1>2, <1>4, <1>6 DEF WholeInv, Reject, Return
<1>7. ASSUME NEW t \in Threads, Validate(t) PROVE WholeInv'
  BY <1>1, <1>2, <1>3, <1>4, <1>7 DEF WholeInv, Validate, Return
<1>8. ASSUME NEW t \in Threads, ReadKeys(t) PROVE WholeInv'
  BY <1>1, <1>2, <1>3, <1>4, <1>8 DEF WholeInv, ReadKeys, Return
<1>9. ASSUME NEW t \in Threads, DeleteBySource(t) PROVE WholeInv'
  <2>1. DocumentIsWhole'
    BY <1>9, RecordsAreIds DEF WholeInv, DocumentIsWhole, DeleteBySource
  <2>2. QED
    BY <1>3, <1>4, <1>9, <2>1 DEF WholeInv, DeleteBySource
<1>10. ASSUME NEW t \in Threads, ReadIds(t) PROVE WholeInv'
  <2>1. ASSUME NEW u \in Threads PROVE WholeIn(existing'[u])
    BY <1>10, SourceIsWhole DEF WholeInv, ReadIds, TypeOK
  <2>2. QED
    BY <1>1, <1>4, <1>10, <2>1 DEF WholeInv, ReadIds
<1>11. ASSUME NEW t \in Threads, Upsert(t) PROVE WholeInv'
  <2>1. req[t] \in Requests
    BY <1>11 DEF TypeOK, Upsert, Active
  <2>2. ASSUME NEW d \in Docs, NEW z \in Sizes,
               NEW i \in BuildChunkRecords(d, z),
               NEW j \in BuildChunkRecords(d, z)
        PROVE  i \in Embedded(t) <=> j \in Embedded(t)
    <3>1. Records(req[t]) = { id \in ChunkIds : DocKey(id) = req[t].doc }
      BY <2>1, IdsOfDocument, RequestFields DEF Records
    <3>2. i \in Records(req[t]) <=> j \in Records(req[t])
      BY <3>1, RecordsAreIds
    <3>3. i \in existing[t] <=> j \in existing[t]
      BY DEF WholeInv, WholeIn
    <3>4. QED
      BY <3>2, <3>3 DEF Embedded
  <2>3. DocumentIsWhole'
    BY <1>11, <2>2, RecordsAreIds DEF WholeInv, DocumentIsWhole, Upsert
  <2>4. QED
    BY <1>2, <1>4, <1>11, <2>3 DEF WholeInv, Upsert, Return
<1>12. ASSUME NEW t \in Threads, Raise(t) PROVE WholeInv'
  BY <1>1, <1>2, <1>4, <1>12 DEF WholeInv, Raise, Return
<1>13. ASSUME NEW t \in Threads, Unopened(t) PROVE WholeInv'
  BY <1>1, <1>2, <1>4, <1>13 DEF WholeInv, Unopened
<1>14. CASE UNCHANGED vars
  BY <1>1, <1>3, <1>4, <1>14 DEF WholeInv, vars
<1>15. QED
  BY <1>5, <1>6, <1>7, <1>8, <1>9, <1>10, <1>11, <1>12, <1>13, <1>14 DEF AnyCall, Step

\* The invariant and its strengthening hold of every behaviour.
LEMMA WholeInvariant ==
    ASSUME NEW size, Sizes = {size}
    PROVE  Calls => []WholeInv
<1>1. Init => WholeInv
  BY EmptyIsWhole DEF Init, WholeInv
<1>2. TypeOK /\ WholeInv /\ [AnyCall]_vars => WholeInv'
  BY WholeStep
<1>3. QED
  BY <1>1, <1>2, CallsAreTyped, PTL DEF Calls

\* With one chunking configuration, however calls overlap, fail or reuse stale
\* reads, all chunks of a document are stored under one source or none is.
LEMMA CallsKeepWhole ==
    ASSUME NEW size, Sizes = {size}
    PROVE  Calls => []DocumentIsWhole
<1>1. WholeInv => DocumentIsWhole
  BY DEF WholeInv
<1>2. QED
  BY <1>1, WholeInvariant, PTL

-----------------------------------------------------------------------------
(* Lone calls.                                                             *)

\* What is true of a call that nothing conflicting has overlapped: no active
\* call conflicts with it; once it is past the delete its source holds no
\* other document, unless it was misled; what it remembers as existing still is; and if its source
\* was exact when it began, it still is and the call is not about to delete.
LoneAt(t) ==
    LET s == Source(req[t])
        d == req[t].doc
    IN  /\ \A u \in Threads \ {t} : Active(u) => ~Conflict(req[u], req[t])
        /\ pc[t] \in {"readIds", "upsert"} /\ ~misled[t]
               => \A id \in ChunkIds : table[id] = s => DocKey(id) = d
        /\ \A id \in existing[t] : DocKey(id) = d => table[id] = s
        /\ pc[t] # "upsert" => existing[t] = {}
        /\ wasExact[t] =>
               /\ \A id \in ChunkIds : table[id] = s <=> id \in Records(req[t])
               /\ pc[t] # "delete"

LoneInv ==
    /\ \A t \in Threads : ~Active(t) => existing[t] = {} /\ ~misled[t]
    /\ \A t \in Threads : Active(t) => result[t] = "none"
    /\ \A t \in Threads : Active(t) /\ ~overlapped[t] => LoneAt(t)

\* A step of one thread inside a call leaves the other threads alone.
LEMMA StepFrame ==
    ASSUME TypeOK, NEW a \in Threads, Step(a) \/ Raise(a)
    PROVE  /\ pc[a] # "idle"
           /\ req[a] \in Requests
           /\ \A u \in Threads \ {a} :
                  /\ pc'[u] = pc[u]
                  /\ req'[u] = req[u]
                  /\ existing'[u] = existing[u]
                  /\ overlapped'[u] = overlapped[u]
                  /\ wasExact'[u] = wasExact[u]
                  /\ misled'[u] = misled[u]
                  /\ result'[u] = result[u]
           /\ pc'[a] # "idle" =>
                  /\ result'[a] = result[a]
                  /\ req'[a] = req[a]
                  /\ overlapped'[a] = overlapped[a]
                  /\ wasExact'[a] = wasExact[a]
                  /\ misled[a] => misled'[a]
           /\ pc'[a] = "idle" => existing'[a] = {} /\ ~misled'[a]
<1> USE DEF TypeOK, Active, Return, Goto
<1>1. CASE Reject(a)         BY <1>1 DEF Reject
<1>2. CASE Validate(a)       BY <1>2 DEF Validate
<1>3. CASE ReadKeys(a)       BY <1>3 DEF ReadKeys, NextRead
<1>4. CASE DeleteBySource(a) BY <1>4 DEF DeleteBySource, NextRead
<1>5. CASE ReadIds(a)        BY <1>5 DEF ReadIds
<1>6. CASE Upsert(a)         BY <1>6 DEF Upsert
<1>7. CASE Unopened(a)       BY <1>7 DEF Unopened, NextRead
<1>8. CASE Raise(a)          BY <1>8 DEF Raise
<1>9. QED
  BY <1>1, <1>2, <1>3, <1>4, <1>5, <1>6, <1>7, <1>8 DEF Step

\* A step of a call that does not conflict with r neither adds rows to the
\* source of r nor takes rows of its document from it.
LEMMA ForeignStep ==
    ASSUME TypeOK, NEW a \in Threads, Step(a) \/ Raise(a),
           NEW r \in Requests, ~Conflict(req[a], r)
    PROVE  \A id \in ChunkIds :
              /\ table'[id] = Source(r) => table[id] = Source(r)
              /\ table[id] = Source(r) /\ DocKey(id) = r.doc
                    => table'[id] = Source(r)
<1>1. Source(req[a]) # Source(r) /\ req[a].doc # r.doc
  BY DEF Conflict
<1>2. CASE table' = table
  BY <1>2
<1>3. CASE DeleteBySource(a)
  BY <1>1, <1>3, RequestFields, AbsentAssumption DEF DeleteBySource, TypeOK
<1>4. CASE Upsert(a)
  <2>1. req[a] \in Requests
    BY <1>4, StepFrame DEF Step
  <2>2. \A id \in Embedded(a) : DocKey(id) = req[a].doc
    BY <2>1, RequestFields, RecordsAreIds DEF Embedded, Records
  <2>3. QED
    BY <1>1, <1>4, <2>2 DEF Upsert
<1>5. QED
  BY <1>2, <1>3, <1>4
     DEF Step, Raise, Reject, Validate, ReadKeys, ReadIds, Unopened

\* So it preserves what is true of a lone call.
LEMMA LoneUnderOthers ==
    ASSUME TypeOK, LoneInv,
           NEW a \in Threads, Step(a) \/ Raise(a),
           NEW t \in Threads \ {a}, Active(t)', ~overlapped'[t]
    PROVE  LoneAt(t)'
<1>1. /\ pc'[t] = pc[t] /\ req'[t] = req[t] /\ existing'[t] = existing[t]
      /\ overlapped'[t] = overlapped[t] /\ wasExact'[t] = wasExact[t]
      /\ misled'[t] = misled[t]
  BY StepFrame
<1>2. Active(t) /\ LoneAt(t) /\ req[t] \in Requests
  BY <1>1 DEF LoneInv, Active, TypeOK
<1>3. ~Conflict(req[a], req[t])
  BY <1>2, StepFrame DEF LoneAt, Active
<1>4. \A id \in ChunkIds :
        /\ table'[id] = Source(req[t]) => table[id] = Source(req[t])
        /\ table[id] = Source(req[t]) /\ DocKey(id) = req[t].doc
              => table'[id] = Source(req[t])
  BY <1>2, <1>3, ForeignStep
<1>5. \A u \in Threads \ {t} : Active(u)' => ~Conflict(req'[u], req'[t])
  BY <1>1, <1>2, StepFrame DEF LoneAt, Active
<1>6. pc'[t] \in {"readIds", "upsert"} /\ ~misled'[t] =>
        \A id \in ChunkIds :
            table'[id] = Source(req'[t]) => DocKey(id) = req'[t].doc
  BY <1>1, <1>2, <1>4 DEF LoneAt
<1>7. \A id \in existing'[t] :
        DocKey(id) = req'[t].doc => table'[id] = Source(req'[t])
  BY <1>1, <1>2, <1>4 DEF LoneAt, TypeOK
<1>8. pc'[t] # "upsert" => existing'[t] = {}
  BY <1>1, <1>2 DEF LoneAt
<1>9. ASSUME wasExact'[t]
      PROVE  /\ \A id \in ChunkIds :
                    table'[id] = Source(req'[t]) <=> id \in Records(req'[t])
             /\ pc'[t] # "delete"
  <2>1. \A id \in ChunkIds :
          table[id] = Source(req[t]) <=> id \in Records(req[t])
    BY <1>1, <1>2, <1>9 DEF LoneAt
  <2>2. \A id \in Records(req[t]) : DocKey(id) = req[t].doc
    BY <1>2, RequestFields, RecordsAreIds DEF Records
  <2>3. QED
    BY <1>1, <1>2, <1>4, <1>9, <2>1, <2>2 DEF LoneAt
<1>10. QED
  BY <1>5, <1>6, <1>7, <1>8, <1>9 DEF LoneAt, Conflict, Source, Records, Active

\* The step of a lone call itself keeps it.
LEMMA LoneUnderItself ==
    ASSUME TypeOK, LoneInv,
           NEW t \in Threads, Step(t) \/ Raise(t), Active(t)', ~overlapped'[t]
    PROVE  LoneAt(t)'
<1>1. /\ req'[t] = req[t] /\ req[t] \in Requests
      /\ wasExact'[t] = wasExact[t]
      /\ \A u \in Threads \ {t} : pc'[u] = pc[u] /\ req'[u] = req[u]
  BY StepFrame DEF Active
<1>2. Active(t) /\ LoneAt(t)
  BY StepFrame DEF LoneInv, Active
<1>3. \A u \in Threads \ {t} : Active(u)' => ~Conflict(req'[u], req'[t])
  BY <1>1, <1>2 DEF LoneAt, Active
<1>4. /\ \A id \in Records(req[t]) : DocKey(id) = req[t].doc
      /\ Records(req[t]) \subseteq ChunkIds
  BY <1>1, RequestFields, RecordsAreIds DEF Records
<1> DEFINE Goal ==
      /\ pc'[t] \in {"readIds", "upsert"} /\ ~misled'[t] =>
            \A id \in ChunkIds :
                table'[id] = Source(req[t]) => DocKey(id) = req[t].doc
      /\ \A id \in existing'[t] :
            DocKey(id) = req[t].doc => table'[id] = Source(req[t])
      /\ pc'[t] # "upsert" => existing'[t] = {}
      /\ wasExact[t] =>
            /\ \A id \in ChunkIds :
                  table'[id] = Source(req[t]) <=> id \in Records(req[t])
            /\ pc'[t] # "delete"
<1>5. ASSUME Validate(t) PROVE Goal
  BY <1>2, <1>5 DEF Validate, Return, Goto, LoneAt, TypeOK, Active
<1>6. ASSUME ReadKeys(t) PROVE Goal
  <2>1. /\ table' = table
        /\ existing' = existing
        /\ pc'[t] = IF Superseded(req[t]) THEN "delete" ELSE NextRead(req[t])
    BY <1>6 DEF ReadKeys, Return, Goto, TypeOK, Active
  <2>2. existing[t] = {}
    BY <1>2, <1>6 DEF LoneAt, ReadKeys
  <2>3. ~Superseded(req[t]) <=>
          \A id \in ChunkIds :
              table[id] = Source(req[t]) => DocKey(id) = req[t].doc
    BY DEF Superseded, DocKeysForSource, ChunkIdsForSource
  <2>4. wasExact[t] => ~Superseded(req[t])
    BY <1>2, <1>4, <2>3 DEF LoneAt
  <2>5. QED
    BY <1>2, <2>1, <2>2, <2>3, <2>4 DEF LoneAt, NextRead
<1>7. ASSUME DeleteBySource(t) PROVE Goal
  <2>1. \A id \in ChunkIds : table'[id] # Source(req[t])
    BY <1>1, <1>7, RequestFields, AbsentAssumption DEF DeleteBySource, TypeOK
  <2>2. existing'[t] = {} /\ ~wasExact[t]
    BY <1>2, <1>7 DEF DeleteBySource, LoneAt
  <2>3. pc'[t] = NextRead(req[t])
    BY <1>7 DEF DeleteBySource, Goto, TypeOK
  <2>4. QED
    BY <2>1, <2>2, <2>3 DEF NextRead
<1>8. ASSUME ReadIds(t) PROVE Goal
  <2>1. table' = table /\ pc'[t] = "upsert" /\ misled' = misled
    BY <1>8 DEF ReadIds, Goto, TypeOK
  <2>2. existing'[t] = ChunkIdsForSource(Source(req[t]))
    BY <1>8 DEF ReadIds, TypeOK
  <2>3. pc[t] = "readIds"
    BY <1>8 DEF ReadIds
  <2>4. QED
    BY <1>2, <2>1, <2>2, <2>3 DEF LoneAt, ChunkIdsForSource
<1>9. ASSUME Unopened(t) PROVE Goal
  <2>1. table' = table /\ existing'[t] = {} /\ pc'[t] \in {"readIds", "upsert"}
    BY <1>9 DEF Unopened, NextRead, TypeOK
  <2>2. pc[t] = "readIds" \/ misled'[t]
    BY <1>9 DEF Unopened, TypeOK
  <2>3. pc[t] = "readIds" => misled'[t] = misled[t]
    BY <1>9 DEF Unopened, TypeOK
  <2>4. QED
    BY <1>2, <2>1, <2>2, <2>3 DEF LoneAt
<1>10. Goal
  BY <1>5, <1>6, <1>7, <1>8, <1>9
     DEF Step, Reject, Upsert, Raise, Return, TypeOK, Active
<1>11. QED
  BY <1>1, <1>3, <1>10 DEF LoneAt, Conflict, Source, Records, Active

\* A call begins lone exactly when nothing active conflicts with it.
LEMMA LoneAtStart ==
    ASSUME TypeOK, LoneInv,
           NEW a \in Threads, NEW r \in Requests, Start(a, r),
           NEW t \in Threads, Active(t)', ~overlapped'[t]
    PROVE  LoneAt(t)'
<1>1. /\ pc[a] = "idle" /\ pc' = [pc EXCEPT ![a] = "validate"]
      /\ req' = [req EXCEPT ![a] = r] /\ table' = table
      /\ existing' = existing /\ misled' = misled
      /\ wasExact' = [wasExact EXCEPT
                          ![a] = ChunkIdsForSource(Source(r)) = Records(r)]
  BY DEF Start, Active
<1>2. overlapped'[t] = IF t = a
        THEN \E v \in Threads \ {a} : Active(v) /\ Conflict(req[v], r)
        ELSE overlapped[t] \/ (Active(t) /\ Conflict(req[t], r))
  BY DEF Start
<1>3. r \in Requests
  BY ArrivalsAssumption
<1>4. CASE t = a
  <2>1. \A u \in Threads \ {t} : Active(u)' => ~Conflict(req'[u], req'[t])
    BY <1>1, <1>2, <1>4 DEF TypeOK, Active
  <2>2. existing'[t] = {}
    BY <1>1, <1>4 DEF LoneInv, Active
  <2>3. wasExact'[t] => \A id \in ChunkIds :
          table'[id] = Source(r) <=> id \in Records(r)
    BY <1>1, <1>4 DEF ChunkIdsForSource, TypeOK
  <2>4. req'[t] = r /\ pc'[t] = "validate"
    BY <1>1, <1>4 DEF TypeOK
  <2>5. QED
    BY <2>1, <2>2, <2>3, <2>4 DEF LoneAt, Conflict, Source, Records, Active
<1>5. CASE t # a
  <2>1. /\ pc'[t] = pc[t] /\ req'[t] = req[t] /\ existing'[t] = existing[t]
        /\ wasExact'[t] = wasExact[t]
    BY <1>1, <1>5 DEF TypeOK
  <2>2. Active(t) /\ LoneAt(t) /\ ~Conflict(req[t], r)
    BY <1>2, <1>5, <2>1 DEF LoneInv, Active, TypeOK
  <2>3. \A u \in Threads \ {t} : Active(u)' => ~Conflict(req'[u], req'[t])
    BY <1>1, <2>1, <2>2 DEF LoneAt, TypeOK, Active, Conflict
  <2>4. QED
    BY <1>1, <2>1, <2>2, <2>3 DEF LoneAt, Conflict, Source, Records, Active
<1>6. QED
  BY <1>4, <1>5

\* Every behaviour keeps what is true of lone calls.
LEMMA LoneInvariant == Calls => []LoneInv
<1>1. Init => LoneInv
  BY DEF Init, LoneInv, Active
<1>2. ASSUME TypeOK, LoneInv, [AnyCall]_vars PROVE LoneInv'
  <2>1. ASSUME NEW a \in Threads, NEW r \in Requests, Start(a, r) PROVE LoneInv'
    <3>1. ASSUME NEW t \in Threads, ~Active(t)' PROVE existing'[t] = {} /\ ~misled'[t]
      BY <1>2, <2>1, <3>1 DEF LoneInv, Start, Active, TypeOK
    <3>2. ASSUME NEW t \in Threads, Active(t)' PROVE result'[t] = "none"
      BY <1>2, <2>1, <3>2 DEF LoneInv, Start, Active, TypeOK
    <3>3. QED
      BY <1>2, <2>1, <3>1, <3>2, LoneAtStart DEF LoneInv, Active
  <2>2. ASSUME NEW a \in Threads, Step(a) \/ Raise(a) PROVE LoneInv'
    <3>1. ASSUME NEW t \in Threads, ~Active(t)' PROVE existing'[t] = {} /\ ~misled'[t]
      BY <1>2, <2>2, <3>1, StepFrame DEF LoneInv, Active
    <3>2. ASSUME NEW t \in Threads, Active(t)' PROVE result'[t] = "none"
      BY <1>2, <2>2, <3>2, StepFrame DEF LoneInv, Active
    <3>3. ASSUME NEW t \in Threads, Active(t)', ~overlapped'[t]
          PROVE  LoneAt(t)'
      BY <1>2, <2>2, <3>3, LoneUnderItself, LoneUnderOthers
    <3>4. QED
      BY <3>1, <3>2, <3>3 DEF LoneInv, Active
  <2>3. CASE UNCHANGED vars
    BY <1>2, <2>3
       DEF vars, LoneInv, LoneAt, Active, Conflict, Source, Records
  <2>4. QED
    BY <1>2, <2>1, <2>2, <2>3 DEF AnyCall
<1>3. QED
  BY <1>1, <1>2, CallsAreTyped, PTL DEF Calls

\* With one chunking configuration, a call that ran alone, was not misled and
\* reports ok leaves its source holding exactly its chunks, whatever the table
\* held before.
LEMMA LoneOkStep ==
    ASSUME NEW size, Sizes = {size}, TypeOK, WholeInv, LoneInv, [AnyCall]_vars,
           NEW t \in Threads, NEW s \in Sources,
           Active(t), ~overlapped[t], ~misled[t], result'[t] = "ok",
           s = Source(req[t])
    PROVE  ChunkIdsForSource(s)' = Records(req[t])
<1>1. LoneAt(t) /\ req[t] \in Requests /\ result[t] = "none"
  BY DEF LoneInv, TypeOK, Active
<1>2. Records(req[t]) = { id \in ChunkIds : DocKey(id) = req[t].doc }
  BY <1>1, IdsOfDocument, RequestFields DEF Records
<1>3. ASSUME ReadKeys(t), table' = table, Unchanged(req[t])
      PROVE  ChunkIdsForSource(s)' = Records(req[t])
  <2>1. \A id \in ChunkIds : table[id] = s => DocKey(id) = req[t].doc
    BY <1>3 DEF Unchanged, DocKeysForSource, ChunkIdsForSource
  <2>2. PICK id \in ChunkIds : table[id] = s /\ DocKey(id) = req[t].doc
    BY <1>3 DEF Unchanged, DocKeysForSource, ChunkIdsForSource
  <2>3. \A j \in Records(req[t]) : table[j] = s
    <3>1. id \in Records(req[t])
      BY <1>2, <2>2
    <3>2. QED
      BY <1>1, <2>2, <3>1, RequestFields
         DEF WholeInv, DocumentIsWhole, Records
  <2>4. QED
    BY <1>2, <1>3, <2>1, <2>3 DEF ChunkIdsForSource
<1>4. ASSUME Upsert(t)
      PROVE  ChunkIdsForSource(s)' = Records(req[t])
  <2>1. \A id \in ChunkIds : table[id] = s => id \in Records(req[t])
    BY <1>1, <1>2, <1>4 DEF LoneAt, Upsert
  <2>2. \A id \in Records(req[t]) \ Embedded(t) : table[id] = s
    BY <1>1, <1>2 DEF LoneAt, Embedded
  <2>3. \A id \in ChunkIds : table'[id] = s <=> id \in Records(req[t])
    BY <1>4, <2>1, <2>2 DEF Upsert, Embedded
  <2>4. QED
    BY <1>2, <2>3 DEF ChunkIdsForSource
<1>5. \/ ReadKeys(t) /\ table' = table /\ Unchanged(req[t])
      \/ Upsert(t)
  <2>1. ASSUME NEW a \in Threads, NEW r \in Requests, Start(a, r) PROVE FALSE
    BY <1>1, <2>1 DEF Start, TypeOK
  <2>2. ASSUME NEW a \in Threads \ {t}, Step(a) \/ Raise(a) PROVE FALSE
    BY <1>1, <2>2, StepFrame
  <2>3. Step(t) \/ Raise(t)
    BY <1>1, <2>1, <2>2 DEF AnyCall, vars
  <2>4. pc'[t] # "idle" => result'[t] = result[t]
    BY <2>3, StepFrame
  <2>5. QED
    BY <1>1, <2>3, <2>4
       DEF Step, Raise, Reject, Validate, ReadKeys, DeleteBySource, ReadIds,
           Unopened, NextRead, Return, Goto, TypeOK
<1>6. QED
  BY <1>3, <1>4, <1>5

LEMMA LoneCallsAreExact ==
    ASSUME NEW size, Sizes = {size}
    PROVE  Calls => LoneOkIsExact
<1>1. TypeOK /\ WholeInv /\ LoneInv /\ [AnyCall]_vars =>
        [\A t \in Threads, s \in Sources :
            /\ Active(t)
            /\ ~overlapped[t] /\ ~misled[t]
            /\ result'[t] = "ok"
            /\ s = Source(req[t])
            => ChunkIdsForSource(s)' = Records(req[t])]_vars
  BY LoneOkStep
<1>2. QED
  BY <1>1, CallsAreTyped, WholeInvariant, LoneInvariant, PTL
     DEF Calls, LoneOkIsExact

\* A lone call whose source already held exactly its chunks writes nothing.
LEMMA LoneCallsAreIdempotent == Calls => LoneReingestIsIdempotent
<1>1. ASSUME TypeOK, LoneInv, [AnyCall]_vars,
             NEW t \in Threads, wasExact[t], ~overlapped[t], pc'[t] # pc[t]
      PROVE  table' = table
  <2>1. ASSUME NEW a \in Threads, NEW r \in Requests, Start(a, r)
        PROVE  table' = table
    BY <2>1 DEF Start
  <2>2. ASSUME NEW a \in Threads \ {t}, Step(a) \/ Raise(a) PROVE FALSE
    BY <1>1, <2>2, StepFrame
  <2>3. ASSUME Step(t) \/ Raise(t) PROVE table' = table
    <3>1. LoneAt(t)
      BY <1>1, <2>3, StepFrame DEF LoneInv, Active
    <3>2. ~DeleteBySource(t)
      BY <1>1, <3>1 DEF LoneAt, DeleteBySource
    <3>3. ASSUME Upsert(t) PROVE table' = table
      <4>1. \A id \in Embedded(t) : id \in ChunkIds => table[id] = Source(req[t])
        BY <1>1, <3>1 DEF LoneAt, Embedded
      <4>2. \A id \in ChunkIds :
              (IF id \in Embedded(t) THEN Source(req[t]) ELSE table[id]) = table[id]
        BY <4>1
      <4>3. table' = [id \in ChunkIds |-> table[id]]
        BY <3>3, <4>2 DEF Upsert
      <4>4. QED
        BY <1>1, <4>3 DEF TypeOK
    <3>4. QED
      BY <2>3, <3>2, <3>3 DEF Step, Raise, Reject, Validate, ReadKeys, ReadIds, Unopened
  <2>4. QED
    BY <1>1, <2>1, <2>2, <2>3 DEF AnyCall, vars
<1>2. TypeOK /\ LoneInv /\ [AnyCall]_vars =>
        [\A t \in Threads :
            wasExact[t] /\ ~overlapped[t] /\ pc'[t] # pc[t]
                => table' = table]_vars
  BY <1>1
<1>3. QED
  BY <1>2, CallsAreTyped, LoneInvariant, PTL DEF Calls, LoneReingestIsIdempotent

-----------------------------------------------------------------------------
(* Ingestion implements the catalog.                                       *)

\* A document that has chunks is found under exactly the source its rows carry.
LEMMA FoundIsSource ==
    ASSUME NEW size, Sizes = {size}, DocumentIsWhole,
           NEW id \in ChunkIds
    PROVE  Found[DocKey(id)] = {table[id]}
<1>1. PICK d \in Docs : id \in BuildChunkRecords(d, size)
  BY DEF ChunkIds
<1>2. DocKey(id) = d
  BY <1>1, RecordsAreIds
<1>3. BuildChunkRecords(d, size) = { j \in ChunkIds : DocKey(j) = d }
  BY IdsOfDocument
<1>4. \A j \in BuildChunkRecords(d, size) : table[j] = table[id]
  BY <1>1 DEF DocumentIsWhole
<1>5. d \in Indexed
  BY <1>2 DEF Indexed
<1>6. Found[d] = { table[j] : j \in { k \in ChunkIds : DocKey(k) = d } }
  BY <1>5 DEF Found
<1>7. QED
  BY <1>1, <1>2, <1>3, <1>4, <1>6

\* The same of the next state.
LEMMA FoundIsSourceNext ==
    ASSUME NEW size, Sizes = {size}, DocumentIsWhole',
           NEW id \in ChunkIds
    PROVE  Found'[DocKey(id)] = {table'[id]}
<1>1. PICK d \in Docs : id \in BuildChunkRecords(d, size)
  BY DEF ChunkIds
<1>2. DocKey(id) = d
  BY <1>1, RecordsAreIds
<1>3. BuildChunkRecords(d, size) = { j \in ChunkIds : DocKey(j) = d }
  BY IdsOfDocument
<1>4. \A j \in BuildChunkRecords(d, size) : table'[j] = table'[id]
  BY <1>1 DEF DocumentIsWhole
<1>5. d \in Indexed
  BY <1>2 DEF Indexed
<1>6. Found'[d] = { table'[j] : j \in { k \in ChunkIds : DocKey(k) = d } }
  BY <1>5 DEF Found
<1>7. QED
  BY <1>1, <1>2, <1>3, <1>4, <1>6

LEMMA FoundExtends ==
    /\ Found = [d \in Indexed |-> Found[d]]
    /\ Found' = [d \in Indexed |-> Found'[d]]
BY DEF Found

\* A delete is a Drop.
LEMMA DeleteIsDrop ==
    ASSUME NEW size, Sizes = {size}, TypeOK, DocumentIsWhole, DocumentIsWhole',
           NEW t \in Threads, DeleteBySource(t)
    PROVE  AsCatalog!Drop(Source(req[t]))
<1>1. Source(req[t]) \in Sources /\ Source(req[t]) # Absent
  BY RequestFields, AbsentAssumption DEF DeleteBySource, TypeOK, Active
<1>2. ASSUME NEW d \in Indexed
      PROVE  Found'[d] = IF Found[d] = {Source(req[t])} THEN {Absent} ELSE Found[d]
  <2>1. PICK id \in ChunkIds : DocKey(id) = d
    BY DEF Indexed
  <2>2. Found[d] = {table[id]} /\ Found'[d] = {table'[id]}
    BY <2>1, FoundIsSource, FoundIsSourceNext
  <2>3. table'[id] = IF table[id] = Source(req[t]) THEN Absent ELSE table[id]
    BY DEF DeleteBySource
  <2>4. QED
    BY <2>2, <2>3
<1>3. Found' = [d \in Indexed |->
                  IF Found[d] = {Source(req[t])} THEN {Absent} ELSE Found[d]]
  BY <1>2, FoundExtends
<1>4. QED
  BY <1>3 DEF AsCatalog!Drop

\* An upsert that writes anything is a Take.
LEMMA UpsertIsTake ==
    ASSUME NEW size, Sizes = {size}, TypeOK, WholeInv,
           DocumentIsWhole', NEW t \in Threads, Upsert(t), Embedded(t) # {}
    PROVE  \E d \in Indexed : AsCatalog!Take(d, Source(req[t]))
<1> DEFINE r == req[t]
<1>1. r \in Requests /\ pc[t] = "upsert"
  BY DEF Upsert, TypeOK, Active
<1>2. Records(r) = { id \in ChunkIds : DocKey(id) = r.doc }
  BY <1>1, IdsOfDocument, RequestFields DEF Records
<1>3. PICK e \in ChunkIds : e \in Embedded(t) /\ DocKey(e) = r.doc
  BY <1>2 DEF Embedded
<1>4. r.doc \in Indexed
  BY <1>3 DEF Indexed
<1>5. Embedded(t) = Records(r)
  <2>1. \A i, j \in Records(r) : i \in existing[t] <=> j \in existing[t]
    BY <1>1, RequestFields DEF WholeInv, WholeIn, Records
  <2>2. QED
    BY <1>3, <2>1 DEF Embedded
<1>6. ASSUME NEW d \in Indexed
      PROVE  Found'[d] = IF d = r.doc THEN {Source(r)} ELSE Found[d]
  <2>1. PICK id \in ChunkIds : DocKey(id) = d
    BY DEF Indexed
  <2>2. Found[d] = {table[id]} /\ Found'[d] = {table'[id]}
    BY <2>1, FoundIsSource, FoundIsSourceNext DEF WholeInv
  <2>3. table'[id] = IF id \in Embedded(t) THEN Source(r) ELSE table[id]
    BY DEF Upsert
  <2>4. QED
    BY <1>2, <1>5, <2>1, <2>2, <2>3
<1>7. Found' = [Found EXCEPT ![r.doc] = {Source(r)}]
  BY <1>4, <1>6, FoundExtends
<1>8. QED
  BY <1>4, <1>7 DEF AsCatalog!Take

\* With one chunking configuration ingestion implements the catalog, however calls
\* overlap, fail or take the store for an empty one.
LEMMA CallsImplementCatalog ==
    ASSUME NEW size, Sizes = {size}
    PROVE  Calls => ImplementsCatalog
<1>1. Init => AsCatalog!Init
  <2>1. SUFFICES ASSUME Init, NEW d \in Indexed
                 PROVE  Found[d] \in { {s} : s \in Sources \cup {Absent} }
    BY <2>1, FoundExtends DEF AsCatalog!Init
  <2>2. PICK id \in ChunkIds : DocKey(id) = d
    BY DEF Indexed
  <2>3. Found[d] = {table[id]} /\ table[id] \in Sources \cup {Absent}
    BY <2>1, <2>2, FoundIsSource DEF Init
  <2>4. QED
    BY <2>3
<1>2. ASSUME TypeOK, WholeInv, WholeInv', [AnyCall]_vars
      PROVE  [AsCatalog!Next]_Found
  <2>1. ASSUME table' = table PROVE Found' = Found
    BY <2>1 DEF Found
  <2>2. ASSUME NEW t \in Threads, DeleteBySource(t) PROVE AsCatalog!Next
    <3>1. Source(req[t]) \in Sources
      BY <1>2, <2>2, RequestFields DEF DeleteBySource, TypeOK, Active
    <3>2. AsCatalog!Drop(Source(req[t]))
      BY <1>2, <2>2, DeleteIsDrop DEF WholeInv
    <3>3. QED
      BY <3>1, <3>2 DEF AsCatalog!Next
  <2>3. ASSUME NEW t \in Threads, Upsert(t) PROVE [AsCatalog!Next]_Found
    <3>1. Source(req[t]) \in Sources
      BY <1>2, <2>3, RequestFields DEF Upsert, TypeOK, Active
    <3>2. CASE Embedded(t) = {}
      <4>1. table' = [id \in ChunkIds |-> table[id]]
        BY <2>3, <3>2 DEF Upsert
      <4>2. table' = table
        BY <1>2, <4>1 DEF TypeOK
      <4>3. QED
        BY <2>1, <4>2
    <3>3. CASE Embedded(t) # {}
      <4>1. \E d \in Indexed : AsCatalog!Take(d, Source(req[t]))
        BY <1>2, <2>3, <3>3, UpsertIsTake DEF WholeInv
      <4>2. QED
        BY <3>1, <4>1 DEF AsCatalog!Next
    <3>4. QED
      BY <3>2, <3>3
  <2>4. QED
    BY <1>2, <2>1, <2>2, <2>3
       DEF AnyCall, Step, Start, Reject, Validate, ReadKeys, ReadIds, Unopened,
           Raise, vars
<1>3. QED
  BY <1>1, <1>2, CallsAreTyped, WholeInvariant, PTL
     DEF Calls, ImplementsCatalog, AsCatalog!Spec

-----------------------------------------------------------------------------
(* Single calls and batches are calls.                                     *)

LEMMA SpecMakesCalls == Spec => Calls
<1>1. [Next]_vars => [AnyCall]_vars
  BY ArrivalsAssumption DEF Next, AnyCall, vars
<1>2. QED
  BY <1>1, PTL DEF Spec, Calls

\* What a batch under way is made of, and how far it has come.
BatchTyped ==
    /\ batch \in [Threads -> BatchType \cup {NoBatch}]
    /\ rows \in [Threads -> Seq({"ok", "failed", "empty"})]
    /\ reply \in [Threads -> {"none", "refused", "answered", "error"}]
    /\ disturbed \in [Threads -> BOOLEAN]

\* A file of a batch leads to a call that is well formed.
LEMMA FilesAreRequests ==
    ASSUME NEW b \in BatchType, NEW f \in Filenames \X Docs
    PROVE  FileRequest(b, f) \in Requests
<1>1. f[1] \in Filenames /\ f[2] \in Docs /\ NameOf(b, f) \in Filenames
  BY NamesAssumption DEF NameOf
<1>2. QED
  BY <1>1, NamesAssumption DEF FileRequest, Requests

LEMMA UpcomingIsFile ==
    ASSUME BatchTyped, NEW t \in Threads, Working(t), Len(rows[t]) < Len(batch[t].files)
    PROVE  /\ batch[t] \in BatchType
           /\ Len(rows[t]) + 1 \in DOMAIN batch[t].files
           /\ Upcoming(t) \in Filenames \X Docs
           /\ FileRequest(batch[t], Upcoming(t)) \in Requests
<1>1. batch[t] \in BatchType /\ batch[t].files \in Seq(Filenames \X Docs)
  BY DEF BatchTyped, Working, BatchType
<1>2. Len(rows[t]) \in Nat
  BY DEF BatchTyped
<1>3. Len(rows[t]) + 1 \in DOMAIN batch[t].files
  BY <1>1, <1>2
<1>4. Upcoming(t) \in Filenames \X Docs
  BY <1>1, <1>3 DEF Upcoming
<1>5. QED
  BY <1>1, <1>3, <1>4, FilesAreRequests

-----------------------------------------------------------------------------
(* Batches.                                                                *)

\* What is known of a thread between the steps of its batch: it is at the call of
\* the next file, it has a row for each file so far, and each row says of its
\* file what the route and the loader say.
Underway(t) ==
    /\ Active(t) => Working(t)
    /\ Working(t) => reply[t] = "none" /\ Len(rows[t]) <= Len(batch[t].files)
    /\ Active(t) =>
          /\ Len(rows[t]) < Len(batch[t].files)
          /\ req[t] = FileRequest(batch[t], Upcoming(t))
          /\ ~TurnedAway(batch[t], Upcoming(t))
          /\ pc[t] # "validate" => Accepted(req[t]) /\ Records(req[t]) # {}

RowIsRight(b, i, status) ==
    LET r == FileRequest(b, b.files[i]) IN
    status = "ok" <=> ~TurnedAway(b, b.files[i]) /\ Accepted(r) /\ Records(r) # {}

UnderwayInv ==
    /\ BatchTyped
    /\ \A t \in Threads : Underway(t)
    /\ \A t \in Threads : Working(t) =>
          \A i \in DOMAIN rows[t] : RowIsRight(batch[t], i, rows[t][i])

\* A step of one thread leaves the batches of the others where they are.
LEMMA OthersUnderway ==
    ASSUME UnderwayInv, BatchTyped', NEW a \in Threads, Underway(a)',
           Working(a)' => \A i \in DOMAIN rows'[a] : RowIsRight(batch'[a], i, rows'[a][i]),
           \A u \in Threads \ {a} :
              /\ pc'[u] = pc[u] /\ req'[u] = req[u] /\ batch'[u] = batch[u]
              /\ rows'[u] = rows[u] /\ reply'[u] = reply[u]
    PROVE  UnderwayInv'
<1>1. ASSUME NEW u \in Threads \ {a} PROVE Underway(u)'
  BY DEF UnderwayInv, Underway, Working, Active, Upcoming
<1>2. ASSUME NEW u \in Threads \ {a}, Working(u)', NEW i \in DOMAIN rows'[u]
      PROVE  RowIsRight(batch'[u], i, rows'[u][i])
  BY <1>2 DEF UnderwayInv, Working
<1>3. QED
  BY <1>1, <1>2 DEF UnderwayInv

\* A call past its validation is of a file that can be stored; it ends in ok
\* exactly when its file can.
LEMMA StepOutcome ==
    ASSUME TypeOK, NEW a \in Threads, Step(a),
           pc[a] # "validate" => Accepted(req[a]) /\ Records(req[a]) # {}
    PROVE  /\ pc'[a] # "idle" => pc'[a] # "validate" /\ Accepted(req[a]) /\ Records(req[a]) # {}
           /\ pc'[a] = "idle" =>
                /\ result'[a] \in {"ok", "failed", "empty"}
                /\ result'[a] = "ok" <=> Accepted(req[a]) /\ Records(req[a]) # {}
<1> USE DEF TypeOK, Return, Goto
<1>1. CASE Reject(a)         BY <1>1 DEF Reject, Accepted
<1>2. CASE Validate(a)       BY <1>2 DEF Validate
<1>3. CASE ReadKeys(a)       BY <1>3 DEF ReadKeys, NextRead
<1>4. CASE DeleteBySource(a) BY <1>4 DEF DeleteBySource, NextRead
<1>5. CASE ReadIds(a)        BY <1>5 DEF ReadIds
<1>6. CASE Upsert(a)         BY <1>6 DEF Upsert
<1>7. CASE Unopened(a)       BY <1>7 DEF Unopened, NextRead
<1>8. QED
  BY <1>1, <1>2, <1>3, <1>4, <1>5, <1>6, <1>7 DEF Step

\* One more row, for the upcoming file.
LEMMA OneMoreRow ==
    ASSUME UnderwayInv, NEW a \in Threads, Working(a), Len(rows[a]) < Len(batch[a].files),
           NEW status \in {"ok", "failed", "empty"}, AddRow(a, status), batch' = batch,
           RowIsRight(batch[a], Len(rows[a]) + 1, status)
    PROVE  /\ rows' \in [Threads -> Seq({"ok", "failed", "empty"})]
           /\ Len(rows'[a]) = Len(rows[a]) + 1
           /\ \A u \in Threads \ {a} : rows'[u] = rows[u]
           /\ \A i \in DOMAIN rows'[a] : RowIsRight(batch'[a], i, rows'[a][i])
<1>1. rows[a] \in Seq({"ok", "failed", "empty"}) /\ rows'[a] = Append(rows[a], status)
  BY DEF UnderwayInv, BatchTyped, AddRow
<1>2. /\ rows' \in [Threads -> Seq({"ok", "failed", "empty"})]
      /\ \A u \in Threads \ {a} : rows'[u] = rows[u]
  BY <1>1 DEF UnderwayInv, BatchTyped, AddRow
<1>3. /\ Len(rows'[a]) = Len(rows[a]) + 1
      /\ \A i \in DOMAIN rows'[a] :
            IF i = Len(rows[a]) + 1 THEN rows'[a][i] = status
            ELSE i \in DOMAIN rows[a] /\ rows'[a][i] = rows[a][i]
  BY <1>1
<1>4. \A i \in DOMAIN rows[a] : RowIsRight(batch[a], i, rows[a][i])
  BY DEF UnderwayInv
<1>5. QED
  BY <1>2, <1>3, <1>4

LEMMA UnderwayStep ==
    ASSUME TypeOK, UnderwayInv, [BatchNext]_allVars
    PROVE  UnderwayInv'
<1> USE DEF BatchTyped
<1>1. ASSUME NEW a \in Threads, NEW b \in Batches, Begin(a, b) PROVE UnderwayInv'
  <2>1. Considered(b) \in BatchType /\ Considered(b) # NoBatch
    BY BatchesAssumption
  <2>2. BatchTyped'
    <3>1. disturbed' \in [Threads -> BOOLEAN]
      <4>1. disturbed' = [u \in Threads |->
              IF u = a THEN \E v \in Threads \ {a} : Working(v) ELSE disturbed[u] \/ Working(u)]
        BY <1>1 DEF Begin
      <4>2. \A u \in Threads : disturbed[u] \in BOOLEAN
        BY DEF UnderwayInv
      <4>3. QED
        BY <4>1, <4>2 DEF Working
    <3>2. batch' \in [Threads -> BatchType \cup {NoBatch}]
      BY <1>1, <2>1 DEF Begin, UnderwayInv
    <3>3. rows' \in [Threads -> Seq({"ok", "failed", "empty"})]
      BY <1>1 DEF Begin, UnderwayInv
    <3>4. reply' \in [Threads -> {"none", "refused", "answered", "error"}]
      BY <1>1 DEF Begin, UnderwayInv
    <3>5. QED
      BY <3>1, <3>2, <3>3, <3>4
  <2>3. ~Active(a)' /\ Working(a)' /\ rows'[a] = <<>> /\ reply'[a] = "none"
    BY <1>1, <2>1 DEF Begin, UnderwayInv, Underway, Active, Working, vars
  <2>4. Len(rows'[a]) = 0 /\ DOMAIN rows'[a] = {} /\ Len(batch'[a].files) \in Nat
    BY <1>1, <2>1, <2>3 DEF Begin, UnderwayInv, BatchType
  <2>5. Underway(a)'
    BY <2>3, <2>4 DEF Underway
  <2>6. QED
    BY <1>1, <2>2, <2>4, <2>5, OthersUnderway DEF Begin, UnderwayInv, vars
<1>2. ASSUME NEW a \in Threads, NEW b \in Batches, Refuse(a, b) PROVE UnderwayInv'
  <2>1. BatchTyped' /\ ~Working(a)' /\ ~Active(a)'
    BY <1>2 DEF Refuse, UnderwayInv, Underway, Active, Working, vars
  <2>2. QED
    BY <1>2, <2>1, OthersUnderway DEF Refuse, UnderwayInv, Underway, vars
<1>3. ASSUME NEW a \in Threads, Screen(a) PROVE UnderwayInv'
  <2>1. Working(a) /\ Len(rows[a]) < Len(batch[a].files) /\ ~Active(a) /\ reply[a] = "none"
    <3>1. Len(batch[a].files) \in Nat /\ Len(rows[a]) \in Nat
      BY <1>3 DEF Screen, UnderwayInv, Working, BatchType
    <3>2. QED
      BY <1>3, <3>1 DEF Screen, Done, UnderwayInv, Underway
  <2>2. RowIsRight(batch[a], Len(rows[a]) + 1, "failed")
    BY <1>3 DEF Screen, RowIsRight, Upcoming
  <2>3. /\ rows' \in [Threads -> Seq({"ok", "failed", "empty"})]
        /\ Len(rows'[a]) = Len(rows[a]) + 1
        /\ \A u \in Threads \ {a} : rows'[u] = rows[u]
        /\ \A i \in DOMAIN rows'[a] : RowIsRight(batch'[a], i, rows'[a][i])
    BY <1>3, <2>1, <2>2, OneMoreRow DEF Screen
  <2>4. Len(rows'[a]) <= Len(batch[a].files)
    <3>1. Len(batch[a].files) \in Nat /\ Len(rows[a]) \in Nat
      BY <1>3 DEF Screen, UnderwayInv, Working, BatchType
    <3>2. QED
      BY <2>1, <2>3, <3>1
  <2>5. Underway(a)'
    BY <1>3, <2>1, <2>4 DEF Screen, Underway, Active, Working, vars
  <2>6. BatchTyped'
    BY <1>3, <2>3 DEF Screen, UnderwayInv
  <2>7. QED
    BY <1>3, <2>3, <2>5, <2>6, OthersUnderway DEF Screen, vars
<1>4. ASSUME NEW a \in Threads, Call(a) PROVE UnderwayInv'
  <2>1. Working(a) /\ Len(rows[a]) < Len(batch[a].files) /\ reply[a] = "none"
    <3>1. Len(batch[a].files) \in Nat /\ Len(rows[a]) \in Nat
      BY <1>4 DEF Call, UnderwayInv, Working, BatchType
    <3>2. QED
      BY <1>4, <3>1 DEF Call, Done, UnderwayInv, Underway
  <2>2. pc'[a] = "validate" /\ req'[a] = FileRequest(batch[a], Upcoming(a))
    BY <1>4 DEF Call, Start, TypeOK
  <2>3. Underway(a)'
    BY <1>4, <2>1, <2>2 DEF Call, batchVars, Underway, Working, Upcoming, UnderwayInv
  <2>4. \A u \in Threads \ {a} : pc'[u] = pc[u] /\ req'[u] = req[u]
    BY <1>4 DEF Call, Start, TypeOK
  <2>5. QED
    BY <1>4, <2>3, <2>4, OthersUnderway DEF Call, batchVars, UnderwayInv, Working
<1>5. ASSUME NEW a \in Threads, Proceed(a) PROVE UnderwayInv'
  <2>1. /\ Step(a) /\ Active(a) /\ batch' = batch /\ reply' = reply
        /\ disturbed' \in [Threads -> BOOLEAN]
        /\ Underway(a) /\ req[a] = FileRequest(batch[a], Upcoming(a)) /\ Working(a)
        /\ Len(rows[a]) < Len(batch[a].files) /\ ~TurnedAway(batch[a], Upcoming(a))
    BY <1>5, StepFrame, TypeStep DEF Proceed, UnderwayInv, Underway, Active, AnyCall,
                                     TypeOK
  <2>2. /\ pc'[a] # "idle" => pc'[a] # "validate" /\ Accepted(req[a]) /\ Records(req[a]) # {}
        /\ pc'[a] = "idle" =>
              /\ result'[a] \in {"ok", "failed", "empty"}
              /\ result'[a] = "ok" <=> Accepted(req[a]) /\ Records(req[a]) # {}
    BY <2>1, StepOutcome DEF Underway
  <2>3. \A u \in Threads \ {a} : pc'[u] = pc[u] /\ req'[u] = req[u]
    BY <2>1, StepFrame
  <2>4. CASE pc'[a] # "idle"
    <3>1. rows' = rows /\ req'[a] = req[a]
      BY <1>5, <2>1, <2>4, StepFrame DEF Proceed
    <3>2. Underway(a)'
      BY <2>1, <2>2, <2>4, <3>1 DEF Underway, Working, Upcoming, Active
    <3>3. QED
      BY <2>1, <2>3, <3>1, <3>2, OthersUnderway DEF UnderwayInv, Working
  <2>5. CASE pc'[a] = "idle"
    <3>1. AddRow(a, result'[a])
      BY <1>5, <2>5 DEF Proceed
    <3>2. RowIsRight(batch[a], Len(rows[a]) + 1, result'[a])
      BY <2>1, <2>2, <2>5 DEF RowIsRight, Upcoming
    <3>3. /\ rows' \in [Threads -> Seq({"ok", "failed", "empty"})]
          /\ Len(rows'[a]) = Len(rows[a]) + 1
          /\ \A u \in Threads \ {a} : rows'[u] = rows[u]
          /\ \A i \in DOMAIN rows'[a] : RowIsRight(batch'[a], i, rows'[a][i])
      BY <2>1, <2>2, <2>5, <3>1, <3>2, OneMoreRow
    <3>4. Len(rows'[a]) <= Len(batch[a].files)
      <4>1. Len(batch[a].files) \in Nat /\ Len(rows[a]) \in Nat
        BY <2>1 DEF UnderwayInv, Working, BatchType
      <4>2. QED
        BY <2>1, <3>3, <4>1
    <3>5. Underway(a)'
      BY <2>1, <2>5, <3>4 DEF Underway, Working, Active
    <3>6. BatchTyped'
      BY <2>1, <3>3 DEF UnderwayInv
    <3>7. QED
      BY <2>1, <2>3, <3>3, <3>5, <3>6, OthersUnderway
  <2>6. QED
    BY <2>4, <2>5
<1>6. ASSUME NEW a \in Threads, NEW answer \in {"answered", "error"}, End(a, answer),
             ~Active(a)', \A u \in Threads \ {a} : pc'[u] = pc[u] /\ req'[u] = req[u]
      PROVE  UnderwayInv'
  <2>1. BatchTyped' /\ ~Working(a)'
    BY <1>6 DEF End, UnderwayInv, Working
  <2>2. QED
    BY <1>6, <2>1, OthersUnderway DEF End, UnderwayInv, Underway
<1>7. ASSUME NEW a \in Threads, Fail(a) PROVE UnderwayInv'
  <2>1. ~Active(a)' /\ \A u \in Threads \ {a} : pc'[u] = pc[u] /\ req'[u] = req[u]
    BY <1>7 DEF Fail, Raise, Return, TypeOK, Active
  <2>2. QED
    BY <1>6, <1>7, <2>1 DEF Fail
<1>8. ASSUME NEW a \in Threads, Escape(a) \/ Answer(a) PROVE UnderwayInv'
  BY <1>6, <1>8 DEF Escape, Answer, vars, Active
<1>9. CASE UNCHANGED allVars
  BY <1>9 DEF allVars, vars, batchVars, UnderwayInv, Underway, Working, Active, Upcoming
<1>10. QED
  BY <1>1, <1>2, <1>3, <1>4, <1>5, <1>7, <1>8, <1>9 DEF BatchNext

\* A step of a batch is a step of a call, or no call moves.
LEMMA BatchStepIsCall ==
    ASSUME UnderwayInv, [BatchNext]_allVars
    PROVE  [AnyCall]_vars
<1>1. ASSUME NEW a \in Threads, Call(a) PROVE AnyCall
  <2>1. Working(a) /\ Len(rows[a]) < Len(batch[a].files)
    <3>1. Len(batch[a].files) \in Nat /\ Len(rows[a]) \in Nat
      BY <1>1 DEF Call, UnderwayInv, BatchTyped, Working, BatchType
    <3>2. QED
      BY <1>1, <3>1 DEF Call, Done, UnderwayInv, Underway
  <2>2. FileRequest(batch[a], Upcoming(a)) \in Requests
    BY <2>1, UpcomingIsFile DEF UnderwayInv
  <2>3. QED
    BY <1>1, <2>2 DEF Call, AnyCall
<1>2. ASSUME NEW a \in Threads, NEW b \in Batches,
             Begin(a, b) \/ Refuse(a, b) \/ Screen(a) \/ Escape(a) \/ Answer(a)
      PROVE  UNCHANGED vars
  BY <1>2 DEF Begin, Refuse, Screen, Escape, Answer
<1>3. ASSUME NEW a \in Threads, Screen(a) \/ Escape(a) \/ Answer(a)
      PROVE  UNCHANGED vars
  BY <1>3 DEF Screen, Escape, Answer
<1>4. ASSUME NEW a \in Threads, Proceed(a) \/ Fail(a) PROVE AnyCall
  BY <1>4 DEF Proceed, Fail, AnyCall
<1>5. QED
  BY <1>1, <1>2, <1>3, <1>4 DEF BatchNext, allVars

\* Batches are calls, and what is known of a batch under way is always so.
LEMMA BatchesAreTyped == BatchSpec => [](TypeOK /\ UnderwayInv)
<1>1. Init => TypeOK
  BY DEF Init, TypeOK, Active, Steps
<1>2. BatchInit => UnderwayInv
  BY DEF BatchInit, BatchesIdle, Init, UnderwayInv, BatchTyped, Underway,
         Working, Active
<1>3. TypeOK /\ UnderwayInv /\ [BatchNext]_allVars => TypeOK' /\ UnderwayInv'
  BY BatchStepIsCall, TypeStep, UnderwayStep
<1>4. QED
  BY <1>1, <1>2, <1>3, PTL DEF BatchSpec, BatchInit

LEMMA BatchMakesCalls == BatchSpec => Calls
<1>1. UnderwayInv /\ [BatchNext]_allVars => [AnyCall]_vars
  BY BatchStepIsCall
<1>2. QED
  BY <1>1, BatchesAreTyped, PTL DEF BatchSpec, BatchInit, Calls

-----------------------------------------------------------------------------
(* Answers are true.                                                       *)

Stored(r) == ChunkIdsForSource(Source(r)) = Records(r)

\* What is known of a batch that no other disturbed: no other batch is under way,
\* so no call overlaps its own, and its ok files, when they do not replace each
\* other, are stored exactly.
Alone(t) ==
    /\ \A u \in Threads \ {t} : ~Working(u)
    /\ Active(t) => ~overlapped[t] /\ ~misled[t]
    /\ Distinct(batch[t]) =>
          \A i \in DOMAIN rows[t] :
             rows[t][i] = "ok" => Stored(FileRequest(batch[t], batch[t].files[i]))

AloneInv == \A t \in Threads : Working(t) /\ ~disturbed[t] => Alone(t)

\* A call leaves exact what it does not conflict with.
LEMMA StoredIsKept ==
    ASSUME TypeOK, NEW a \in Threads, Step(a) \/ Raise(a),
           NEW r \in Requests, ~Conflict(req[a], r), Stored(r)
    PROVE  Stored(r)'
<1>1. \A id \in ChunkIds :
        /\ table'[id] = Source(r) => table[id] = Source(r)
        /\ table[id] = Source(r) /\ DocKey(id) = r.doc => table'[id] = Source(r)
  BY ForeignStep
<1>2. /\ Records(r) \subseteq ChunkIds
      /\ \A id \in Records(r) : DocKey(id) = r.doc
  BY RequestFields, RecordsAreIds DEF Records
<1>3. QED
  BY <1>1, <1>2 DEF Stored, ChunkIdsForSource

\* The files of a distinct batch do not conflict.
LEMMA FilesApart ==
    ASSUME NEW b \in BatchType, Distinct(b),
           NEW i \in DOMAIN b.files, NEW j \in DOMAIN b.files, i # j
    PROVE  /\ ~Conflict(FileRequest(b, b.files[i]), FileRequest(b, b.files[j]))
           /\ FileRequest(b, b.files[j]) \in Requests
<1>1. b.files[i] \in Filenames \X Docs /\ b.files[j] \in Filenames \X Docs
  BY DEF BatchType
<1>2. FileRequest(b, b.files[j]) \in Requests
  BY <1>1, FilesAreRequests
<1>3. QED
  BY <1>2 DEF Distinct, Conflict, FileRequest

\* The step of a call of an undisturbed batch keeps its rows true.
LEMMA AloneProceeds ==
    ASSUME NEW size, Sizes = {size}, TypeOK, UnderwayInv, UnderwayInv', WholeInv, LoneInv,
           NEW t \in Threads, Proceed(t), Alone(t), Distinct(batch[t]),
           NEW i \in DOMAIN rows'[t], rows'[t][i] = "ok"
    PROVE  Stored(FileRequest(batch[t], batch[t].files[i]))'
<1>1. /\ Step(t) /\ Active(t) /\ Working(t) /\ ~overlapped[t] /\ ~misled[t] /\ batch' = batch
      /\ req[t] = FileRequest(batch[t], Upcoming(t)) /\ req[t] \in Requests
      /\ Len(rows[t]) < Len(batch[t].files) /\ batch[t] \in BatchType
      /\ Len(rows[t]) + 1 \in DOMAIN batch[t].files
  BY StepFrame, UpcomingIsFile DEF Proceed, UnderwayInv, Underway, Active, Alone
<1>2. rows[t] \in Seq({"ok", "failed", "empty"})
  BY DEF UnderwayInv, BatchTyped
<1>3. ASSUME i \in DOMAIN rows[t], rows[t][i] = "ok"
      PROVE  Stored(FileRequest(batch[t], batch[t].files[i]))'
  <2>1. i # Len(rows[t]) + 1 /\ i \in DOMAIN batch[t].files
    <3>1. Len(batch[t].files) \in Nat /\ DOMAIN batch[t].files = 1 .. Len(batch[t].files)
      BY <1>1 DEF BatchType
    <3>2. QED
      BY <1>1, <1>2, <1>3, <3>1
  <2>2. PICK r : r = FileRequest(batch[t], batch[t].files[i])
    OBVIOUS
  <2>3. ~Conflict(req[t], r) /\ r \in Requests
    BY <1>1, <2>1, <2>2, FilesApart DEF Upcoming
  <2>4. Stored(r)
    BY <1>3, <2>2 DEF Alone
  <2>5. Stored(r)'
    BY <1>1, <2>3, <2>4, StoredIsKept
  <2>6. QED
    BY <1>1, <2>2, <2>5 DEF Stored
<1>4. CASE rows' = rows
  BY <1>3, <1>4
<1>5. CASE AddRow(t, result'[t])
  <2>1. rows'[t] = Append(rows[t], result'[t])
    BY <1>2, <1>5 DEF AddRow, UnderwayInv, BatchTyped
  <2>2. \/ i \in DOMAIN rows[t] /\ rows[t][i] = "ok"
        \/ i = Len(rows[t]) + 1 /\ result'[t] = "ok"
    BY <1>2, <2>1
  <2>3. ASSUME i = Len(rows[t]) + 1, result'[t] = "ok"
        PROVE  Stored(FileRequest(batch[t], batch[t].files[i]))'
    <3>1. PICK r : r = req[t]
      OBVIOUS
    <3>2. Source(r) \in Sources
      BY <1>1, <3>1, RequestFields
    <3>3. AnyCall
      BY <1>1 DEF AnyCall
    <3>4. ChunkIdsForSource(Source(r))' = Records(r)
      BY <1>1, <2>3, <3>1, <3>2, <3>3, LoneOkStep
    <3>5. r = FileRequest(batch'[t], batch'[t].files[i])
      BY <1>1, <2>3, <3>1 DEF Upcoming
    <3>6. QED
      BY <3>4, <3>5 DEF Stored
  <2>4. QED
    BY <1>3, <2>2, <2>3
<1>6. QED
  BY <1>4, <1>5 DEF Proceed

LEMMA AloneStep ==
    ASSUME NEW size, Sizes = {size}, TypeOK, UnderwayInv, UnderwayInv', WholeInv, LoneInv,
           AloneInv, [BatchNext]_allVars
    PROVE  AloneInv'
<1> SUFFICES ASSUME NEW t \in Threads, Working(t)', ~disturbed'[t]
             PROVE  Alone(t)'
  BY DEF AloneInv
<1>1. ASSUME UNCHANGED <<vars, batch, rows, disturbed>> PROVE Alone(t)'
  BY <1>1 DEF AloneInv, Alone, Working, Active, Stored, ChunkIdsForSource, vars
<1>2. ASSUME NEW a \in Threads, NEW b \in Batches, Begin(a, b) PROVE Alone(t)'
  <2>1. t = a
    BY <1>2 DEF Begin, Working, UnderwayInv, BatchTyped
  <2>2. \A u \in Threads \ {t} : ~Working(u)'
    BY <1>2, <2>1 DEF Begin, Working, UnderwayInv, BatchTyped
  <2>3. ~Active(t)' /\ rows'[t] = <<>>
    BY <1>2, <2>1 DEF Begin, UnderwayInv, BatchTyped, Underway, Active, vars
  <2>4. QED
    BY <2>2, <2>3 DEF Alone
<1>3. ASSUME NEW a \in Threads, Working(a), batch' = batch, ~disturbed[t]
      PROVE  a = t /\ Alone(t)
  BY <1>3 DEF AloneInv, Alone, Working
<1>4. ASSUME NEW a \in Threads, Screen(a) PROVE Alone(t)'
  <2>1. a = t /\ Alone(t)
    BY <1>3, <1>4 DEF Screen
  <2>2. rows[t] \in Seq({"ok", "failed", "empty"}) /\ rows'[t] = Append(rows[t], "failed")
    BY <1>4, <2>1 DEF Screen, AddRow, UnderwayInv, BatchTyped
  <2>3. \A i \in DOMAIN rows'[t] :
          rows'[t][i] = "ok" => i \in DOMAIN rows[t] /\ rows[t][i] = "ok"
    BY <2>2
  <2>4. QED
    BY <1>4, <2>1, <2>3
       DEF Screen, Alone, Working, Active, Stored, ChunkIdsForSource, vars
<1>5. ASSUME NEW a \in Threads, Call(a) PROVE Alone(t)'
  <2>1. a = t /\ Alone(t)
    BY <1>3, <1>5 DEF Call, batchVars
  <2>2. \A u \in Threads \ {t} : ~Active(u)
    BY <2>1 DEF Alone, UnderwayInv, Underway
  <2>3. ~overlapped'[t] /\ ~misled'[t] /\ table' = table
    BY <1>5, <2>1, <2>2 DEF Call, Start, LoneInv
  <2>4. QED
    BY <1>5, <2>1, <2>3
       DEF Call, batchVars, Alone, Working, Stored, ChunkIdsForSource
<1>6. ASSUME NEW a \in Threads, Proceed(a) PROVE Alone(t)'
  <2>1. Step(a) /\ Active(a) /\ Working(a)
    BY <1>6, StepFrame DEF Proceed, UnderwayInv, Underway, Active
  <2>2. ~disturbed[t] /\ (a = t => ~misled'[t])
    BY <1>6 DEF Proceed, UnderwayInv, BatchTyped
  <2>3. a = t /\ Alone(t) /\ batch' = batch
    BY <1>3, <1>6, <2>1, <2>2 DEF Proceed
  <2>4. Active(t)' => ~overlapped'[t] /\ ~misled'[t]
    BY <2>1, <2>2, <2>3, StepFrame DEF Alone, Active
  <2>5. ASSUME Distinct(batch[t]), NEW i \in DOMAIN rows'[t], rows'[t][i] = "ok"
        PROVE  Stored(FileRequest(batch[t], batch[t].files[i]))'
    BY <1>6, <2>3, <2>5, AloneProceeds
  <2>6. QED
    BY <2>3, <2>4, <2>5 DEF Alone, Working
<1>7. ASSUME NEW a \in Threads, NEW answer \in {"answered", "error"}, End(a, answer),
             Working(a)
      PROVE  FALSE
  <2>1. a # t /\ Working(t) /\ ~disturbed[t]
    BY <1>7 DEF End, Working, UnderwayInv, BatchTyped
  <2>2. QED
    BY <1>7, <2>1 DEF AloneInv, Alone
<1>8. ASSUME NEW a \in Threads, Fail(a) \/ Escape(a) \/ Answer(a) PROVE FALSE
  <2>1. Working(a)
    BY <1>8 DEF Fail, Raise, Escape, Answer, UnderwayInv, Underway
  <2>2. QED
    BY <1>7, <1>8, <2>1 DEF Fail, Escape, Answer
<1>9. ASSUME NEW a \in Threads, NEW b \in Batches, Refuse(a, b) PROVE Alone(t)'
  BY <1>1, <1>9 DEF Refuse
<1>10. CASE UNCHANGED allVars
  BY <1>1, <1>10 DEF allVars, batchVars
<1>11. QED
  BY <1>2, <1>4, <1>5, <1>6, <1>8, <1>9, <1>10 DEF BatchNext

\* An answer is given only when the batch has a row for each file; the rows say
\* which could be stored, and those of an undisturbed batch are true.
LEMMA AnswerIsTrue ==
    ASSUME UnderwayInv, AloneInv, [BatchNext]_allVars,
           NEW t \in Threads, Working(t), reply'[t] = "answered",
           NEW i \in DOMAIN batch[t].files
    PROVE  LET r == FileRequest(batch[t], batch[t].files[i]) IN
           /\ i \in DOMAIN rows[t]
           /\ RowIsRight(batch[t], i, rows[t][i])
           /\ ~disturbed[t] /\ Distinct(batch[t]) /\ rows[t][i] = "ok"
                 => ChunkIdsForSource(Source(r)) = Records(r)
<1>1. reply[t] = "none"
  BY DEF UnderwayInv, Underway
<1>2. Answer(t)
  <2>1. reply \in [Threads -> {"none", "refused", "answered", "error"}]
    BY DEF UnderwayInv, BatchTyped
  <2>2. QED
    BY <1>1, <2>1
       DEF BatchNext, Begin, Refuse, Screen, Call, Proceed, Fail, Escape, Answer,
           End, allVars, batchVars
<1>3. i \in DOMAIN rows[t]
  <2>1. batch[t].files \in Seq(Filenames \X Docs)
    BY DEF UnderwayInv, BatchTyped, Working, BatchType
  <2>2. rows[t] \in Seq({"ok", "failed", "empty"})
    BY DEF UnderwayInv, BatchTyped
  <2>3. QED
    BY <1>2, <2>1, <2>2 DEF Answer, Done
<1>4. QED
  BY <1>3 DEF AloneInv, Alone, Stored, UnderwayInv

-----------------------------------------------------------------------------
(* Retries converge.                                                       *)

\* The rows of document d that source s is missing.
Gap(s, d) == { id \in BuildChunkRecords(d, ChunkSize) : table[id] # s }

\* A call about to write all that is missing: it is past the delete, and what it
\* remembers as stored is not missing.
InDebt(t, s, d) ==
    /\ Source(req[t]) = s
    /\ \/ pc[t] = "readIds"
       \/ pc[t] = "upsert" /\ \A id \in Gap(s, d) : id \notin existing[t]

\* Source s holds no other document, and lacks rows of d only while a call is about
\* to write them.
Settled(s, d) ==
    /\ \A id \in ChunkIds : table[id] = s => DocKey(id) = d
    /\ Gap(s, d) = {} \/ \E t \in Threads : InDebt(t, s, d)

\* No retry of the thread has come far enough to settle the source.
Before(t, s, d) ==
    /\ pc[t] \in {"readIds", "upsert"} => Source(req[t]) # s
    /\ Working(t) => \A i \in DOMAIN rows[t] :
          rows[t][i] = "ok" => Source(FileRequest(batch[t], batch[t].files[i])) # s
    /\ reply[t] # "answered"

\* A retry that is not misled settles its source when it deletes, or finds nothing
\* to delete; from then on the source stays settled, until a call raises.
RetryInv(s, d) ==
    faulted \/ Settled(s, d) \/ \A t \in Threads : Before(t, s, d)

\* What is under way is one of the batches.
KnownInv ==
    \A t \in Threads : Working(t) =>
        \E b \in Batches : ~Oversized(b) /\ batch[t] = Considered(b)

LEMMA KnownStep ==
    ASSUME UnderwayInv, KnownInv, [BatchNext]_allVars
    PROVE  KnownInv'
<1> SUFFICES ASSUME NEW t \in Threads, Working(t)', batch'[t] # batch[t]
             PROVE  \E b \in Batches : ~Oversized(b) /\ batch'[t] = Considered(b)
  BY DEF KnownInv, Working
<1>1. batch \in [Threads -> BatchType \cup {NoBatch}]
  BY DEF UnderwayInv, BatchTyped
<1>2. PICK a \in Threads, b \in Batches : Begin(a, b)
  BY <1>1 DEF BatchNext, Refuse, Screen, Call, Proceed, Fail, Escape, Answer, End,
              Working, allVars, batchVars
<1>3. QED
  BY <1>1, <1>2 DEF Begin

\* A file that is stored brings the revision exactly when it goes to the source.
LEMMA StorableIsRetried ==
    ASSUME UnderwayInv, KnownInv, NEW s, NEW d, <<s, d>> \in Retried,
           NEW t \in Threads, Working(t)
    PROVE  /\ \E i \in Storable(batch[t]) : FileRequest(batch[t], batch[t].files[i]).doc = d
           /\ \A i \in Storable(batch[t]) :
                LET r == FileRequest(batch[t], batch[t].files[i]) IN
                Source(r) = s <=> r.doc = d
<1>1. PICK b \in Batches : ~Oversized(b) /\ batch[t] = Considered(b)
  BY DEF KnownInv
<1>2. PICK c : c = Considered(b)
  OBVIOUS
<1>3. /\ \E i \in Storable(c) : FileRequest(c, c.files[i]).doc = d
      /\ \A i \in Storable(c) :
            Source(FileRequest(c, c.files[i])) = s <=> FileRequest(c, c.files[i]).doc = d
  BY <1>1, <1>2 DEF Retried
<1>4. QED
  BY <1>1, <1>2, <1>3

\* A call past its validation writes to the source exactly when it brings the
\* revision.
LEMMA CallIsRetried ==
    ASSUME UnderwayInv, KnownInv, NEW s, NEW d, <<s, d>> \in Retried,
           NEW t \in Threads, Active(t), pc[t] # "validate"
    PROVE  /\ Source(req[t]) = s <=> req[t].doc = d
           /\ req[t].skip
           /\ req[t].size = ChunkSize
<1>1. /\ Working(t) /\ Len(rows[t]) < Len(batch[t].files)
      /\ req[t] = FileRequest(batch[t], Upcoming(t))
      /\ ~TurnedAway(batch[t], Upcoming(t))
      /\ Accepted(req[t]) /\ Records(req[t]) # {}
  BY DEF UnderwayInv, Underway
<1>2. PICK i : i = Len(rows[t]) + 1
  OBVIOUS
<1>3. i \in DOMAIN batch[t].files
  BY <1>1, <1>2, UpcomingIsFile DEF UnderwayInv
<1>4. Upcoming(t) = batch[t].files[i]
  BY <1>2 DEF Upcoming
<1>5. i \in Storable(batch[t])
  BY <1>1, <1>3, <1>4 DEF Storable
<1>6. Source(req[t]) = s <=> req[t].doc = d
  <2>1. PICK r : r = FileRequest(batch[t], batch[t].files[i])
    OBVIOUS
  <2>2. Source(r) = s <=> r.doc = d
    BY <1>1, <1>5, <2>1, StorableIsRetried
  <2>3. req[t] = r
    BY <1>1, <1>4, <2>1
  <2>4. QED
    BY <2>2, <2>3
<1>7. req[t].skip /\ req[t].size = ChunkSize
  BY <1>1 DEF FileRequest
<1>8. QED
  BY <1>6, <1>7

\* The records of a retried revision are all missing or none is.
LEMMA GapIsAll ==
    ASSUME NEW s, NEW d \in Docs, WholeInv,
           NEW id \in BuildChunkRecords(d, ChunkSize), table[id] = s
    PROVE  Gap(s, d) = {}
BY NamesAssumption DEF WholeInv, DocumentIsWhole, Gap

\* A step of a call does not unsettle a source that it writes to exactly when it
\* brings the revision.
LEMMA SettledUnderStep ==
    ASSUME TypeOK, NEW s \in Sources, NEW d \in Docs, Settled(s, d),
           NEW a \in Threads, Step(a),
           pc[a] # "validate" =>
              /\ Source(req[a]) = s <=> req[a].doc = d
              /\ req[a].skip
              /\ req[a].size = ChunkSize
    PROVE  Settled(s, d)'
<1>1. /\ req[a] \in Requests /\ pc[a] # "idle"
      /\ \A u \in Threads \ {a} :
            pc'[u] = pc[u] /\ req'[u] = req[u] /\ existing'[u] = existing[u]
  BY StepFrame
<1>2. /\ BuildChunkRecords(d, ChunkSize) \subseteq ChunkIds
      /\ \A id \in BuildChunkRecords(d, ChunkSize) : DocKey(id) = d
  BY RecordsAreIds, NamesAssumption
<1>3. \A id \in Records(req[a]) : DocKey(id) = req[a].doc
  BY <1>1, RequestFields, RecordsAreIds DEF Records
<1>4. \A id \in ChunkIds : table'[id] = s => DocKey(id) = d
  <2>1. CASE table' = table
    BY <2>1 DEF Settled
  <2>2. CASE DeleteBySource(a)
    BY <2>2, AbsentAssumption DEF DeleteBySource, Settled
  <2>3. CASE Upsert(a)
    <3>1. Source(req[a]) = s <=> req[a].doc = d
      BY <2>3 DEF Upsert
    <3>2. \A id \in Embedded(a) : DocKey(id) = req[a].doc
      BY <1>3 DEF Embedded
    <3>3. QED
      BY <2>3, <3>1, <3>2 DEF Upsert, Settled
  <2>4. QED
    BY <2>1, <2>2, <2>3 DEF Step, Reject, Validate, ReadKeys, ReadIds, Unopened
<1>5. ASSUME Source(req[a]) # s \/ pc[a] = "validate"
      PROVE  Gap(s, d)' = Gap(s, d)
  <2>1. CASE table' = table
    BY <2>1 DEF Gap
  <2>2. CASE DeleteBySource(a)
    <3>1. \A id \in ChunkIds : table'[id] = s <=> table[id] = s
      BY <1>5, <2>2, AbsentAssumption DEF DeleteBySource
    <3>2. QED
      BY <1>2, <3>1 DEF Gap
  <2>3. CASE Upsert(a)
    <3>1. \A id \in Embedded(a) : DocKey(id) # d
      BY <1>3, <1>5, <2>3 DEF Upsert, Embedded
    <3>2. \A id \in BuildChunkRecords(d, ChunkSize) : table'[id] = table[id]
      BY <1>2, <2>3, <3>1 DEF Upsert
    <3>3. QED
      BY <3>2 DEF Gap
  <2>4. QED
    BY <2>1, <2>2, <2>3 DEF Step, Reject, Validate, ReadKeys, ReadIds, Unopened
<1>6. ASSUME NEW u \in Threads \ {a}, InDebt(u, s, d), Gap(s, d)' \subseteq Gap(s, d)
      PROVE  InDebt(u, s, d)'
  BY <1>1, <1>6 DEF InDebt, Source
<1>7. Gap(s, d)' = {} \/ \E t \in Threads : InDebt(t, s, d)'
  <2>1. CASE Source(req[a]) # s \/ pc[a] = "validate"
    <3>1. ~InDebt(a, s, d)
      BY <2>1 DEF InDebt
    <3>2. QED
      BY <1>5, <1>6, <2>1, <3>1 DEF Settled
  <2>2. CASE ReadKeys(a)
    <3>1. ~InDebt(a, s, d) /\ Gap(s, d)' = Gap(s, d)
      BY <2>2 DEF InDebt, ReadKeys, Gap
    <3>2. QED
      BY <1>6, <3>1 DEF Settled
  <2>3. CASE Source(req[a]) = s /\ DeleteBySource(a)
    <3>1. pc'[a] = "readIds" /\ req' = req
      BY <2>3 DEF DeleteBySource, Goto, NextRead, TypeOK
    <3>2. InDebt(a, s, d)'
      BY <2>3, <3>1 DEF InDebt, Source
    <3>3. QED
      BY <3>2
  <2>4. CASE Source(req[a]) = s /\ ReadIds(a)
    <3>1. /\ pc'[a] = "upsert" /\ req' = req /\ table' = table
          /\ existing'[a] = ChunkIdsForSource(s)
      BY <2>4 DEF ReadIds, Goto, TypeOK
    <3>2. \A id \in Gap(s, d)' : id \notin existing'[a]
      BY <3>1 DEF Gap, ChunkIdsForSource
    <3>3. InDebt(a, s, d)'
      BY <2>4, <3>1, <3>2 DEF InDebt, Source
    <3>4. QED
      BY <3>3
  <2>5. CASE Source(req[a]) = s /\ Upsert(a)
    <3>1. \A id \in ChunkIds :
            table'[id] = IF id \in Embedded(a) THEN s ELSE table[id]
      BY <2>5 DEF Upsert
    <3>2. Gap(s, d)' \subseteq Gap(s, d)
      BY <1>2, <3>1 DEF Gap
    <3>3. ASSUME InDebt(a, s, d) PROVE Gap(s, d)' = {}
      <4>1. \A id \in Gap(s, d) : id \notin existing[a]
        BY <2>5, <3>3 DEF InDebt, Upsert
      <4>2. Records(req[a]) = BuildChunkRecords(d, ChunkSize)
        BY <2>5 DEF Upsert, Records
      <4>3. \A id \in Gap(s, d) : id \in Embedded(a)
        BY <4>1, <4>2 DEF Embedded, Gap
      <4>4. QED
        BY <1>2, <3>1, <4>3 DEF Gap
    <3>4. QED
      BY <1>6, <3>2, <3>3 DEF Settled
  <2>6. CASE Source(req[a]) = s /\ Unopened(a)
    <3>1. Gap(s, d)' = Gap(s, d) /\ Source(req'[a]) = s /\ existing'[a] = {}
      BY <2>6 DEF Unopened, Gap, Source, TypeOK
    <3>2. pc'[a] \in {"readIds", "upsert"}
      BY <2>6 DEF Unopened, NextRead, TypeOK
    <3>3. InDebt(a, s, d)'
      BY <3>1, <3>2 DEF InDebt, Source
    <3>4. QED
      BY <3>3
  <2>7. QED
    BY <2>1, <2>2, <2>3, <2>4, <2>5, <2>6 DEF Step, Reject, Validate
<1>8. QED
  BY <1>4, <1>7 DEF Settled

\* A call that brings the revision settles its source when it deletes, or finds no
\* other document to delete, or finds the revision stored.
LEMMA StepSettles ==
    ASSUME NEW size, Sizes = {size}, TypeOK, WholeInv, NEW s \in Sources, NEW d \in Docs,
           NEW a \in Threads, Step(a), Source(req[a]) = s, req[a].doc = d, req[a].skip,
           pc[a] \notin {"readIds", "upsert"}, ~misled'[a],
           pc'[a] \in {"readIds", "upsert"} \/ (pc'[a] = "idle" /\ result'[a] = "ok")
    PROVE  Settled(s, d)'
<1>1. CASE DeleteBySource(a)
  <2>1. \A id \in ChunkIds : table'[id] # s
    BY <1>1, AbsentAssumption DEF DeleteBySource
  <2>2. pc'[a] = "readIds" /\ req' = req
    BY <1>1 DEF DeleteBySource, Goto, NextRead, TypeOK
  <2>3. InDebt(a, s, d)'
    BY <2>2 DEF InDebt, Source
  <2>4. QED
    BY <2>1, <2>3 DEF Settled
<1>2. CASE ReadKeys(a) /\ Unchanged(req[a])
  <2>1. \A id \in ChunkIds : table[id] = s => DocKey(id) = d
    BY <1>2 DEF Unchanged, DocKeysForSource, ChunkIdsForSource
  <2>2. PICK id \in ChunkIds : table[id] = s /\ DocKey(id) = d
    BY <1>2 DEF Unchanged, DocKeysForSource, ChunkIdsForSource
  <2>3. id \in BuildChunkRecords(d, ChunkSize)
    BY <2>2, IdsOfDocument, NamesAssumption
  <2>4. Gap(s, d) = {} /\ table' = table
    BY <1>2, <2>2, <2>3, GapIsAll DEF ReadKeys
  <2>5. QED
    BY <2>1, <2>4 DEF Settled, Gap
<1>3. CASE ReadKeys(a) /\ ~Unchanged(req[a])
  <2>1. /\ table' = table /\ req' = req
        /\ pc'[a] = IF Superseded(req[a]) THEN "delete" ELSE "readIds"
    BY <1>3 DEF ReadKeys, Goto, NextRead, TypeOK
  <2>2. ~Superseded(req[a])
    BY <2>1
  <2>3. \A id \in ChunkIds : table[id] = s => DocKey(id) = d
    BY <2>2 DEF Superseded, DocKeysForSource, ChunkIdsForSource
  <2>4. InDebt(a, s, d)'
    BY <2>1, <2>2 DEF InDebt, Source
  <2>5. QED
    BY <2>1, <2>3, <2>4 DEF Settled
<1>4. ASSUME Reject(a) \/ Validate(a) \/ Unopened(a) PROVE FALSE
  BY <1>4 DEF Reject, Validate, Unopened, Return, Goto, TypeOK
<1>5. QED
  BY <1>1, <1>2, <1>3, <1>4 DEF Step, ReadIds, Upsert

\* Nothing that batches do unsettles the source of a retried revision.
LEMMA SettledStays ==
    ASSUME TypeOK, UnderwayInv, KnownInv, NEW s \in Sources, NEW d \in Docs,
           <<s, d>> \in Retried, Settled(s, d), [BatchNext]_allVars, ~faulted'
    PROVE  Settled(s, d)'
<1>1. ASSUME UNCHANGED vars PROVE Settled(s, d)'
  BY <1>1 DEF vars, Settled, Gap, InDebt, Source
<1>2. ASSUME NEW a \in Threads, Call(a) PROVE Settled(s, d)'
  <2>1. PICK r : Start(a, r)
    BY <1>2 DEF Call
  <2>2. /\ table' = table /\ pc[a] = "idle" /\ existing' = existing
        /\ \A u \in Threads \ {a} : pc'[u] = pc[u] /\ req'[u] = req[u]
    BY <1>2, <2>1 DEF Start, Call, batchVars, Active, TypeOK
  <2>3. \A u \in Threads : InDebt(u, s, d) => u # a
    BY <2>2 DEF InDebt
  <2>4. Gap(s, d)' = Gap(s, d)
    BY <2>2 DEF Gap
  <2>5. \A u \in Threads : InDebt(u, s, d) => InDebt(u, s, d)'
    BY <2>2, <2>3, <2>4 DEF InDebt, Source
  <2>6. QED
    BY <2>2, <2>4, <2>5 DEF Settled
<1>3. ASSUME NEW a \in Threads, Proceed(a) PROVE Settled(s, d)'
  <2>1. Step(a) /\ Active(a)
    BY <1>3, StepFrame DEF Proceed, Active
  <2>2. pc[a] # "validate" =>
          /\ Source(req[a]) = s <=> req[a].doc = d
          /\ req[a].skip
          /\ req[a].size = ChunkSize
    BY <2>1, CallIsRetried
  <2>3. QED
    BY <2>1, <2>2, SettledUnderStep
<1>4. ASSUME NEW a \in Threads, Fail(a) PROVE Settled(s, d)'
  BY <1>4 DEF Fail
<1>5. ASSUME NEW a \in Threads, Escape(a) \/ Answer(a) \/ Screen(a) PROVE Settled(s, d)'
  BY <1>1, <1>5 DEF Escape, Answer, Screen
<1>6. ASSUME NEW a \in Threads, NEW b \in Batches, Begin(a, b) \/ Refuse(a, b)
      PROVE  Settled(s, d)'
  BY <1>1, <1>6 DEF Begin, Refuse
<1>7. CASE UNCHANGED allVars
  BY <1>1, <1>7 DEF allVars, batchVars
<1>8. QED
  BY <1>2, <1>3, <1>4, <1>5, <1>6, <1>7 DEF BatchNext

\* A step of a call that does not settle the source comes no nearer to it.
LEMMA ProceedsBefore ==
    ASSUME NEW size, Sizes = {size}, TypeOK, WholeInv, UnderwayInv, KnownInv,
           NEW s \in Sources, NEW d \in Docs, <<s, d>> \in Retried,
           NEW t \in Threads, Before(t, s, d), Proceed(t), ~Settled(s, d)', ~faulted'
    PROVE  Before(t, s, d)'
<1>1. /\ Step(t) /\ Active(t) /\ batch' = batch /\ reply' = reply /\ Working(t)
      /\ req[t] = FileRequest(batch[t], Upcoming(t))
  BY StepFrame DEF Proceed, UnderwayInv, Underway, Active
<1>2. ASSUME Source(req[t]) = s
      PROVE  ~(\/ pc'[t] \in {"readIds", "upsert"}
               \/ pc'[t] = "idle" /\ result'[t] = "ok")
  <2>1. pc[t] \notin {"readIds", "upsert"}
    BY <1>2 DEF Before
  <2>2. CASE pc[t] = "validate"
    BY <1>1, <2>2
       DEF Step, Reject, Validate, ReadKeys, DeleteBySource, ReadIds, Upsert,
           Unopened, Return, Goto, TypeOK
  <2>3. CASE pc[t] # "validate"
    <3>1. req[t].doc = d /\ req[t].skip
      BY <1>1, <1>2, <2>3, CallIsRetried
    <3>2. ~misled'[t]
      BY DEF Proceed
    <3>3. QED
      BY <1>1, <1>2, <2>1, <3>1, <3>2, StepSettles
  <2>4. QED
    BY <2>2, <2>3
<1>3. pc'[t] \in {"readIds", "upsert"} => Source(req'[t]) # s
  BY <1>1, <1>2, StepFrame
<1>4. ASSUME NEW i \in DOMAIN rows'[t], rows'[t][i] = "ok"
      PROVE  Source(FileRequest(batch[t], batch[t].files[i])) # s
  <2>1. CASE rows' = rows
    BY <1>1, <1>4, <2>1 DEF Before
  <2>2. CASE pc'[t] = "idle" /\ AddRow(t, result'[t])
    <3>1. rows[t] \in Seq({"ok", "failed", "empty"})
      BY DEF UnderwayInv, BatchTyped
    <3>2. rows'[t] = Append(rows[t], result'[t])
      BY <2>2 DEF AddRow, UnderwayInv, BatchTyped
    <3>3. \/ i \in DOMAIN rows[t] /\ rows[t][i] = "ok"
          \/ i = Len(rows[t]) + 1 /\ result'[t] = "ok"
      BY <1>4, <3>1, <3>2
    <3>4. CASE i = Len(rows[t]) + 1 /\ result'[t] = "ok"
      <4>1. Source(req[t]) # s
        BY <1>2, <2>2, <3>4
      <4>2. req[t] = FileRequest(batch[t], batch[t].files[i])
        BY <1>1, <3>4 DEF Upcoming
      <4>3. QED
        BY <4>1, <4>2
    <3>5. QED
      BY <1>1, <3>3, <3>4 DEF Before
  <2>3. QED
    BY <2>1, <2>2 DEF Proceed
<1>5. QED
  BY <1>1, <1>3, <1>4 DEF Before, Source, Working

\* A batch that is answered has stored the revision, so that its source is settled.
LEMMA AnswerIsAfter ==
    ASSUME UnderwayInv, KnownInv, NEW s, NEW d, <<s, d>> \in Retried,
           NEW t \in Threads, Before(t, s, d), Answer(t)
    PROVE  FALSE
<1>1. PICK i \in Storable(batch[t]) :
         Source(FileRequest(batch[t], batch[t].files[i])) = s
  BY StorableIsRetried DEF Answer
<1>2. i \in DOMAIN rows[t]
  <2>1. batch[t].files \in Seq(Filenames \X Docs)
    BY DEF UnderwayInv, BatchTyped, Answer, Working, BatchType
  <2>2. rows[t] \in Seq({"ok", "failed", "empty"})
    BY DEF UnderwayInv, BatchTyped
  <2>3. QED
    BY <1>1, <2>1, <2>2 DEF Answer, Done, Storable
<1>3. rows[t][i] = "ok"
  BY <1>1, <1>2 DEF UnderwayInv, RowIsRight, Answer, Storable
<1>4. QED
  BY <1>1, <1>2, <1>3 DEF Before, Answer

LEMMA RetryStep ==
    ASSUME NEW size, Sizes = {size}, TypeOK, WholeInv, UnderwayInv, KnownInv,
           NEW s \in Sources, NEW d \in Docs, <<s, d>> \in Retried,
           RetryInv(s, d), [BatchNext]_allVars
    PROVE  RetryInv(s, d)'
<1> SUFFICES ASSUME ~faulted' PROVE RetryInv(s, d)'
  BY DEF RetryInv
<1>0. ~faulted
  BY DEF BatchNext, Begin, Refuse, Screen, Call, Proceed, Fail, Escape, Answer,
         allVars, batchVars
<1>1. CASE Settled(s, d)
  BY <1>1, SettledStays DEF RetryInv
<1>2. ASSUME \A t \in Threads : Before(t, s, d), ~Settled(s, d)',
             NEW t \in Threads
      PROVE  Before(t, s, d)'
  <2>1. Before(t, s, d) /\ BatchTyped
    BY <1>2 DEF UnderwayInv
  <2>2. ASSUME pc'[t] = pc[t], req'[t] = req[t], batch'[t] = batch[t],
               rows'[t] = rows[t], reply'[t] = reply[t]
        PROVE  Before(t, s, d)'
    BY <2>1, <2>2 DEF Before, Source, Working
  <2>3. ASSUME NEW a \in Threads, Proceed(a) PROVE Before(t, s, d)'
    <3>1. CASE a = t
      BY <1>2, <2>3, <3>1, ProceedsBefore
    <3>2. CASE a # t
      BY <2>1, <2>2, <2>3, <3>2, StepFrame DEF Proceed, AddRow, BatchTyped
    <3>3. QED
      BY <3>1, <3>2
  <2>4. ASSUME NEW a \in Threads, NEW b \in Batches, Begin(a, b)
        PROVE  Before(t, s, d)'
    <3>1. CASE a = t
      <4>1. rows'[t] = <<>> /\ reply'[t] = "none" /\ pc' = pc /\ req' = req
        BY <2>1, <2>4, <3>1 DEF Begin, BatchTyped, vars
      <4>2. QED
        BY <2>1, <4>1 DEF Before, Source
    <3>2. QED
      BY <2>1, <2>2, <2>4, <3>1 DEF Begin, vars
  <2>5. ASSUME NEW a \in Threads, NEW b \in Batches, Refuse(a, b)
        PROVE  Before(t, s, d)'
    BY <2>1, <2>5 DEF Refuse, vars, Before, Source, Working, BatchTyped
  <2>6. ASSUME NEW a \in Threads, Screen(a) PROVE Before(t, s, d)'
    <3>1. CASE a = t
      <4>1. rows[t] \in Seq({"ok", "failed", "empty"}) /\ rows'[t] = Append(rows[t], "failed")
        BY <2>1, <2>6, <3>1 DEF Screen, AddRow, BatchTyped
      <4>2. \A i \in DOMAIN rows'[t] :
              rows'[t][i] = "ok" => i \in DOMAIN rows[t] /\ rows[t][i] = "ok"
        BY <4>1
      <4>3. QED
        BY <2>1, <2>6, <4>2 DEF Screen, Before, Source, Working, vars
    <3>2. QED
      BY <2>1, <2>2, <2>6, <3>1 DEF Screen, AddRow, vars, BatchTyped
  <2>7. ASSUME NEW a \in Threads, Call(a) PROVE Before(t, s, d)'
    <3>1. CASE a = t
      BY <2>1, <2>7, <3>1 DEF Call, Start, batchVars, Before, Working, TypeOK
    <3>2. QED
      BY <2>1, <2>2, <2>7, <3>1 DEF Call, Start, batchVars, TypeOK
  <2>8. ASSUME NEW a \in Threads, End(a, "error"), pc' = [pc EXCEPT ![a] = "idle"],
               \A u \in Threads \ {a} : req'[u] = req[u]
        PROVE  Before(t, s, d)'
    <3>1. CASE a = t
      BY <2>1, <2>8, <3>1 DEF End, Before, Working, BatchTyped, TypeOK
    <3>2. QED
      BY <2>1, <2>2, <2>8, <3>1 DEF End, TypeOK
  <2>9. ASSUME NEW a \in Threads, Fail(a) \/ Escape(a) PROVE Before(t, s, d)'
    BY <2>8, <2>9 DEF Fail, Raise, Return, Escape, vars, Active, TypeOK
  <2>10. ASSUME NEW a \in Threads, Answer(a) PROVE FALSE
    BY <1>2, <2>10, AnswerIsAfter
  <2>11. CASE UNCHANGED allVars
    BY <2>2, <2>11 DEF allVars, vars, batchVars
  <2>12. QED
    BY <2>3, <2>4, <2>5, <2>6, <2>7, <2>9, <2>10, <2>11 DEF BatchNext
<1>3. QED
  BY <1>0, <1>1, <1>2 DEF RetryInv

-----------------------------------------------------------------------------
(* What ingestion promises, of single calls and of batches.                *)

\* Every reachable state of ingestion is well typed, whoever makes the calls.
THEOREM TypeCorrect ==
    /\ Spec => []TypeOK
    /\ BatchSpec => []TypeOK
BY SpecMakesCalls, BatchMakesCalls, CallsAreTyped, PTL

\* With one chunking configuration, however calls and batches overlap, fail or
\* reuse stale reads, all chunks of a document are stored under one source or
\* none is.
THEOREM DocumentsStayWhole ==
    ASSUME NEW size, Sizes = {size}
    PROVE  /\ Spec => []DocumentIsWhole
           /\ BatchSpec => []DocumentIsWhole
BY SpecMakesCalls, BatchMakesCalls, CallsKeepWhole, PTL

\* With one chunking configuration, a call that ran alone, whose key read and delete
\* found the store, and that reports ok leaves its source holding exactly its
\* chunks, whatever the table held before.
THEOREM LoneOkLeavesExact ==
    ASSUME NEW size, Sizes = {size}
    PROVE  /\ Spec => LoneOkIsExact
           /\ BatchSpec => LoneOkIsExact
BY SpecMakesCalls, BatchMakesCalls, LoneCallsAreExact, PTL

\* A lone call whose source already held exactly its chunks writes nothing.
THEOREM LoneReingestWritesNothing ==
    /\ Spec => LoneReingestIsIdempotent
    /\ BatchSpec => LoneReingestIsIdempotent
BY SpecMakesCalls, BatchMakesCalls, LoneCallsAreIdempotent, PTL

\* With one chunking configuration ingestion implements the catalog, however calls
\* overlap, fail or take the store for an empty one.
THEOREM IngestImplementsCatalog ==
    ASSUME NEW size, Sizes = {size}
    PROVE  /\ Spec => ImplementsCatalog
           /\ BatchSpec => ImplementsCatalog
BY SpecMakesCalls, BatchMakesCalls, CallsImplementCatalog, PTL

\* With one chunking configuration, an answered request has the right row for each
\* of its files, and one of distinct files that no other ran beside and that was
\* not misled has stored the ok ones exactly.
THEOREM AnswersAreAlwaysTrue ==
    ASSUME NEW size, Sizes = {size}
    PROVE  BatchSpec => AnswersAreTrue
<1>1. BatchInit => AloneInv
  BY DEF BatchInit, BatchesIdle, AloneInv, Working
<1>2. /\ TypeOK /\ UnderwayInv /\ UnderwayInv' /\ WholeInv /\ LoneInv /\ AloneInv
      /\ [BatchNext]_allVars
      => AloneInv'
  BY AloneStep
<1>3. UnderwayInv /\ AloneInv /\ [BatchNext]_allVars =>
        [\A t \in Threads :
            Working(t) /\ reply'[t] = "answered"
            => \A i \in DOMAIN batch[t].files :
                 LET r == FileRequest(batch[t], batch[t].files[i]) IN
                 /\ i \in DOMAIN rows[t]
                 /\ rows[t][i] = "ok" <=>
                       /\ ~TurnedAway(batch[t], batch[t].files[i])
                       /\ Accepted(r)
                       /\ Records(r) # {}
                 /\ ~disturbed[t] /\ Distinct(batch[t]) /\ rows[t][i] = "ok"
                       => ChunkIdsForSource(Source(r)) = Records(r)]_allVars
  BY AnswerIsTrue DEF RowIsRight
<1>4. QED
  BY <1>1, <1>2, <1>3, BatchesAreTyped, BatchMakesCalls, WholeInvariant,
     LoneInvariant, PTL DEF BatchSpec, AnswersAreTrue

\* With one chunking configuration, once a retry of a revision is answered, none is
\* under way and no call raised or was misled, the source holds exactly the
\* revision, however the retries interleaved and whatever table they began with.
THEOREM RetriesAlwaysConverge ==
    ASSUME NEW size, Sizes = {size}
    PROVE  BatchSpec => []RetriesConverge
<1>1. BatchSpec => []KnownInv
  <2>1. BatchInit => KnownInv
    BY DEF BatchInit, BatchesIdle, KnownInv, Working
  <2>2. UnderwayInv /\ KnownInv /\ [BatchNext]_allVars => KnownInv'
    BY KnownStep
  <2>3. QED
    BY <2>1, <2>2, BatchesAreTyped, PTL DEF BatchSpec
<1> DEFINE AllRetryInv == \A p \in Retried : RetryInv(p[1], p[2])
<1>2. \A p \in Retried : p[1] \in Sources /\ p[2] \in Docs /\ p = <<p[1], p[2]>>
  BY DEF Retried
<1>3. BatchInit => AllRetryInv
  BY DEF BatchInit, BatchesIdle, Init, RetryInv, Before, Working
<1>4. /\ TypeOK /\ WholeInv /\ UnderwayInv /\ KnownInv /\ AllRetryInv
      /\ [BatchNext]_allVars
      => AllRetryInv'
  <2>1. SUFFICES ASSUME TypeOK, WholeInv, UnderwayInv, KnownInv, AllRetryInv,
                        [BatchNext]_allVars, NEW p \in Retried
                 PROVE  RetryInv(p[1], p[2])'
    OBVIOUS
  <2>2. PICK s \in Sources, d \in Docs : s = p[1] /\ d = p[2] /\ <<s, d>> \in Retried
    BY <1>2
  <2>3. RetryInv(s, d)
    BY <2>1, <2>2
  <2>4. RetryInv(s, d)'
    BY <2>1, <2>2, <2>3, RetryStep
  <2>5. QED
    BY <2>2, <2>4
<1>5. ASSUME UnderwayInv, AllRetryInv PROVE RetriesConverge
  <2>1. SUFFICES ASSUME \A t \in Threads : ~Working(t),
                        \E t \in Threads : reply[t] = "answered",
                        ~faulted, NEW p \in Retried
                 PROVE  ChunkIdsForSource(p[1]) = BuildChunkRecords(p[2], ChunkSize)
    BY DEF RetriesConverge
  <2>2. PICK s \in Sources, d \in Docs : s = p[1] /\ d = p[2]
    BY <1>2
  <2>3. Settled(s, d)
    BY <1>5, <2>1, <2>2 DEF RetryInv, Before
  <2>4. \A t \in Threads : ~InDebt(t, s, d)
    BY <1>5, <2>1 DEF UnderwayInv, Underway, InDebt, Active
  <2>5. \A id \in BuildChunkRecords(d, ChunkSize) : table[id] = s
    BY <2>1, <2>3, <2>4 DEF Settled, Gap
  <2>6. BuildChunkRecords(d, ChunkSize) = { id \in ChunkIds : DocKey(id) = d }
    BY IdsOfDocument, NamesAssumption
  <2>7. QED
    BY <2>2, <2>3, <2>5, <2>6 DEF Settled, ChunkIdsForSource
<1>6. QED
  BY <1>1, <1>3, <1>4, <1>5, BatchesAreTyped, BatchMakesCalls, WholeInvariant, PTL
     DEF BatchSpec
=============================================================================
