------------------------------- MODULE Ingest -------------------------------
(***************************************************************************)
(* Document ingestion: src/src/ingest_service.py on top of the record      *)
(* builder of src/src/ingestion.py and the table operations of             *)
(* src/src/vector_store.py.                                                *)
(*                                                                         *)
(* POST /ingest runs ingest_bytes in a thread pool and takes no lock, so   *)
(* calls interleave between any two store operations.  Every store         *)
(* operation is one atomic step here: LanceDB commits a delete or a        *)
(* merge_insert as one table version.  Any of them may also raise, which   *)
(* abandons the call with what it already wrote left in place (a killed    *)
(* process is that, for all its threads).  Not so a read or a delete that  *)
(* finds no store it can open: it answers as an empty store would.         *)
(*                                                                         *)
(* A row is identified by its chunk id.  The id hashes the document's      *)
(* bytes, the index and the text, so it is modelled as that triple and the *)
(* row's doc_key column is the triple's first component.  What is left of  *)
(* a row is its source column: `table' maps every id to the source its row *)
(* carries, or to Absent.                                                  *)
(***************************************************************************)
EXTENDS Integers, Sequences, FiniteSets

CONSTANTS
    Threads,     \* request threads of the service
    Filenames,   \* names files arrive under
    Sources,     \* logical document names: the names without directories
    Basename,    \* [Filenames -> Sources], Path(filename).name
    Docs,        \* byte contents, equal to their sha256
    Sizes,       \* chunking configurations in use
    Texts,       \* chunk texts
    Split,       \* [Docs -> [Sizes -> Seq(Texts)]], normalise and split
    Unreadable,  \* pairs <<filename, document>> the loader rejects
    Unsafe,      \* sources the store's filter pattern rejects
    Arrivals,    \* the calls clients make
    Absent,      \* no row has this id
    NoCall       \* the thread is in no call

ASSUME FilesAssumption ==
    /\ Basename \in [Filenames -> Sources]
    /\ Unreadable \subseteq Filenames \X Docs
    /\ Unsafe \subseteq Sources

ASSUME SplitAssumption == Split \in [Docs -> [Sizes -> Seq(Texts)]]

ASSUME AbsentAssumption == Absent \notin Sources

Requests == [file : Filenames, doc : Docs, size : Sizes, skip : BOOLEAN]

ASSUME ArrivalsAssumption == Arrivals \subseteq Requests /\ NoCall \notin Requests

VARIABLES
    table,       \* [ChunkIds -> Sources \cup {Absent}], the vector table
    pc,          \* the store operation each thread is about to make
    req,         \* the call each thread is in
    existing,    \* chunk ids a thread read before it embeds
    result,      \* the status of a thread's last call
    overlapped,  \* history: did another call on the same source, or on
                 \* the same bytes, run while this one did?
    wasExact,    \* history: did the source hold exactly the call's chunks
                 \* when the call began?
    misled       \* history: has the call taken a store it could not open
                 \* for one that holds nothing of its source?

vars == <<table, pc, req, existing, result, overlapped, wasExact, misled>>

-----------------------------------------------------------------------------
(* Identity.                                                               *)

\* Fault: the id leaves the document's hash out.
GenerateChunkId_TextOnly(doc, index, text) == <<"", index, text>>

\* compute_doc_key is the identity on Docs; the id is an injective hash.
GenerateChunkId(doc, index, text) == <<doc, index, text>>

DocKey(id) == id[1]

\* The records build_chunk_records returns for a document, by their ids.
BuildChunkRecords(doc, size) ==
    { GenerateChunkId(doc, i, Split[doc][size][i]) :
        i \in DOMAIN Split[doc][size] }

ChunkIds == UNION { BuildChunkRecords(d, z) : d \in Docs, z \in Sizes }

\* Path(filename).name: directories do not count.
Source(r) == Basename[r.file]

Records(r) == BuildChunkRecords(r.doc, r.size)

ChunkIdsForSource(s) == { id \in ChunkIds : table[id] = s }

DocKeysForSource(s) == { DocKey(id) : id \in ChunkIdsForSource(s) }

-----------------------------------------------------------------------------
(* Calls.                                                                  *)

Active(t) == pc[t] # "idle"

Conflict(q, r) == Source(q) = Source(r) \/ q.doc = r.doc

Return(t, status) ==
    /\ pc' = [pc EXCEPT ![t] = "idle"]
    /\ result' = [result EXCEPT ![t] = status]
    /\ existing' = [existing EXCEPT ![t] = {}]
    /\ req' = [req EXCEPT ![t] = NoCall]
    /\ overlapped' = [overlapped EXCEPT ![t] = FALSE]
    /\ wasExact' = [wasExact EXCEPT ![t] = FALSE]
    /\ misled' = [misled EXCEPT ![t] = FALSE]

Goto(t, step) ==
    /\ pc' = [pc EXCEPT ![t] = step]
    /\ UNCHANGED <<req, result, overlapped, wasExact, misled>>

Start(t, r) ==
    /\ ~Active(t)
    /\ pc' = [pc EXCEPT ![t] = "validate"]
    /\ req' = [req EXCEPT ![t] = r]
    /\ result' = [result EXCEPT ![t] = "none"]
    /\ overlapped' = [u \in Threads |->
            IF u = t
            THEN \E v \in Threads \ {t} : Active(v) /\ Conflict(req[v], r)
            ELSE overlapped[u] \/ (Active(u) /\ Conflict(req[u], r))]
    /\ wasExact' = [wasExact EXCEPT
                        ![t] = ChunkIdsForSource(Source(r)) = Records(r)]
    /\ UNCHANGED <<table, existing, misled>>

\* A file that will not parse, or whose name the store would reject, is a
\* failed row; a document without chunks is an empty one.
Reject(t) ==
    /\ pc[t] = "validate"
    /\ \/ <<req[t].file, req[t].doc>> \in Unreadable
       \/ Source(req[t]) \in Unsafe
    /\ Return(t, "failed")
    /\ UNCHANGED table

Accepted(r) ==
    /\ <<r.file, r.doc>> \notin Unreadable
    /\ Source(r) \notin Unsafe

Validate(t) ==
    /\ pc[t] = "validate"
    /\ Accepted(req[t])
    /\ IF Records(req[t]) = {}
       THEN Return(t, "empty")
       ELSE Goto(t, "readKeys") /\ UNCHANGED existing
    /\ UNCHANGED table

\* Fault: any stored version counts as the same document.
Unchanged_AnyVersion(r) == DocKeysForSource(Source(r)) # {}

Unchanged(r) == DocKeysForSource(Source(r)) = {r.doc}

Superseded(r) == DocKeysForSource(Source(r)) \ {r.doc} # {}

\* What follows the delete: the cached ids are read only to skip embedding.
NextRead(r) == IF r.skip THEN "readIds" ELSE "upsert"

\* Fault: whatever is stored is replaced, before the unchanged test.
ReadKeys_Replaces(t) ==
    /\ pc[t] = "readKeys"
    /\ Goto(t, IF DocKeysForSource(Source(req[t])) # {} THEN "delete"
                                                       ELSE NextRead(req[t]))
    /\ UNCHANGED <<table, existing>>

\* doc_keys_for_source decides between skipping, replacing and adding.
ReadKeys(t) ==
    /\ pc[t] = "readKeys"
    /\ IF Unchanged(req[t]) /\ req[t].skip
       THEN Return(t, "ok")
       ELSE /\ Goto(t, IF Superseded(req[t]) THEN "delete"
                                             ELSE NextRead(req[t]))
            /\ UNCHANGED existing
    /\ UNCHANGED table

\* Fault: the rows of the new content hash are deleted, not the source's.
DeleteBySource_ByDocKey(t) ==
    /\ pc[t] = "delete"
    /\ table' = [id \in ChunkIds |->
            IF DocKey(id) = req[t].doc THEN Absent ELSE table[id]]
    /\ Goto(t, NextRead(req[t]))
    /\ UNCHANGED existing

\* Fault: the rows are found by a read with a limit, which misses some.
DeleteBySource_Limited(t) ==
    /\ pc[t] = "delete"
    /\ table' = [id \in ChunkIds |->
            IF table[id] = Source(req[t]) /\ id[2] = 1
            THEN Absent ELSE table[id]]
    /\ Goto(t, NextRead(req[t]))
    /\ UNCHANGED existing

DeleteBySource(t) ==
    /\ pc[t] = "delete"
    /\ table' = [id \in ChunkIds |->
            IF table[id] = Source(req[t]) THEN Absent ELSE table[id]]
    /\ Goto(t, NextRead(req[t]))
    /\ UNCHANGED existing

ReadIds(t) ==
    /\ pc[t] = "readIds"
    /\ existing' = [existing EXCEPT
                        ![t] = ChunkIdsForSource(Source(req[t]))]
    /\ Goto(t, "upsert")
    /\ UNCHANGED table

\* embed_records drops what was read as existing; merge_insert overwrites
\* every column of a row whose id matches, its source included.
Embedded(t) == Records(req[t]) \ existing[t]

Upsert(t) ==
    /\ pc[t] = "upsert"
    /\ table' = [id \in ChunkIds |->
            IF id \in Embedded(t) THEN Source(req[t]) ELSE table[id]]
    /\ Return(t, "ok")

\* A read or a delete whose store cannot be opened swallows the VectorStoreError
\* and answers as an empty store: the keys read as none, so nothing is deleted,
\* the delete removes nothing, and all chunks are embedded.
Unopened(t) ==
    /\ \/ /\ pc[t] \in {"readKeys", "delete"}
          /\ pc' = [pc EXCEPT ![t] = NextRead(req[t])]
          /\ misled' = [misled EXCEPT ![t] = TRUE]
       \/ /\ pc[t] = "readIds"
          /\ pc' = [pc EXCEPT ![t] = "upsert"]
          /\ UNCHANGED misled
    /\ existing' = [existing EXCEPT ![t] = {}]
    /\ UNCHANGED <<table, req, result, overlapped, wasExact>>

\* A store operation or the embedding raises: the caller gets no row.
Raise(t) ==
    /\ Active(t)
    /\ Return(t, "raised")
    /\ UNCHANGED table

-----------------------------------------------------------------------------
\* While one chunking configuration is in use, the rows of a document are all
\* present under one source or all absent, whatever calls overlap, raise, find no
\* store or reuse a stale read of the existing ids: a search never sees part of a
\* document, and "stored == {doc_key}" means every chunk of it is there.
DocumentIsWhole ==
    \A d \in Docs, z \in Sizes :
        \A i, j \in BuildChunkRecords(d, z) : table[i] = table[j]

\* The service opens the table earlier runs left, empty or not, with nothing under
\* way: the calls that ended or died with them left every document whole.
Init ==
    /\ table \in [ChunkIds -> Sources \cup {Absent}]
    /\ DocumentIsWhole
    /\ pc = [t \in Threads |-> "idle"]
    /\ req = [t \in Threads |-> NoCall]
    /\ existing = [t \in Threads |-> {}]
    /\ result = [t \in Threads |-> "none"]
    /\ overlapped = [t \in Threads |-> FALSE]
    /\ wasExact = [t \in Threads |-> FALSE]
    /\ misled = [t \in Threads |-> FALSE]

Step(t) ==
    \/ Reject(t)
    \/ Validate(t)
    \/ ReadKeys(t)
    \/ DeleteBySource(t)
    \/ ReadIds(t)
    \/ Upsert(t)
    \/ Unopened(t)

Next ==
    \E t \in Threads :
        \/ \E r \in Arrivals : Start(t, r)
        \/ Step(t)
        \/ Raise(t)

Spec == Init /\ [][Next]_vars

-----------------------------------------------------------------------------
(* Properties.                                                             *)

Steps == {"idle", "validate", "readKeys", "delete", "readIds", "upsert"}

\* Every variable has its type, and a thread has a call exactly while active.
TypeOK ==
    /\ table \in [ChunkIds -> Sources \cup {Absent}]
    /\ pc \in [Threads -> Steps]
    /\ req \in [Threads -> Requests \cup {NoCall}]
    /\ \A t \in Threads : Active(t) <=> req[t] # NoCall
    /\ existing \in [Threads -> SUBSET ChunkIds]
    /\ result \in [Threads -> {"none", "ok", "failed", "empty", "raised"}]
    /\ overlapped \in [Threads -> BOOLEAN]
    /\ wasExact \in [Threads -> BOOLEAN]
    /\ misled \in [Threads -> BOOLEAN]

\* A call that no conflicting call overlapped, whose key read and delete found the
\* store, and that reports ok leaves its source holding exactly the chunks of the
\* bytes it was given, whatever orphans, half-done replacements or borrowed rows
\* earlier calls left there, those that took a store for an empty one included.
LoneOkIsExact ==
    [][\A t \in Threads, s \in Sources :
        /\ Active(t)
        /\ ~overlapped[t] /\ ~misled[t]
        /\ result'[t] = "ok"
        /\ s = Source(req[t])
        => ChunkIdsForSource(s)' = Records(req[t])]_vars

\* Re-ingesting what a source already holds writes nothing: a lone call whose
\* source was exact when it began never changes the table, even when it takes the
\* store for an empty one.
LoneReingestIsIdempotent ==
    [][\A t \in Threads :
        wasExact[t] /\ ~overlapped[t] /\ pc'[t] # pc[t] => table' = table]_vars

\* What a reader finds of each document that has chunks.
Indexed == { DocKey(id) : id \in ChunkIds }

Found == [d \in Indexed |->
            { table[id] : id \in { j \in ChunkIds : DocKey(j) = d } }]

AsCatalog == INSTANCE Catalog WITH Docs <- Indexed, found <- Found

\* Ingestion implements the catalog: overlapping, failing and misled calls change
\* what a reader finds by whole documents and whole sources only.
ImplementsCatalog == AsCatalog!Spec

Quiescent == \A t \in Threads : ~Active(t)

\* At rest, a source holds rows of one version only.  This is what the store
\* says of delete_by_source ("what prevents orphans on re-ingest of a
\* *changed* file"); overlapping revisions break it, and so does a re-ingest that
\* takes the store for an empty one.
RestMeansOneVersion ==
    Quiescent => \A s \in Sources : Cardinality(DocKeysForSource(s)) <= 1
=============================================================================
