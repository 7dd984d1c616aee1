------------------------------- MODULE Batch -------------------------------
(***************************************************************************)
(* Several files at once: POST /ingest of src/src/api.py and               *)
(* ingest_directory of src/src/ingest_service.py, which call ingest_bytes  *)
(* file by file.                                                           *)
(*                                                                         *)
(* The route turns a file away by its name or its size, collects one row   *)
(* per file, and answers when all are done; an exception out of one file   *)
(* ends the request, with the files before it stored.  Names are           *)
(* sanitised, so a file is stored under SafeName of the name it came with. *)
(***************************************************************************)
EXTENDS Ingest

CONSTANTS
    SafeName,   \* [Filenames -> Filenames], the base name's allowed characters
    Supported,  \* the file names with an extension that has a loader
    TooLarge,   \* documents above max_upload_bytes
    MaxFiles,   \* max_files_per_request
    ChunkSize,  \* the configured chunk size
    Batches,    \* what clients upload and operators walk
    NoBatch

ASSUME NamesAssumption ==
    /\ SafeName \in [Filenames -> Filenames]
    /\ ChunkSize \in Sizes

BatchType == [kind : {"upload", "walk"}, files : Seq(Filenames \X Docs)]

VARIABLES
    batch,      \* the batch each thread works on
    rows,       \* statuses, the outcome of each of its files so far
    reply,      \* how the thread's last batch was answered
    disturbed,  \* history: did another batch run while this one did, or was
                \* one of its calls misled?
    faulted     \* history: has any call raised or been misled?

batchVars == <<batch, rows, reply, disturbed, faulted>>

allVars == <<vars, batchVars>>

-----------------------------------------------------------------------------
Working(t) == batch[t] # NoBatch

Done(t) == Len(rows[t]) = Len(batch[t].files)

Upcoming(t) == batch[t].files[Len(rows[t]) + 1]

\* The route sanitises names; the walk keeps those of the directory.
NameOf(b, f) == IF b.kind = "upload" THEN SafeName[f[1]] ELSE f[1]

\* The call a file leads to.
FileRequest(b, f) ==
    [file |-> NameOf(b, f), doc |-> f[2], size |-> ChunkSize, skip |-> TRUE]

\* The route reports a file it turns away, the walk only sees what it can load.
TurnedAway(b, f) ==
    /\ b.kind = "upload"
    /\ NameOf(b, f) \notin Supported \/ f[2] \in TooLarge

Considered(b) ==
    IF b.kind = "upload" THEN b
    ELSE [b EXCEPT !.files = SelectSeq(@, LAMBDA f : f[1] \in Supported)]

\* What is left of a walk is a batch, which the provers cannot tell of SelectSeq.
ASSUME BatchesAssumption ==
    /\ Batches \subseteq BatchType
    /\ NoBatch \notin BatchType
    /\ \A b \in Batches : Considered(b) \in BatchType

Oversized(b) == b.kind = "upload" /\ Len(b.files) > MaxFiles

Begin(t, b) ==
    /\ ~Working(t)
    /\ ~Oversized(b)
    /\ batch' = [batch EXCEPT ![t] = Considered(b)]
    /\ rows' = [rows EXCEPT ![t] = <<>>]
    /\ reply' = [reply EXCEPT ![t] = "none"]
    /\ disturbed' = [u \in Threads |->
            IF u = t THEN \E v \in Threads \ {t} : Working(v)
                     ELSE disturbed[u] \/ Working(u)]
    /\ UNCHANGED <<vars, faulted>>

\* Too many files: refused before any is read.
Refuse(t, b) ==
    /\ ~Working(t)
    /\ Oversized(b)
    /\ reply' = [reply EXCEPT ![t] = "refused"]
    /\ UNCHANGED <<vars, batch, rows, disturbed, faulted>>

AddRow(t, status) == rows' = [rows EXCEPT ![t] = Append(@, status)]

\* A file without a loader or above the size limit becomes a failed row.
Screen(t) ==
    /\ Working(t) /\ ~Active(t) /\ ~Done(t)
    /\ TurnedAway(batch[t], Upcoming(t))
    /\ AddRow(t, "failed")
    /\ UNCHANGED <<vars, batch, reply, disturbed, faulted>>

Call(t) ==
    /\ Working(t) /\ ~Active(t) /\ ~Done(t)
    /\ ~TurnedAway(batch[t], Upcoming(t))
    /\ Start(t, FileRequest(batch[t], Upcoming(t)))
    /\ UNCHANGED batchVars

\* A step of ingest_bytes; its last one is the file's row.
Proceed(t) ==
    /\ Step(t)
    /\ IF pc'[t] = "idle" THEN AddRow(t, result'[t]) ELSE UNCHANGED rows
    /\ disturbed' = [disturbed EXCEPT ![t] = @ \/ misled'[t]]
    /\ faulted' = (faulted \/ misled'[t])
    /\ UNCHANGED <<batch, reply>>

End(t, answer) ==
    /\ batch' = [batch EXCEPT ![t] = NoBatch]
    /\ reply' = [reply EXCEPT ![t] = answer]
    /\ disturbed' = [disturbed EXCEPT ![t] = FALSE]
    /\ UNCHANGED rows

\* Fault: what a file raised is logged, and the batch goes on as if it were done.
Fail_Swallowed(t) ==
    /\ Raise(t)
    /\ AddRow(t, "ok")
    /\ UNCHANGED <<batch, reply, disturbed>>
    /\ faulted' = TRUE

\* A store error in the middle of a file escapes the loop.
Fail(t) ==
    /\ Raise(t)
    /\ End(t, "error")
    /\ faulted' = TRUE

\* Reading a file raises, or counting the rows for the answer.
Escape(t) ==
    /\ Working(t) /\ ~Active(t)
    /\ End(t, "error")
    /\ UNCHANGED <<vars, faulted>>

Answer(t) ==
    /\ Working(t) /\ ~Active(t) /\ Done(t)
    /\ End(t, "answered")
    /\ UNCHANGED <<vars, faulted>>

-----------------------------------------------------------------------------
BatchesIdle ==
    /\ batch = [t \in Threads |-> NoBatch]
    /\ rows = [t \in Threads |-> <<>>]
    /\ reply = [t \in Threads |-> "none"]
    /\ disturbed = [t \in Threads |-> FALSE]
    /\ faulted = FALSE

BatchInit == Init /\ BatchesIdle

BatchNext ==
    \E t \in Threads :
        \/ \E b \in Batches : Begin(t, b) \/ Refuse(t, b)
        \/ Screen(t)
        \/ Call(t)
        \/ Proceed(t)
        \/ Fail(t)
        \/ Escape(t)
        \/ Answer(t)

BatchSpec == BatchInit /\ [][BatchNext]_allVars

-----------------------------------------------------------------------------
(* Properties.                                                             *)

\* No two files of the batch replace each other.
Distinct(b) ==
    \A i, j \in DOMAIN b.files : i # j =>
        /\ b.files[i][2] # b.files[j][2]
        /\ Source(FileRequest(b, b.files[i])) # Source(FileRequest(b, b.files[j]))

\* A request that is answered tells the truth about every one of its files: each
\* has a row, and is ok exactly when it could be stored, the bad ones failing
\* without stopping the others.  When the files have names and bytes of their own,
\* no other batch ran meanwhile and none of its calls was misled, an ok file is
\* stored exactly, whatever earlier requests left half done.
AnswersAreTrue ==
    [][\A t \in Threads :
        Working(t) /\ reply'[t] = "answered"
        => \A i \in DOMAIN batch[t].files :
             LET r == FileRequest(batch[t], batch[t].files[i]) IN
             /\ i \in DOMAIN rows[t]
             /\ rows[t][i] = "ok" <=>
                   /\ ~TurnedAway(batch[t], batch[t].files[i])
                   /\ Accepted(r)
                   /\ Records(r) # {}
             /\ ~disturbed[t] /\ Distinct(batch[t]) /\ rows[t][i] = "ok"
                   => ChunkIdsForSource(Source(r)) = Records(r)]_allVars

\* The files of a batch that lead to something stored.
Storable(b) ==
    { i \in DOMAIN b.files :
        LET r == FileRequest(b, b.files[i]) IN
        ~TurnedAway(b, b.files[i]) /\ Accepted(r) /\ Records(r) # {} }

\* The revisions that every request brings, and brings alone: whatever it stores
\* under the source is that document, and it stores the document nowhere else.
Retried ==
    { p \in Sources \X Docs :
        \A b \in Batches : ~Oversized(b) =>
            LET c == Considered(b)
                r(i) == FileRequest(c, c.files[i])
            IN  /\ \E i \in Storable(c) : r(i).doc = p[2]
                /\ \A i \in Storable(c) : Source(r(i)) = p[1] <=> r(i).doc = p[2] }

\* However the retries of one revision interleave, whichever batch they are part
\* of and whatever revisions of other documents overlap beside them, once one is
\* answered, none is under way and no call raised or was misled, the source holds
\* exactly that revision: no old row, no lost row.
RetriesConverge ==
    /\ \A t \in Threads : ~Working(t)
    /\ \E t \in Threads : reply[t] = "answered"
    /\ ~faulted
    => \A p \in Retried :
            ChunkIdsForSource(p[1]) = BuildChunkRecords(p[2], ChunkSize)
=============================================================================
