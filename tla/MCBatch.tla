------------------------------ MODULE MCBatch ------------------------------
(***************************************************************************)
(* Clients upload two revisions of one document, a copy of its bytes under *)
(* another name, retries of a second document and files that are turned    *)
(* away; an operator walks a directory beside them.  The store starts with *)
(* an older revision of the second document.                               *)
(***************************************************************************)
EXTENDS Batch, TLC

CONSTANTS v1, v2, old, terms, blank, big, stores, copy, legal, exe, accented

ThreadSymmetry == Permutations(Threads)

MCFilenames == {"stores.md", "up/stores.md", "copy.md", "terms.md", "t:erms.md", "tool.exe"}

MCSafeName == [f \in MCFilenames |->
    CASE f = "up/stores.md" -> "stores.md"
      [] f = "t:erms.md"  -> "terms.md"
      [] OTHER              -> f]

MCBasename == [f \in MCFilenames |->
    CASE f \in {"stores.md", "up/stores.md"} -> stores
      [] f = "copy.md"                       -> copy
      [] f = "terms.md"                      -> legal
      [] f = "tool.exe"                      -> exe
      [] OTHER                               -> accented]

\* Both revisions open with the same text.
MCSplit == [x \in Docs |-> [z \in Sizes |->
    CASE x = blank -> <<>>
      [] x = v1    -> <<"opening", "rest">>
      [] x = v2    -> <<"opening", "revised rest">>
      [] OTHER     -> <<"rest">>]]

MCTexts == {"opening", "rest", "revised rest"}

Upload(files) == [kind |-> "upload", files |-> files]

Walk(files) == [kind |-> "walk", files |-> files]

\* Every batch that is not refused brings the second document.
MCBatches ==
    { Upload(<< <<"tool.exe", blank>>, <<"stores.md", v1>>, <<"terms.md", terms>> >>),
      Upload(<< <<"up/stores.md", v2>>, <<"terms.md", big>>, <<"t:erms.md", terms>> >>),
      Upload(<< <<"stores.md", v1>>, <<"terms.md", v1>>, <<"tool.exe", v1>>,
                <<"stores.md", v1>> >>),
      Walk(<< <<"t:erms.md", v2>>, <<"tool.exe", big>>, <<"stores.md", blank>>,
              <<"copy.md", v1>>, <<"terms.md", terms>> >>) }

\* Of the tables of earlier runs, the one that holds the older revision.
MCInit ==
    /\ table = [id \in ChunkIds |-> IF DocKey(id) = old THEN legal ELSE Absent]
    /\ Init
    /\ BatchesIdle

MCSpec == MCInit /\ [][BatchNext]_allVars
=============================================================================
