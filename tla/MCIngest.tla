------------------------------ MODULE MCIngest ------------------------------
(***************************************************************************)
(* Instances of Ingest for TLC: clients upload two revisions of a changed  *)
(* file, of which the store holds the version before.                      *)
(***************************************************************************)
EXTENDS Ingest

CONSTANTS old, v1, v2, stores

MCFilenames == {"stores.md"}

MCBasename == [f \in MCFilenames |-> stores]

\* All versions open with the same text.
MCTexts == {"opening", "rest", "revised rest", "new rest"}
MCSplit == [x \in Docs |-> [z \in Sizes |->
    CASE x = old -> <<"opening", "rest">>
      [] x = v1  -> <<"opening", "revised rest">>
      [] OTHER   -> <<"opening", "new rest">>]]

RevisionArrivals ==
    { [file |-> "stores.md", doc |-> x, size |-> 500, skip |-> TRUE] : x \in {v1, v2} }

HoldsOld ==
    /\ table = [id \in ChunkIds |-> IF DocKey(id) = old THEN stores ELSE Absent]
    /\ Init

\* The two overlap while every operation finds the store.
OverlapSpec == HoldsOld /\ [][Next /\ \A t \in Threads : ~misled'[t]]_vars

\* Any operation may find no store it can open.
UnopenedSpec == HoldsOld /\ [][Next]_vars
=============================================================================
