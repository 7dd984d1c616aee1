------------------------------ MODULE Catalog ------------------------------
(***************************************************************************)
(* What the vector table promises a reader, whatever ingestion does: a     *)
(* document is found whole or not at all, under one source.  Ingestion may *)
(* only take a document into a source or drop everything a source holds.   *)
(* That a source holds one version only is not promised: revisions may     *)
(* overlap, and an ingestion may take the table for an empty one.          *)
(***************************************************************************)
CONSTANTS Docs, Sources, Absent

VARIABLE found   \* the sources a reader finds each document's chunks under,
                 \* with Absent among them when a chunk is missing

\* Whatever the catalog starts with, it is whole.
Init == found \in [Docs -> { {s} : s \in Sources \cup {Absent} }]

Drop(s) ==
    found' = [d \in Docs |-> IF found[d] = {s} THEN {Absent} ELSE found[d]]

Take(d, s) == found' = [found EXCEPT ![d] = {s}]

Next == \E s \in Sources : Drop(s) \/ \E d \in Docs : Take(d, s)

Spec == Init /\ [][Next]_found
=============================================================================
