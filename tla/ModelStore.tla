------------------------------ MODULE ModelStore ------------------------------
(***************************************************************************)
(* What src/src/embeddings.py promises of a vector store: its vectors are  *)
(* of models it has accepted, and it accepts a second one only where       *)
(* assert_model_matches has nothing to compare with, or is not asked.  All *)
(* that is kept of the store is the set of models its vectors came from.   *)
(***************************************************************************)
CONSTANTS
    Models,
    Unasserted  \* may a store be opened without asserting the model?

VARIABLES
    stored,     \* models the vectors in the store came from
    accepted    \* models the store was opened with

Init ==
    /\ accepted \subseteq Models
    /\ \A m, n \in accepted : m = n
    /\ stored \subseteq accepted

\* assert_model_matches lets no other model in, unless it is not reached or the
\* store holds nothing it could be compared with.
Accept(m) ==
    /\ stored = {} \/ Unasserted
    /\ accepted' = accepted \cup {m}
    /\ UNCHANGED stored

Write(m) ==
    /\ m \in accepted
    /\ stored' = stored \cup {m}
    /\ UNCHANGED accepted

Delete ==
    /\ stored' \subseteq stored
    /\ UNCHANGED accepted

Next == Delete \/ \E m \in Models : Accept(m) \/ Write(m)

Spec == Init /\ [][Next]_<<stored, accepted>>
=============================================================================
