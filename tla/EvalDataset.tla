----------------------------- MODULE EvalDataset -----------------------------
(***************************************************************************)
(* The frozen labels: scripts/build_eval_dataset.py finds the chunks that  *)
(* hold each marker sentence a judge wrote down.                           *)
(***************************************************************************)
EXTENDS Splitter

\* The chunks that contain the marker.
Matches(marker, chunks) == { i \in DOMAIN chunks : Occurrences(marker, chunks[i]) # {} }

\* The relevant chunks of a question, each once; none of the questions is
\* written when a marker of any matches no chunk.
Resolve(questions, chunks) ==
    IF chunks = <<>> \/ \E q \in DOMAIN questions : \E m \in questions[q] : Matches(m, chunks) = {}
    THEN <<>>
    ELSE [q \in DOMAIN questions |-> UNION { Matches(m, chunks) : m \in questions[q] }]
=============================================================================
