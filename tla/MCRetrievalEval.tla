--------------------------- MODULE MCRetrievalEval ---------------------------
(* Two questions over up to four chunks, of which three are fetched.       *)
EXTENDS RetrievalEval, TLC

MCSymmetry == Permutations(Chunks)

MCDiscount == <<12, 8, 6>>
=============================================================================
