------------------------------ MODULE MCQuery ------------------------------
(* A question the document of either source answers, the first one better, *)
(* and one restricted to the second source.                                *)
EXTENDS Query, TLC

CONSTANTS v1, terms, stores, legal, t1, t2

MCSymmetry == Permutations(Threads)

MCQuestions == {"open", "legal"}

MCSimilarity == [q \in MCQuestions |->
    (v1 :> 6) @@ (terms :> IF q = "legal" THEN 3 ELSE 1)]

MCFilter == ("open" :> None) @@ ("legal" :> legal)
=============================================================================
