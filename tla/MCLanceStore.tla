----------------------------- MODULE MCLanceStore -----------------------------
(* Two request threads of the service and a script on the same directory.  *)
EXTENDS LanceStore, TLC

CONSTANTS service, script, t1, t2, t3, m1, m2

MCThreads == {t1, t2, t3}
MCProcesses == {service, script}
MCProcess == [t \in MCThreads |-> IF t = t3 THEN script ELSE service]
MCModels == {m1, m2}

\* The service's threads are alike, and so are the models.
Symmetry == { f @@ g : f \in Permutations({t1, t2}), g \in Permutations(MCModels) }

\* Bound: any two operations overlap, the third thread rests meanwhile.
TwoAtATime == \E t \in Threads : pc[t] = "idle"

\* Bound: a third version is worked on only where every opening of the table was
\* compared with the stamp.
ThirdCompared == Latest < 3 \/ unasserted = {}

\* How an operation ended is looked at in the step that ends it: nothing reads
\* it later, and the step that fails at the same place leaves the same state
\* with "done" in it.  Nothing is lost by going on only from there.
EndsSeen == \A t \in Threads : result[t] = "done"
=============================================================================
