---------------------------- MODULE MCResultsFile ----------------------------
EXTENDS ResultsFile, TLC

MCProbePrompts == << "probe", "repair" >>

ProcessSymmetry == Permutations(Processes)
=============================================================================
