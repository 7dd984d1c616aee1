SPECIFICATION ResultsSpec
CONSTANTS
    Processes = {p1, p2}
    Prompts = {"probe", "repair"}
    ProbePrompts <- MCProbePrompts
    MaxRuns = 3
SYMMETRY ProcessSymmetry
CHECK_DEADLOCK FALSE
INVARIANTS
    TextMatchesAnswers
    PaidOnce
PROPERTY LoneRunKeepsTheRest
