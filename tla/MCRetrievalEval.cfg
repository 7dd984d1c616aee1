SPECIFICATION RetrievalSpec
SYMMETRY MCSymmetry
INVARIANTS
    ScoresMatchTheStore
    PerfectRankingsScoreOne
    DeeperNeverHurts
    EveryQuestionCounted
CHECK_DEADLOCK FALSE
CONSTANTS
    Chunks = {c1, c2, c3, c4}
    NumQuestions = 2
    Depth = 3
    Sweep = {1, 2, 3}
    PrimaryK = 2
    One = 12
    Discount <- MCDiscount
    Null = Null
