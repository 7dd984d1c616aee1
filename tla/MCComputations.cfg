SPECIFICATION ComputationsSpec
CHECK_DEADLOCK FALSE
CONSTANTS
    Letters <- MCLetters
    Digits <- MCDigits
    Separators <- MCSeparators
    Documents <- MCDocuments
    Texts <- MCTexts
    Windows <- MCWindows
    Candidates <- MCCandidates
    BudgetParts = 1
    BudgetWhole = 3
    InScores <- MCInScores
    OutScores <- MCOutScores
    Answers <- MCAnswers
    Volumes <- MCVolumes
    Units <- MCUnits
    Size <- MCSize
    Closeness <- MCCloseness
    Claims <- MCClaims
    Grounds <- MCGrounds
    Citations = {"cite"}
    Articles = {"the"}
INVARIANTS
    WordsAndParagraphsSurvive
    ChunksFit
    NothingIsLost
    MarkersResolve
    ChosenTauIsBest
    F1RewardsContentOnce
    LocalScoreFollowsSupport
    ReportIsBackedByItsNumbers
