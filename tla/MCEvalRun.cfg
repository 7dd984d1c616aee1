SPECIFICATION Spec
INVARIANTS EveryQuestionCounts HeadlineIsMeasured TokensAddUp
PROPERTY LocalIsLastResort
CHECK_DEADLOCK FALSE
CONSTANTS
    ExpectsFallback <- MCExpectsFallback
    Models = {groq, gemini, mistral}
    Chain <- MCChain
    JudgeModel = mistral
    Credentialed = {gemini, mistral}
    MaxRepairs = 2
    Local = Local
    None = None
    groq = groq
    gemini = gemini
    mistral = mistral
