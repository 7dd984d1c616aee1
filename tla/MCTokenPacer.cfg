SPECIFICATION FairSpec
INVARIANTS
    SentWithinBudget
    SleepsForAReason
PROPERTY AttemptsAreSent
CONSTANTS
    groq = groq
    ollama = ollama
    None = None
    Threads = {t1, t2}
    Models = {groq, ollama}
    Ceiling <- MCCeiling
    Estimates = {1, 5}
    Minute = 2
    MaxRetries = 1
    MaxCalls = 2
