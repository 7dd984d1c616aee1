SPECIFICATION FairSpec
PROPERTIES
    CircuitStaysOpen
    AsksDeadOnce
    OutcomeIsEarned
    CallsReturn
CONSTANTS
    Threads = {t1, t2}
    Models = {groq, gemini, ollama}
    Chain <- MCChain
    Credentialed = {groq, ollama}
    Failures <- MCFailures
    MaxRetries = 1
    Threshold = 2
    None = None
    groq = groq
    gemini = gemini
    ollama = ollama
    t1 = t1
    t2 = t2
