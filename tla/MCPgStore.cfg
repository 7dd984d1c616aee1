SPECIFICATION PgSpec
CONSTANTS
    service = service
    script = script
    t1 = t1
    t2 = t2
    m1 = m1
    m2 = m2
    None = None
    Processes <- MCProcesses
    Threads <- MCThreads
    Process <- MCProcess
    Models <- MCModels
PROPERTY PgKeepsContract
