SPECIFICATION Spec
CONSTANTS
    service = service
    script = script
    t1 = t1
    t2 = t2
    t3 = t3
    m1 = m1
    m2 = m2
    None = None
    Processes <- MCProcesses
    Threads <- MCThreads
    Process <- MCProcess
    Models <- MCModels
    MaxVersions = 3
SYMMETRY Symmetry
CONSTRAINTS
    TwoAtATime
    ThirdCompared
    EndsSeen
INVARIANTS
    ComparableOnly
    ReadsAreFresh
PROPERTIES
    ExistingTableIsFound
    KeepsContract
