SPECIFICATION MCSpec
SYMMETRY ThreadSymmetry
INVARIANTS
    DocumentIsWhole
    RetriesConverge
PROPERTIES
    LoneOkIsExact
    LoneReingestIsIdempotent
    ImplementsCatalog
    AnswersAreTrue
CONSTANTS
    Threads = {t1, t2}
    Filenames <- MCFilenames
    Sources = {stores, copy, legal, exe, accented}
    Basename <- MCBasename
    Docs = {v1, v2, old, terms, blank, big}
    Sizes = {500}
    Texts <- MCTexts
    Split <- MCSplit
    Unreadable = {}
    Unsafe = {accented}
    Arrivals = {}
    Absent = Absent
    NoCall = NoCall
    SafeName <- MCSafeName
    Supported = {"stores.md", "up/stores.md", "copy.md", "terms.md", "t:erms.md"}
    TooLarge = {big}
    MaxFiles = 3
    ChunkSize = 500
    Batches <- MCBatches
    NoBatch = NoBatch
    v1 = v1
    v2 = v2
    old = old
    terms = terms
    blank = blank
    big = big
    stores = stores
    copy = copy
    legal = legal
    exe = exe
    accented = accented
