SPECIFICATION OverlapSpec
INVARIANT RestMeansOneVersion
CONSTANTS
    Threads = {t1, t2}
    Filenames <- MCFilenames
    Sources = {stores}
    Basename <- MCBasename
    Docs = {old, v1, v2}
    Sizes = {500}
    Texts <- MCTexts
    Split <- MCSplit
    Unreadable = {}
    Unsafe = {}
    Arrivals <- RevisionArrivals
    Absent = Absent
    NoCall = NoCall
    old = old
    v1 = v1
    v2 = v2
    stores = stores
