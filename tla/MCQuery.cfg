SPECIFICATION Spec
SYMMETRY MCSymmetry
INVARIANTS
    RefusedIffIrrelevant
    CitesWhatItSaw
    LoggedOnce
CONSTANTS
    Threads = {t1, t2}
    Docs = {v1, terms}
    Sources = {stores, legal}
    Absent = Absent
    Questions <- MCQuestions
    Similarity <- MCSimilarity
    Filter <- MCFilter
    Threshold = 3
    TopK = 1
    MaxQueries = 2
    None = None
    v1 = v1
    terms = terms
    stores = stores
    legal = legal
    t1 = t1
    t2 = t2
