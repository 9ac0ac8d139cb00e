SPECIFICATION Spec
CONSTANTS
    m1 = m1
    m2 = m2
    m3 = m3
    m4 = m4
    Movies = {m1, m2, m3, m4}
    NoId = NoId
    None = None
    Year <- MCYear
    Ratings = {1, 2}
    Answers <- MCAnswers
    Requests <- MCRequests
    CandidateLimit = 3
    MaxResults = 2
    MaxSimilarFavorites = 2
INVARIANTS
    PreferencesNeverExclude
CHECK_DEADLOCK FALSE
