SPECIFICATION FairCatalogSpec
CONSTANTS
    Calls = {c1, c2, c3}
    Stop = Stop
    NoCall = NoCall
    NoGenres = NoGenres
    NoTask = NoTask
    horror = horror
    comedy = comedy
    Payloads <- SmallPayloads
INVARIANTS
    NoCallStranded
    NoProcessAfterClose
    NoGenreLost
    OneFetch
PROPERTIES
    FailuresStayPrivate
    AnswersAreFinal
    QueueNotForgotten
    CallsEndUnlessAbandoned
    CloseCompletes
    ImplementsCatalogue
    SearchesEnd
CHECK_DEADLOCK FALSE
