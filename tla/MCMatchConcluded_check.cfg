SPECIFICATION FairSpec
CONSTANTS
    f1 = f1
    a1 = a1
    b1 = b1
    workerA = workerA
    workerB = workerB
    Fixtures = {f1}
    Lanes = {a1, b1}
    Workers = {workerA, workerB}
    Host <- OneWorkerEach
    Reported = {"NS", "PST", "FT"}
    NoObservation = NoObservation
    MaxExpiries = 1
    MaxAmbiguous = 1
INVARIANTS
    DuplicatesExcused
    MarkerExplained
PROPERTIES
    PublishedStaysMarked
    PromiseKept
    ObservedIsAnnounced
