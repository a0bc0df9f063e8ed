CONSTANTS
    r1 = r1
    r2 = r2
    c1 = c1
    c2 = c2
    NoRun = NoRun
    Nobody = Nobody
    Runs <- MCRuns
    Cancels <- MCCancels
SPECIFICATION FairSpec
INVARIANTS
    TypeOK
    OneWorkerUnlessRaced
    NoStrayCancellation
PROPERTIES
    EveryCallReturns
    EveryRunAnswered
