CONSTANTS
    r1 = r1
    r2 = r2
    c1 = c1
    p1 = p1
    p2 = p2
    NoRun = NoRun
    Nobody = Nobody
    Runs <- MCRuns
    Cancels <- MCCancels
    Pages <- MCPages
    MaxEdits = 3
SPECIFICATION Spec
INVARIANTS
    TypeOK
    NoLostChange
PROPERTIES
    NeverBackwards
    KeepsSnapshots
SYMMETRY MCSymmetry
