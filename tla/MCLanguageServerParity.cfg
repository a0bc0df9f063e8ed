CONSTANTS
    f1 = f1
    f2 = f2
    Nobody = Nobody
    Raw = Raw
    Files <- MCFiles
    OpenAtStart <- MCFiles
    MaxRequests = 2
SPECIFICATION Spec
INVARIANTS
    DiagnosticParity
