SPECIFICATION Spec
CONSTANTS
    Documents <- LossyDocuments
    Enumerators <- MCEnumerators
    Directives <- MCDirectives
    StepsPerLine = 12
INVARIANTS NothingLostSilently
