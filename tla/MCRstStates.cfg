SPECIFICATION Spec
CONSTANTS
    Documents <- MCDocuments
    Enumerators <- MCEnumerators
    Directives <- MCDirectives
    StepsPerLine = 12
INVARIANTS TypeOK EachLineOnce LevelIsDepth OffsetsInStep MemoRestored EndsSoon
