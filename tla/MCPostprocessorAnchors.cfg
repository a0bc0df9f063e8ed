CONSTANTS
  None = None
  Projects <- MCProjects
  MaxDepth = 9

SPECIFICATION Spec

INVARIANTS
  AnchorsDiffer
