CONSTANTS
  None = None
  Projects <- MCProjects
  MaxDepth = 9

SPECIFICATION Spec

INVARIANTS
  TypeOK
  WalksUnwind
  AssetsReachThePage
  SubstitutionsAccounted
  RefsAccounted
  RefsLeadToAnchors
  ContentsLeadToHeadings
  SelectorsExclude
  OrphansAreUnreachable
  GuidesInOneChapter
  OnlyCyclesRecurse

PROPERTIES
  RunEnds
