CONSTANTS
  Tools <- AllTools
  Modes <- AllModes
  MaxItems = 2
  Within <- AllWithin
  Exposed <- AllExposed
SPECIFICATION Spec
INVARIANTS
  DeclarationsHold
  WritesAreHonest
  NoFetchAfterCut
  HandlersAreDisciplined
