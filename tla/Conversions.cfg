SPECIFICATION MCSpec
CONSTANTS
  Base = 8
  Word = 2048
  MaxBytes = 4
  Overshift = 0
  WordBytes = 3
  Nesting = 4
  Order <- MCOrder
  Leaves <- MCLeaves
  TagNames <- MCTagNames
  MaxBeside = 1
  Around <- MCAround
  Made <- MCMade
  Edits <- MCEdits
  Lacking <- MCLacking
  Side = 2
  Sections = 2
  Layers = 1
  GroundId = 2
  Others <- MCOthers
  Rests <- MCRests
  Fields <- MCFields
  MaxFields = 3
  MaxDepth = 2
  MaxSteps = 2
INVARIANTS
  RoundTrip
  WritersAgree
  CutShort
  FieldsInStep
  CutStringRefused
  TagRoundTrip
  LoadsWhatWasSaved
  FileMatchesWire
  LoadsForeign
  OwnCell
  OwnEntry
  PlacedBeside
CHECK_DEADLOCK FALSE
