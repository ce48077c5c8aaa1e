SPECIFICATION Spec
CONSTANTS
  Base = 4
  Word = 512
  MaxBytes = 5
  Overshift = 0
  Packets <- MCPackets
  MaxSent = 2
  ReadSize = 10
INVARIANTS
  TypeOK
  AlignedUnlessCut
PROPERTIES
  ImplementsChannel
  DeliversUnlessBurst
  ReachesEnd
CHECK_DEADLOCK FALSE
