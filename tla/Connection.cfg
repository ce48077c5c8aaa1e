SPECIFICATION Spec
CONSTANTS
  Chunks <- MCChunks
  Spawn <- MCSpawn
  Radius = 1
  Burst = 2
  MaxActs = 2
INVARIANTS
  TypeOK
  HandledAsMeant
  OneKeepAlive
  WindowFollows
PROPERTIES
  Answered
  KeptAlive
  Released
