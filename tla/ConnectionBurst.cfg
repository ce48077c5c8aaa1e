SPECIFICATION Spec
CONSTANTS
  Chunks <- MCChunks
  Spawn <- MCSpawn
  Radius = 1
  Burst = 2
  MaxActs = 1
PROPERTIES
  LoginCompletes
