SPECIFICATION FairSpec
CONSTANTS
  near = near
  far = far
  deep = deep
  Chunks = {near, far, deep}
  MaxFd = 8
INVARIANTS
  TypeOK
  NothingLeaks
  ServedFilesKept
  NumbersNotShared
  SavedUnlessHit
PROPERTIES
  StopEnds
