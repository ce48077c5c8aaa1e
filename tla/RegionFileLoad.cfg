SPECIFICATION Spec
CONSTANTS
  Writers = {main}
  Slots = {s1, s2}
  fresh = fresh
  edited = edited
  imported = imported
  Values <- MCValues
  Fresh = fresh
  SizeOf <- MCSizeOf
  Inflatable <- MCInflatable
  OffsetLimit = 8
  MaxSectors = 7
  Absent = Absent
  Blank = Blank
PROPERTIES
  LoadNeverOverwrites
