SPECIFICATION Spec
CONSTANTS
  home = home
  next = next
  low = low
  high = high
  air = air
  stone = stone
  grass = grass
  ore = ore
  Chunks = {home, next}
  Cells = {low, high}
  Blocks = {air, stone, grass, ore}
  Air = air
  Stone = stone
  Ground <- MCGround
  Imports <- MCImports
  Spawn = home
  Around <- MCAround
  MaxEdits = 1
  CanFail = FALSE
  Absent = Absent
  None = None
PROPERTIES
  EditChangesOneBlock
