SPECIFICATION Spec
CONSTANTS
  Devices <- MCDevices
  IDs <- MCIDs
  Board <- MCBoard
  Blank = Blank
  None = None
  d1 = d1
  d2 = d2
  i1 = i1
  i2 = i2
  i3 = i3
SYMMETRY Swap
INVARIANTS
  TypeOK
  HostKnows
  UniqueIDs
