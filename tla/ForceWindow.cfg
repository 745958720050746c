SPECIFICATION Spec
CONSTANTS
  a = a
  b = b
  c = c
  big = big
  None = None
  Images = {a}
  Compressed = {}
  MaxPages = 2
  MaxFaults = 3
  CopyLen <- MCCopyLen
  RunLen <- MCRunLen
INVARIANT ForcedStaysOut
