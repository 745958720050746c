SPECIFICATION FairSpec
CONSTANTS
  a = a
  b = b
  c = c
  big = big
  None = None
  Images = {a, b}
  Compressed = {}
  MaxPages = 2
  MaxFaults = 4
  CopyLen <- MCCopyLen
  RunLen <- MCRunLen
INVARIANT GiveUpAfterFaults
PROPERTY BootEnds
