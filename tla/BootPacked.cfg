SPECIFICATION FairSpec
CONSTANTS
  a = a
  b = b
  c = c
  big = big
  None = None
  Images = {a, c, big}
  Compressed = {c}
  MaxPages = 2
  MaxFaults = 0
  CopyLen <- MCCopyLen
  RunLen <- MCRunLen
INVARIANT SInv
INVARIANT JumpSafe
INVARIANT PartialGuarded
PROPERTY BootEnds
