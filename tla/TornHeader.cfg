SPECIFICATION Spec
CONSTANTS
  a = a
  b = b
  c = c
  big = big
  None = None
  Images = {a, c}
  Compressed = {c}
  MaxPages = 2
  MaxFaults = 0
  CopyLen <- MCCopyLen
  RunLen <- MCRunLen
INVARIANT VerifiedIsInstalled
