SPECIFICATION FairSpec
CONSTANTS
  a = a
  b = b
  c = c
  big = big
  None = None
  Images = {a, b, big}
  Compressed = {}
  MaxPages = 2
  MaxFaults = 2
  CopyLen <- MCCopyLen
  RunLen <- MCRunLen
INVARIANT TInv
INVARIANT SInv
INVARIANT JumpSafe
INVARIANT PartialGuarded
PROPERTY CommittedUntilInstalled
PROPERTY ImplementsAtomicInstall
PROPERTY CommittedIsInstalled
