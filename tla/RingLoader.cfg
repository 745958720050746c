SPECIFICATION FairSpec
CONSTANTS
  Size = 4
  MaxArrivals = 8
  MaxBurst = 1
INVARIANTS RingInv InOrder
PROPERTIES ImplementsQueue Drained
