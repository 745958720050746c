SPECIFICATION Spec
CONSTANTS
  Size = 4
  MaxArrivals = 8
  MaxBurst = 2
INVARIANT WholeMessage
