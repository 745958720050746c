SPECIFICATION FairSpec
CONSTANTS
  Kinds = {"uart", "can"}
  Size = 12
  ShotSize = 16
  MinLen = 5
  MaxLen = 13
  HEAD = 18
  TAIL = 1
  Bytes = 32
  Cmds <- MCCmds
  Chunk = 3
  LineSize = 2
  MaxFaults = 1
INVARIANTS
  TypeOK
  ScanInBounds
  GoodFrameKept
  DeletesJudged
  OnlySent
  FirstTry
PROPERTIES
  ObeysAsked
  Answered
