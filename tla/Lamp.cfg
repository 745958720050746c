SPECIFICATION FairSpec
CONSTANTS
  CodeSets <- MCCodeSets
  BufferSize = 8
  Half = 2
INVARIANTS
  TypeOK
  Picture
  OnlySent
  LatestObeyed
PROPERTIES
  Obeyed
