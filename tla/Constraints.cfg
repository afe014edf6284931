SPECIFICATION Spec
CONSTANTS
  OpenTag <- MCOpen
  CloseTag <- MCClose
  Bytes <- MCBytes
  Tokens <- MCTokens
  Piece <- MCPiece
  Eog = {"end"}
  ToolSets <- MCToolSets
  Schemas <- MCSchemas
  Subschemas <- MCSubschemas
  Likely <- MCLikely
  Chatter <- MCChatter
  Definition <- MCDefinition
  Continuation <- MCContinuation
  MaxNesting = 2
  MaxDepth = 3
  MaxConfigs = 3
  MaxBlanks = 1
  MaxDoc <- MCMaxDoc
  MaxSwitch = 0
  Off = Off
  Cuda = TRUE
  Speculation = TRUE
  MaxDraft = 1
  MaxTokens = 11
  MaxPlain = 3
  MaxWayOut = 40
INVARIANTS
  MaskIsExact
  TracksTheText
  FinishedIsACall
  FinishedIsADocument
  EveryTextCanFinish
PROPERTIES
  DrawnUnderTheMask
