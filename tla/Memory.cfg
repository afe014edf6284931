SPECIFICATION Spec
CONSTANTS
  doc = doc
  head = head
  body = body
  Names = {doc}
  Texts <- MCTexts
  Headings = {head}
  Chunk = 2
  MaxOutline = 2
  Widths = {1, 2}
  MaxLines = 5
  MaxCalls = 4
INVARIANTS
  TypeOK
  Whole
  VectorsAligned
  
  

  
CHECK_DEADLOCK FALSE
