SPECIFICATION Spec
CONSTANTS
  Tokens <- MCTokens
  Img = "img"
  CanDraw <- MCCanDraw
  Prompts <- TwoPrompts
  VisionPrompts <- ImagePrompts
  Surplus = 1
  Texts <- ScoreTexts
  Modes = {1, 2}
  DraftLimits = {0, 2}
  Budgets = {}
  MinTokens = 1
  NGram = 1
  MinDraft = 1
  Calls = {"score", "trim", "lora", "vision", "cancel"}
  Cuda = TRUE
  Faults = TRUE
  MaxLen = 4
INVARIANTS
  TypeOK
  CacheFaithful
  OneWeights
