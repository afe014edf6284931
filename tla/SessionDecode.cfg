SPECIFICATION Spec
CONSTANTS
  Tokens <- MCTokens
  Img = "img"
  CanDraw <- MCCanDraw
  Prompts <- ForkPrompts
  VisionPrompts <- NoText
  Surplus = 0
  Texts <- ScoreTexts
  Modes = {0, 1}
  DraftLimits = {1, 3}
  Budgets = {0}
  MinTokens = 1
  NGram = 1
  MinDraft = 1
  Calls = {"score", "reset", "configure", "image", "restart"}
  Cuda = TRUE
  Faults = FALSE
  MaxLen = 6
INVARIANTS
  InContext
  NoGap
  PrefilledOnly
PROPERTIES
  ContinuesText
