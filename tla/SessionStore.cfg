SPECIFICATION Spec
CONSTANTS
  Tokens <- MCTokens
  Img = "img"
  CanDraw <- MCCanDraw
  Prompts <- StorePrompts
  VisionPrompts <- NoText
  Surplus = 0
  Texts <- NoText
  Modes = {1}
  DraftLimits = {}
  Budgets = {0,4}
  MinTokens = 1
  NGram = 1
  MinDraft = 1
  Calls = {"disk", "restart"}
  Cuda = FALSE
  Faults = TRUE
  MaxLen = 3
INVARIANTS
  StoreWithinBudget
  OneOfEach
  CopiesFaithful
