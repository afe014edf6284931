SPECIFICATION Spec
CONSTANTS
  g1 = g1
  g2 = g2
  a1 = a1
  Nobody = Nobody
  Requests = {g1, g2}
  Admins = {a1}
  Mixes <- MCMixes
  Wish <- MCWish
  Last = 2
  Refusable = {2}
  Textual = {1}
  Parallel <- MCParallel
  MaxGroups = 2
  Jobs = {"unload", "sweep", "reconfigure", "remove", "rescan"}
INVARIANTS
  TypeOK
  OwnSettings
  StateTellsTheModel
PROPERTIES
  LetToOne
  UnloadsOnlyIdle
  EveryCallEnds
CHECK_DEADLOCK FALSE
