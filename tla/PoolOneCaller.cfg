SPECIFICATION Spec
CONSTANTS
  c1 = c1
  NoOne = NoOne
  c2 = c2
  w1 = w1
  w2 = w2
  Callers <- OneCaller
  Workers <- TwoWorkers
  Totals = {0, 1, 3, 5}
  Line = 2
  MinRows = 4
INVARIANTS
  TypeOK
  ReturnedDone
  OnceEach
  TaskAlive
PROPERTIES
  EveryCallReturns
  Synchronous
