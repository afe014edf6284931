SPECIFICATION Spec
CONSTANTS
  c1 = c1
  NoOne = NoOne
  c2 = c2
  w1 = w1
  w2 = w2
  Callers <- TwoCallers
  Workers <- OneWorker
  Totals = {3}
  Line = 2
  MinRows = 4
INVARIANTS
  ReturnedDone
