--------------------------- MODULE MCThreadPool ---------------------------
(* Small instances of ThreadPool.                                          *)
EXTENDS ThreadPool

CONSTANTS c1, c2, w1, w2

OneCaller  == {c1}
TwoCallers == {c1, c2}
OneWorker  == {w1}
TwoWorkers == {w1, w2}
=============================================================================
