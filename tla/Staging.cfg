SPECIFICATION Spec
CONSTANTS
  t1 = t1
  t2 = t2
  a1 = a1
  a2 = a2
  NoThread = NoThread
  Threads = {t1, t2}
  Second = {}
  Arrays = {a1, a2}
  MaxStaging = 2
  Liberties = {}
  MaxCopies = 3
INVARIANTS StagingInv
PROPERTIES IsDeferred
CHECK_DEADLOCK FALSE
