SPECIFICATION Spec
CONSTANTS
  t1 = t1
  t2 = t2
  t3 = t3
  a1 = a1
  NoThread = NoThread
  Threads = {t1, t2, t3}
  Second = {}
  Arrays = {a1}
  MaxStaging = 2
  Liberties = {"pending", "threads"}
  MaxCopies = 3
INVARIANTS PoolSound
PROPERTIES CallsReturn
CHECK_DEADLOCK FALSE
