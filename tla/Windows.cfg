SPECIFICATION Spec
CONSTANTS
  Managers = {m1, m2}
  Index = {0, 1, 2, 3, 4, 5}
  Places <- PlacesUsed
  PushedByClient <- EventsPushed
  EventLiberties = {}
  MaxSubs = 2
  MaxDepth = 2
  Ids = {w1}
  Attributes = {"size"}
  Settings = {s1, s2}
  Codes = {2, 9}
  Positions = {0, 1}
  MaxInput = 2
INVARIANTS Safe OneOwner
PROPERTIES EachOnce AgreesWithSDL EventsHandled
CHECK_DEADLOCK FALSE
