SPECIFICATION ImageSpec
CONSTANTS
  Objects = {o1, o2}
  Prints = {p1}
  LayerCounts = {2}
  Layouts = {"TransferSrc"}
  ImageLiberties = {}
  MaxTextures = 2
  MaxOdd = 1
  MaxRecorded = 3
INVARIANTS Safe LayoutsAgree Held
 
CHECK_DEADLOCK FALSE
SYMMETRY Alike
