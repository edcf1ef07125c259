CONSTANTS
  Name <- MCName
  Thread <- MCThread
  t1 = t1
  t2 = t2
  NoElement = 0
  RenamesViews = TRUE
  MaxElements = 2
  MaxTrouble = 1
SPECIFICATION Spec
SYMMETRY MCSymmetry
CHECK_DEADLOCK FALSE
INVARIANTS TypeOK NoneDisposed NamesOnce ListsTheDatabase UnderOwnName
PROPERTIES GetsWhatItAsked
