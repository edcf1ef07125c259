CONSTANTS
  u = u
  g = g
  h = h
  User <- MCUser
  Group <- MCGroup
  NoElement = NoElement
  MaxElements = 2
  MaxTrouble = 1
SPECIFICATION Spec
SYMMETRY MCSymmetry
INVARIANT DroppedUserLeavesGroups
