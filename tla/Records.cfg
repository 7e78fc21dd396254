SPECIFICATION Spec
CONSTANTS
  x1 = x1
  x2 = x2
  n1 = n1
  n2 = n2
  n3 = n3
  Nodes = {n1, n2, n3}
  Sessions = {x1, x2}
  Root = Root
  Absent = Absent
  Same = Same
  k1 = k1
  Kids = {k1}
  MaxOps = 1
  MaxNames = 1
SYMMETRY MCSymmetry
INVARIANTS TypeOK TreeIsForest OldIsPredecessor PathsAreStable NamesAreDense
