SPECIFICATION Spec
CONSTANTS
  w1 = w1
  w2 = w2
  s1 = s1
  s2 = s2
  Workers = {w1, w2}
  Senders = {s1, s2}
  RowCount = 2
  Page = 1
  Attempts = 2
SYMMETRY MCSymmetry
INVARIANTS TypeOK DuplicatesExplained StatusTellsRows SuccessMeansDone
