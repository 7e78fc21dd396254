SPECIFICATION Spec
CONSTANTS
  c1 = c1
  c2 = c2
  k1 = k1
  k2 = k2
  t1 = t1
  t2 = t2
  Calls = {c1, c2}
  Keys = {k1, k2}
  Targets = {t1, t2}
  Unattached = Unattached
  NoFile = NoFile
  Same = Same
SYMMETRY MCSymmetry
INVARIANTS TypeOK BlobBacked NoStrayBlob
