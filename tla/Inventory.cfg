SPECIFICATION HSpec
CONSTANTS
  k1 = k1
  k2 = k2
  Items = {i1}
  Consumables = {c1, c2}
  Codes = {k1, k2}
  Strip <- Spaced
  Names = {n1}
  Categories = {g1}
  Fields = {f1}
  Requests = {r1, r2}
  None = None
SYMMETRY Symmetry
INVARIANTS TypeOK OneCodePerTable UnrestoredScan SerialValuesFit
\* Once everything is purged nothing is left to do.
CHECK_DEADLOCK FALSE
