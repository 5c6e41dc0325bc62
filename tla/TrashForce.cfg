SPECIFICATION THSpec
CONSTANTS
  w1 = w1
  w2 = w2
  d1 = d1
  d2 = d2
  Items = {i1}
  Workers = {w1, w2}
  Departments = {d1, d2}
  Lendings = {l1, l2}
  Reservations = {v1}
  Requests = {r1}
  Slots = {a1}
  Home <- TwoHomes
  Forces = {TRUE, FALSE}
  Unfit = {defekt}
  None = None
SYMMETRY TSymmetry
PROPERTIES SerialStatus
\* Once everything is purged nothing is left to do.
CHECK_DEADLOCK FALSE
