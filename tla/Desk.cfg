SPECIFICATION HSpec
CONSTANTS
  Items = {i1}
  Workers = {w1, w2}
  Departments = {d1}
  Lendings = {l1, l2}
  Reservations = {v1, v2}
  Requests = {r1, r2}
  Unfit = {defekt}
  None = None
SYMMETRY Symmetry
INVARIANTS TypeOK OneOpenRow FulfilledMeansHandedOut
PROPERTIES ImplementsItemLedger SerialStatus SerialClaimLedger
\* Once every item and worker is deleted nothing is left to do.
CHECK_DEADLOCK FALSE
