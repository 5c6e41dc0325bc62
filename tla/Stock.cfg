SPECIFICATION HSpec
CONSTANTS
  Consumables = {c1}
  Workers = {w1}
  Departments = {d1, d2}
  Usages = {u1, u2}
  Reservations = {v1, v2}
  Requests = {r1, r2}
  Amounts = {1}
  MaxStock = 3
  Forces = {TRUE, FALSE}
  None = None
SYMMETRY Symmetry
INVARIANTS TypeOK StockBalances UsedUpByOneWithdrawal SerialReservations
\* Once every consumable is purged nothing is left to do.
CHECK_DEADLOCK FALSE
