SPECIFICATION HSpec
CONSTANTS
  t1 = t1
  k1 = k1
  e1 = e1
  e2 = e2
  w1 = w1
  l1 = l1
  Tools = {t1}
  Supplies = {k1}
  Workers = {w1}
  Badged = {w1}
  Logins = {l1}
  LoginOf <- TheLogins
  Records = {e1, e2}
  ThingOf <- TheThings
  WorkerOf <- TheWorkers
  Unfit = {defekt, ausgemustert}
  Own = Own
  Copies = 2
  MaxDisposals = 1
  Imports = {i1}
  None = None
SYMMETRY Symmetry
INVARIANTS SerialStatus SerialGoesThrough
PROPERTIES SecondChangesNothing
CHECK_DEADLOCK FALSE
