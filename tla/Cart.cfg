SPECIFICATION Spec
CONSTANTS
  c1 = c1
  c2 = c2
  Items = {i1}
  Consumables = {k1}
  Customers = {c1, c2}
  Tabs = {t1, t2}
  Owner <- TheOwners
  Requests = {r1, r2}
  Stock = 2
  MaxAsked = 1
  None = None
SYMMETRY Symmetry
INVARIANTS OnceEach
PROPERTIES EveryEntryReported NothingUnseen
CHECK_DEADLOCK FALSE
