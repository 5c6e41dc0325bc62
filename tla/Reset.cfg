SPECIFICATION HSpec
CONSTANTS
  Users = {u1}
  Tokens = {t1, t2}
  Requests = {r1, r2, r3}
  None = None
SYMMETRY Symmetry
INVARIANTS TypeOK SpentIsUsed
PROPERTIES SerialSpendsAll
\* Rows are made once: a run ends when all users are purged.
CHECK_DEADLOCK FALSE
