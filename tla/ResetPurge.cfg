SPECIFICATION HSpec
CONSTANTS
  Users = {u1}
  Tokens = {t1}
  Requests = {r1}
  None = None
SYMMETRY Symmetry
INVARIANTS PurgeGoesThrough
\* Rows are made once: a run ends when all users are purged.
CHECK_DEADLOCK FALSE
