SPECIFICATION HFairSpec
CONSTANTS
  Processes = {p1, p2}
  Requests = {r1, r2}
  MaxCommit = 1
  Faults = {"kill"}
  None = None
INVARIANTS TypeOK UndisturbedLock UndisturbedLoad
PROPERTIES NeverBack UndisturbedRelease
