SPECIFICATION PSpec
CONSTANTS
  Services = {s1}
  Web = s1
  Admins <- TheAdmins
  DayLength = 3
  CheckHour = 1
  MaxSet = 1
  Attempts = {r1, r2}
  MaxFailures = 2
  MaxResets = 1
INVARIANTS OverrunBounded OneMailADay
PROPERTIES LockoutEnds Reported
CHECK_DEADLOCK FALSE
