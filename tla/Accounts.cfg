SPECIFICATION HSpec
CONSTANTS
  Users = {a1, u1}
  Seeded = {a1}
  Departments = {d1}
  Subjects = {s1}
  RoleNames = {nutzer, mitarbeiter}
  Requests = {r1, r2}
  Features = {"edit", "sso", "department", "lend"}
  None = None
SYMMETRY Symmetry
INVARIANTS TypeOK
PROPERTIES LetInByAnother SerialApproved SerialAdmin
