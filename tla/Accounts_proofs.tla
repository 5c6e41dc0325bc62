---------------------------- MODULE Accounts_proofs ----------------------------
(***************************************************************************)
(* Theorems about Accounts for any users, departments, roles and subjects, *)
(* any number of requests in flight and any set of features.  What holds   *)
(* of the role table rests on its keys: every commit that adds role rows   *)
(* adds one per user and department, and the commit of a purge fails when  *)
(* it leaves a role row behind.                                            *)
(***************************************************************************)
EXTENDS MCAccounts, TLAPS

\* The table of roles: the primary key and the two foreign keys.
RolesOK ==
  /\ roles \subseteq Role
  /\ \A x, y \in roles : x[1] = y[1] /\ x[2] = y[2] => x = y
  /\ \A x \in roles : RowExists(x[1]) /\ x[2] \in departments

\* What a request knows of the user it is about and of who sent it.  Creating,
\* switching on and restoring an account is somebody else's; who edits or approves
\* the own account had read it as an active administrator's.
Knows(q) ==
  /\ q.pc \in {"create", "toggle", "edit", "edit.commit", "delete", "restore", "approve"} =>
       q.user \in Users /\ q.by \in Users
  /\ q.pc \in {"create", "toggle", "restore"} => q.by # q.user
  /\ q.pc = "approve" /\ q.by = q.user => q.row.active
  /\ q.pc \in {"edit", "edit.commit"} /\ q.by = q.user => q.row.admin /\ q.admin

Inv ==
  /\ users \in [Users -> User]
  /\ departments \subseteq Departments
  /\ RolesOK
  /\ borrowers \subseteq {u \in Users : RowExists(u)}
  /\ signedIn \subseteq Users
 
  /\ requests \in [Requests -> Request]
  /\ \A r \in Requests : Knows(requests[r])

-----------------------------------------------------------------------------
LEMMA RoleParts ==
  ASSUME NEW x \in Role
  PROVE  x[1] \in Users /\ x[2] \in Departments /\ x[3] \in RoleNames /\ x = <<x[1], x[2], x[3]>>
BY DEF Role

LEMMA NoRowIsUser == NoRow \in User /\ Admin \in User
<1>1. NoRow \in User
  BY DEF NoRow, User, Life
<1> QED
  BY <1>1 DEF Admin, User, Life

LEMMA IdleIsRequest == Idle \in Request /\ Idle.pc = "idle"
BY NoRowIsUser DEF Idle, Request, PC

\* A request reads on and changes no table.
LEMMA KeepInv ==
  ASSUME Inv, NEW r \in Requests, NEW q \in Request, Knows(q), Keep(r, q)
  PROVE  Inv'
<1>1. UNCHANGED <<users, departments, roles, borrowers, signedIn>>
  BY DEF Keep, tables
<1>2. /\ requests' \in [Requests -> Request]
      /\ \A s \in Requests : requests'[s] = IF s = r THEN q ELSE requests[s]
  BY DEF Inv, Keep, Continue
<1>3. RolesOK'
  BY <1>1 DEF Inv, RolesOK, RowExists
<1> QED
  BY <1>1, <1>2, <1>3 DEF Inv, RowExists, Knows

\* A request ends; the tables it leaves behind are in order.
LEMMA FinishInv ==
  ASSUME Inv, NEW r \in Requests, Finish(r), signedIn' = signedIn,
         users' \in [Users -> User], departments' \subseteq Departments, RolesOK',
         borrowers' \subseteq {u \in Users : RowExists(u)'}
  PROVE  Inv'
<1>1. /\ requests' \in [Requests -> Request]
      /\ \A s \in Requests : requests'[s] = IF s = r THEN Idle ELSE requests[s]
  BY IdleIsRequest DEF Inv, Finish
<1>2. \A s \in Requests : Knows(requests[s])'
  BY <1>1, IdleIsRequest DEF Inv, Knows
<1> QED
  BY <1>1, <1>2 DEF Inv

\* The handlers that are given a user read the caller and the user.
LEMMA LoadInv ==
  ASSUME Inv, NEW r \in Requests, NEW c \in Users, NEW u \in Users,
         NEW handler \in {"create", "toggle", "delete", "restore", "approve"},
         NEW row \in {NoRow, users[u]}, Load(r, c, handler, u, row),
         handler \in {"create", "toggle", "restore"} => u # c,
         handler = "approve" => row = users[u]
  PROVE  Inv'
<1> DEFINE q == [Idle EXCEPT !.pc = handler, !.by = c, !.user = u, !.row = row]
<1>1. row \in User
  BY NoRowIsUser DEF Inv
<1>2. q \in Request /\ q.pc = handler /\ q.user = u /\ q.by = c /\ q.row = row
  BY <1>1, IdleIsRequest DEF Request, PC, Handlers
<1>3. Keep(r, q) /\ users[c].active
  BY DEF Load, MayCall, IsAdmin, Usable
<1> HIDE DEF q
<1> QED
  BY <1>2, <1>3, KeepInv DEF Knows

LEMMA ReadInv ==
  ASSUME Inv, NEW r \in Requests,
         \/ \E c, u \in Users : \/ CreateLoad(r, c, u) \/ ToggleLoad(r, c, u)
                                \/ DeleteLoad(r, c, u) \/ RestoreLoad(r, c, u)
                                \/ ApproveLoad(r, c, u)
  PROVE  Inv'
<1> PICK c \in Users, u \in Users : \/ CreateLoad(r, c, u) \/ ToggleLoad(r, c, u)
                                     \/ DeleteLoad(r, c, u) \/ RestoreLoad(r, c, u)
                                     \/ ApproveLoad(r, c, u)
  OBVIOUS
\* The caller is in use, what is created or restored is not.
<1>1. MayCall(c) => users[c].life = "active"
  BY DEF MayCall, IsAdmin, Usable
<1>2. CASE CreateLoad(r, c, u) \/ RestoreLoad(r, c, u)
  <2>1. u # c
    BY <1>1, <1>2 DEF CreateLoad, RestoreLoad, Load
  <2> QED
    BY <1>2, <2>1, LoadInv DEF CreateLoad, RestoreLoad
<1>3. CASE ToggleLoad(r, c, u)
  BY <1>3, LoadInv DEF ToggleLoad
<1>4. CASE DeleteLoad(r, c, u)
  BY <1>4, LoadInv DEF DeleteLoad
<1>5. CASE ApproveLoad(r, c, u)
  BY <1>5, LoadInv DEF ApproveLoad
<1> QED
  BY <1>2, <1>3, <1>4, <1>5

LEMMA EditLoadInv ==
  ASSUME Inv, NEW r \in Requests, NEW c \in Users, NEW u \in Users,
         NEW admin \in BOOLEAN, EditLoad(r, c, u, admin)
  PROVE  Inv'
<1> DEFINE q == [Idle EXCEPT !.pc = "edit", !.by = c, !.user = u, !.row = users[u], !.admin = admin]
<1>1. users[u] \in User
  BY DEF Inv
<1>2. /\ q \in Request /\ q.pc = "edit" /\ q.user = u /\ q.by = c
      /\ q.row = users[u] /\ q.admin = admin
  BY <1>1, IdleIsRequest DEF Request, PC, Handlers
<1>3. Keep(r, q) /\ users[c].admin /\ (u = c => admin)
  BY DEF EditLoad, MayCall, IsAdmin
<1> HIDE DEF q
<1> QED
  BY <1>2, <1>3, KeepInv DEF Knows

LEMMA EditRolesInv ==
  ASSUME Inv, NEW r \in Requests, EditRoles(r)
  PROVE  Inv'
<1> DEFINE q == [requests[r] EXCEPT !.pc = "edit.commit", !.seen = RolesOf({requests[r].user})]
<1>1. requests[r] \in Request /\ requests[r].pc = "edit" /\ Knows(requests[r])
  BY DEF Inv, EditRoles, At
<1>2. RolesOf({requests[r].user}) \subseteq Role
  BY DEF Inv, RolesOK, RolesOf
<1>3. /\ q \in Request /\ q.pc = "edit.commit" /\ q.user = requests[r].user
      /\ q.by = requests[r].by /\ q.row = requests[r].row /\ q.admin = requests[r].admin
  BY <1>1, <1>2 DEF Request, PC
<1>4. Keep(r, q)
  BY DEF EditRoles
<1> HIDE DEF q
<1> QED
  BY <1>1, <1>3, <1>4, KeepInv DEF Knows

LEMMA PurgeReadInv ==
  ASSUME Inv, NEW r \in Requests, NEW c \in Users, NEW handler \in {"purge", "reject"},
         NEW S \in SUBSET Users, NEW force, PurgeRead(r, c, handler, S, force)
  PROVE  Inv'
<1> DEFINE q == [Idle EXCEPT !.pc = handler, !.by = c, !.purge = S, !.seen = RolesOf(S)]
<1>1. RolesOf(S) \subseteq Role
  BY DEF Inv, RolesOK, RolesOf
<1>2. q \in Request /\ q.pc = handler
  BY <1>1, IdleIsRequest DEF Request, PC, Handlers
<1>3. Keep(r, q)
  BY DEF PurgeRead
<1> HIDE DEF q
<1> QED
  BY <1>2, <1>3, KeepInv DEF Knows

LEMMA OidcUnknownInv ==
  ASSUME Inv, NEW r \in Requests, NEW s \in Subjects, OidcUnknown(r, s)
  PROVE  Inv'
<1> DEFINE q == [Idle EXCEPT !.pc = "oidc.create", !.sub = s]
<1>1. q \in Request /\ q.pc = "oidc.create"
  BY IdleIsRequest DEF Request, PC
<1>2. Keep(r, q)
  BY DEF OidcUnknown
<1> HIDE DEF q
<1> QED
  BY <1>1, <1>2, KeepInv DEF Knows

LEMMA DepartmentLoadInv ==
  ASSUME Inv, NEW r \in Requests, NEW c \in Users, NEW d \in Departments, NEW force,
         DepartmentLoad(r, c, d, force)
  PROVE  Inv'
<1> DEFINE q == [Idle EXCEPT !.pc = "department", !.by = c, !.dept = d, !.purge = Members(d),
                             !.seen = RolesOf(Members(d)) \cup RolesIn(d)]
<1>1. RolesOf(Members(d)) \cup RolesIn(d) \subseteq Role /\ Members(d) \subseteq Users
  BY DEF Inv, RolesOK, RolesOf, RolesIn, Members
<1>2. q \in Request /\ q.pc = "department"
  BY <1>1, IdleIsRequest DEF Request, PC, Handlers
<1>3. Keep(r, q)
  BY DEF DepartmentLoad
<1> HIDE DEF q
<1> QED
  BY <1>2, <1>3, KeepInv DEF Knows

\* A login gives a cookie and changes nothing else.
LEMMA LoginInv ==
  ASSUME Inv, NEW u \in Users,
         Login(u) \/ \E r \in Requests, s \in Subjects : OidcFound(r, s, u)
  PROVE  Inv'
<1>1. UNCHANGED <<users, departments, roles, borrowers, requests>>
  BY DEF Login, OidcFound, tables
<1>2. signedIn' \subseteq Users
  BY <1>1 DEF Login, OidcFound, SignIn, Inv
<1>3. RolesOK'
  BY <1>1 DEF Inv, RolesOK, RowExists
<1> QED
  BY <1>1, <1>2, <1>3 DEF Inv, RowExists, Knows

-----------------------------------------------------------------------------
\* The row of a user is updated and stays.
LEMMA UpdateRow ==
  ASSUME Inv, NEW r \in Requests, NEW u \in Users, NEW row \in User, Update(r, u, row),
         row.life \in {"active", "trashed"}
  PROVE  /\ users' \in [Users -> User]
         /\ \A v \in Users : RowExists(v) => RowExists(v)'
BY DEF Inv, Update, RowExists

LEMMA UpdateInv ==
  ASSUME Inv, NEW r \in Requests, NEW u \in Users, NEW row \in User, Update(r, u, row),
         row.life \in {"active", "trashed"},
         Finish(r), RolesOK', UNCHANGED <<departments, borrowers, signedIn>>
  PROVE  Inv'
<1>1. borrowers' \subseteq {v \in Users : RowExists(v)'}
  BY UpdateRow DEF Inv
<1>2. departments' \subseteq Departments
  BY DEF Inv
<1> QED
  BY <1>1, <1>2, UpdateRow, FinishInv

\* toggle_user, delete_user and restore_user do not touch the roles.
LEMMA FlagsInv ==
  ASSUME Inv, NEW r \in Requests, ToggleCommit(r) \/ DeleteCommit(r) \/ RestoreCommit(r)
  PROVE  Inv'
<1> DEFINE q == requests[r]
           u == q.user
<1>1. u \in Users /\ q \in Request
  BY DEF Inv, Knows, ToggleCommit, DeleteCommit, RestoreCommit, At
<1>2. users[u] \in User /\ q.row \in User
  BY <1>1 DEF Inv, Request
<1>3. PICK row \in User : /\ Update(r, u, row) /\ row.life \in {"active", "trashed"}
  <2>1. CASE ToggleCommit(r)
    <3> DEFINE row == [users[u] EXCEPT !.active = ~q.row.active]
    <3>1. row \in User /\ row.life = users[u].life
      BY <1>2 DEF User
    <3>2. Update(r, u, row)
      BY <2>1 DEF ToggleCommit
    <3> HIDE DEF row
    <3>3. row.life \in {"active", "trashed"}
      BY <3>1, <3>2 DEF Update, RowExists
    <3> QED
      BY <3>1, <3>2, <3>3
  <2>2. CASE DeleteCommit(r)
    BY <1>2, <2>2 DEF DeleteCommit, User, Life
  <2>3. CASE RestoreCommit(r)
    BY <1>2, <2>3 DEF RestoreCommit, User, Life
  <2> QED
    BY <2>1, <2>2, <2>3
<1>4. Finish(r) /\ UNCHANGED <<departments, roles, borrowers, signedIn>>
  BY DEF ToggleCommit, DeleteCommit, RestoreCommit
<1>5. RolesOK'
  <2>1. \A x \in roles : x[1] \in Users
    BY RoleParts DEF Inv, RolesOK
  <2> QED
    BY <1>1, <1>3, <1>4, <2>1, UpdateRow DEF Inv, RolesOK
<1> QED
  BY <1>1, <1>3, <1>4, <1>5, UpdateInv

\* Role rows whose keys are new may be added, if what they point to is there.
LEMMA AddRoles ==
  ASSUME Inv, NEW rows \in SUBSET Role,
         \A x, y \in rows : x[1] = y[1] /\ x[2] = y[2] => x = y,
         \A x \in rows, y \in roles : ~(x[1] = y[1] /\ x[2] = y[2]),
         \A x \in rows : RowExists(x[1])' /\ x[2] \in departments,
         \A u \in Users : RowExists(u) => RowExists(u)',
         roles' = roles \cup rows, departments' = departments
  PROVE  RolesOK'
<1>1. \A x \in roles : x[1] \in Users
  BY RoleParts DEF Inv, RolesOK
<1>2. \A x \in roles' : RowExists(x[1])' /\ x[2] \in departments'
  BY <1>1 DEF Inv, RolesOK
<1>3. \A x, y \in roles' : x[1] = y[1] /\ x[2] = y[2] => x = y
  BY DEF Inv, RolesOK
<1> QED
  BY <1>2, <1>3 DEF RolesOK, Inv

\* The roles a form grants to one user in one department.
LEMMA GrantedRows ==
  ASSUME NEW u \in Users, NEW d \in Departments, NEW grant \in Grants
  PROVE  /\ {<<u, d, g>> : g \in grant} \subseteq Role
         /\ \A x \in {<<u, d, g>> : g \in grant} : x[1] = u /\ x[2] = d
         /\ \A x, y \in {<<u, d, g>> : g \in grant} : x = y
BY DEF Grants, Role

LEMMA CreateInv ==
  ASSUME Inv, NEW r \in Requests, NEW d \in Departments, NEW admin \in BOOLEAN,
         NEW grant \in Grants, CreateCommit(r, d, admin, grant)
  PROVE  Inv'
<1> DEFINE u == requests[r].user
           row == [NoRow EXCEPT !.life = "active", !.admin = admin, !.active = TRUE,
                                !.approved = TRUE, !.badge = TRUE, !.dept = d]
           given == IF admin THEN {} ELSE grant
<1>0. PICK v \in Users : v = u
  BY DEF Inv, Knows, CreateCommit, At
<1>1. row \in User /\ row.life = "active"
  BY NoRowIsUser DEF User, Life
<1>2. users' = [users EXCEPT ![v] = row] /\ users[v].life = "absent"
  BY <1>0 DEF CreateCommit
<1> HIDE DEF row
<1>3. /\ users' \in [Users -> User] /\ RowExists(v)'
      /\ \A x \in Users : RowExists(x) => RowExists(x)'
  BY <1>1, <1>2 DEF Inv, RowExists
<1>4. /\ Finish(r) /\ UNCHANGED <<departments, borrowers, signedIn>> /\ d \in departments
      /\ roles' = roles \cup {<<v, d, g>> : g \in given}
  BY <1>0 DEF CreateCommit
<1>5. RolesOK'
  <2>1. given \in Grants
    BY DEF Grants
  <2>2. \A y \in roles : y[1] # v
    BY <1>2 DEF Inv, RolesOK, RowExists
  <2> HIDE DEF given
  <2> DEFINE rows == {<<v, d, g>> : g \in given}
  <2>3. /\ rows \in SUBSET Role
        /\ \A x \in rows : x[1] = v /\ x[2] = d
        /\ \A x, y \in rows : x = y
    BY <2>1, GrantedRows
  <2>4. roles' = roles \cup rows
    BY <1>4
  <2> HIDE DEF rows
  <2> QED
    BY <1>3, <1>4, <2>2, <2>3, <2>4, AddRoles
<1>6. borrowers' \subseteq {x \in Users : RowExists(x)'}
  BY <1>3, <1>4 DEF Inv
<1> QED
  BY <1>3, <1>4, <1>5, <1>6, FinishInv DEF Inv

LEMMA OidcCreateInv ==
  ASSUME Inv, NEW r \in Requests, NEW u \in Users, OidcCreate(r, u)
  PROVE  Inv'
<1> DEFINE row == [NoRow EXCEPT !.life = "active", !.sub = requests[r].sub]
<1>0. requests[r].sub \in Subjects \cup {None}
  BY DEF Inv, Request
<1>1. row \in User /\ row.life = "active"
  BY <1>0, NoRowIsUser DEF User, Life
<1>2. /\ users' = [users EXCEPT ![u] = row] /\ users[u].life = "absent"
      /\ Finish(r) /\ UNCHANGED <<departments, roles, borrowers, signedIn>>
  BY DEF OidcCreate
<1> HIDE DEF row
<1>3. /\ users' \in [Users -> User]
      /\ \A x \in Users : RowExists(x) => RowExists(x)'
  BY <1>1, <1>2 DEF Inv, RowExists
<1>4. RolesOK'
  BY <1>2, <1>3, RoleParts DEF Inv, RolesOK
<1>5. borrowers' \subseteq {x \in Users : RowExists(x)'}
  BY <1>2, <1>3 DEF Inv
<1> QED
  BY <1>2, <1>3, <1>4, <1>5, FinishInv DEF Inv

-----------------------------------------------------------------------------
\* The role fields of the edit form: at most one role per department.
LEMMA FormRows ==
  ASSUME Inv, NEW u \in Users, NEW form \in Forms(u)
  PROVE  /\ form \subseteq Role
         /\ \A x \in form : x[1] = u /\ x[2] \in departments
         /\ \A x, y \in form : x[2] = y[2] => x = y
<1>1. PICK f \in [departments -> RoleNames \cup {None}] :
        form = {<<u, d, f[d]>> : d \in {e \in departments : f[e] # None}}
  BY DEF Forms
<1>2. \A x \in form : \E d \in departments : f[d] \in RoleNames /\ x = <<u, d, f[d]>>
  BY <1>1
<1>3. departments \subseteq Departments
  BY DEF Inv
<1> QED
  BY <1>2, <1>3 DEF Role

\* update_user changes the role rows it read, adds those it did not read and
\* deletes those the form leaves out.
LEMMA EditCommitInv ==
  ASSUME Inv, NEW r \in Requests, NEW d \in Departments,
         NEW form \in Forms(requests[r].user), EditCommit(r, d, form)
  PROVE  Inv'
<1> DEFINE q == requests[r]
           wish == IF q.admin THEN {} ELSE form
           added == {x \in wish : <<x[1], x[2]>> \notin Keys(q.seen)}
           changed == (wish \ added) \ q.seen
           dropped == Keys(q.seen) \ Keys(wish)
           touched == dropped \cup Keys(changed)
<1>0. PICK v \in Users : v = q.user
  BY DEF Inv, Knows, EditCommit, At
<1> DEFINE row == [users[v] EXCEPT !.admin = Flushed(q.row.admin, q.admin, users[v].admin),
                                   !.dept  = Flushed(q.row.dept, d, users[v].dept),
                                   !.badge = TRUE]
<1>1. users[v] \in User /\ q \in Request /\ q.row \in User
  BY DEF Inv, Request
<1>2. row \in User /\ row.life = users[v].life
  <2>1. Flushed(q.row.admin, q.admin, users[v].admin) \in BOOLEAN
    BY <1>1 DEF Flushed, User, Request
  <2>2. Flushed(q.row.dept, d, users[v].dept) \in Departments \cup {None}
    BY <1>1 DEF Flushed, User
  <2> QED
    BY <1>1, <2>1, <2>2 DEF User
<1>3. Update(r, v, row)
  BY <1>0 DEF EditCommit
<1> HIDE DEF row
<1>4. row.life \in {"active", "trashed"} /\ RowExists(v)'
  BY <1>2, <1>3 DEF Update, RowExists, Inv
<1>5. /\ Finish(r) /\ UNCHANGED <<departments, borrowers, signedIn>>
      /\ Keys(added) \cap Keys(roles) = {}
      /\ roles' = {x \in roles : <<x[1], x[2]>> \notin touched} \cup added \cup changed
  BY DEF EditCommit
<1>6. /\ wish \subseteq Role
      /\ \A x \in wish : x[1] = v /\ x[2] \in departments
      /\ \A x, y \in wish : x[2] = y[2] => x = y
  BY <1>0, FormRows
<1>7. RolesOK'
  <2>1. added \subseteq wish /\ changed \subseteq wish
    OBVIOUS
  <2>2. \A x \in added, y \in roles : <<x[1], x[2]>> # <<y[1], y[2]>>
    BY <1>5 DEF Keys
  <2>3. \A x \in changed : <<x[1], x[2]>> \in touched
    BY DEF Keys
  <2> HIDE DEF wish, added, changed, dropped, touched
  <2>4. \A x \in roles' : \/ x \in roles /\ <<x[1], x[2]>> \notin touched
                          \/ x \in added
                          \/ x \in changed
    BY <1>5
  <2>5. \A x, y \in wish : x[1] = y[1] /\ x[2] = y[2] => x = y
    BY <1>6
  <2>6. \A x, y \in roles' : x[1] = y[1] /\ x[2] = y[2] => x = y
    <3> SUFFICES ASSUME NEW x \in roles', NEW y \in roles', x[1] = y[1], x[2] = y[2]
                 PROVE  x = y
      OBVIOUS
    <3>1. <<x[1], x[2]>> = <<y[1], y[2]>>
      OBVIOUS
    <3>2. CASE x \in roles /\ y \in roles
      BY <3>2 DEF Inv, RolesOK
    <3>3. CASE x \in wish /\ y \in wish
      BY <3>3, <2>5
    <3>4. x \in roles /\ <<x[1], x[2]>> \notin touched => y \in roles \/ (y \in wish /\ x \in wish)
      BY <3>1, <2>2, <2>3, <2>4
    <3>5. y \in roles /\ <<y[1], y[2]>> \notin touched => x \in roles \/ (y \in wish /\ x \in wish)
      BY <3>1, <2>2, <2>3, <2>4
    <3> QED
      BY <2>1, <2>4, <3>2, <3>3, <3>4, <3>5
  <2>7. \A x \in roles' : RowExists(x[1])' /\ x[2] \in departments'
    <3> SUFFICES ASSUME NEW x \in roles'
                 PROVE  RowExists(x[1])' /\ x[2] \in departments'
      OBVIOUS
    <3>1. CASE x \in roles
      <4>1. x[1] \in Users /\ RowExists(x[1]) /\ x[2] \in departments
        BY <3>1, RoleParts DEF Inv, RolesOK
      <4> QED
        BY <4>1, <1>2, <1>3, <1>4, <1>5, UpdateRow
    <3>2. CASE x \in wish
      BY <3>2, <1>4, <1>5, <1>6
    <3> QED
      BY <2>1, <2>4, <3>1, <3>2
  <2>8. roles' \subseteq Role
    BY <2>1, <2>4, <1>6 DEF Inv, RolesOK
  <2> QED
    BY <2>6, <2>7, <2>8 DEF RolesOK
<1> QED
  BY <1>2, <1>3, <1>4, <1>5, <1>7, UpdateInv

LEMMA ApproveInv ==
  ASSUME Inv, NEW r \in Requests, NEW d \in Departments, NEW grant \in Grants,
         ApproveCommit(r, d, grant)
  PROVE  Inv'
<1> DEFINE q == requests[r]
<1>0. PICK v \in Users : v = q.user
  BY DEF Inv, Knows, ApproveCommit, At
<1> DEFINE row == [users[v] EXCEPT !.dept   = Flushed(q.row.dept, d, users[v].dept),
                                   !.active = Flushed(q.row.active, TRUE, users[v].active),
                                   !.approved = TRUE]
           rows == {<<v, d, g>> : g \in grant}
<1>1. users[v] \in User /\ q.row \in User
  BY DEF Inv, Request
<1>2. row \in User /\ row.life = users[v].life
  <2>1. Flushed(q.row.active, TRUE, users[v].active) \in BOOLEAN
    BY <1>1 DEF Flushed, User
  <2>2. Flushed(q.row.dept, d, users[v].dept) \in Departments \cup {None}
    BY <1>1 DEF Flushed, User
  <2> QED
    BY <1>1, <2>1, <2>2 DEF User
<1>3. Update(r, v, row)
  BY <1>0 DEF ApproveCommit
<1> HIDE DEF row
<1>4. row.life \in {"active", "trashed"} /\ RowExists(v)'
  BY <1>2, <1>3 DEF Update, RowExists, Inv
<1>5. /\ Finish(r) /\ UNCHANGED <<departments, borrowers, signedIn>> /\ d \in departments
      /\ Keys(rows) \cap Keys(roles) = {} /\ roles' = roles \cup rows
  BY <1>0 DEF ApproveCommit
<1>6. /\ rows \in SUBSET Role
      /\ \A x \in rows : x[1] = v /\ x[2] = d
      /\ \A x, y \in rows : x = y
  BY GrantedRows
<1> HIDE DEF rows
<1>7. \A x \in rows, y \in roles : <<x[1], x[2]>> # <<y[1], y[2]>>
  BY <1>5 DEF Keys
<1>8. \A u \in Users : RowExists(u) => RowExists(u)'
  BY <1>2, <1>3, <1>4, UpdateRow
<1>9. RolesOK'
  BY <1>4, <1>5, <1>6, <1>7, <1>8, AddRoles
<1> QED
  BY <1>2, <1>3, <1>4, <1>5, <1>9, UpdateInv

-----------------------------------------------------------------------------
\* What a purge leaves behind: the flush fails when a role row would point to
\* a user who is gone, and the open lendings are closed first.
LEMMA PurgeInv ==
  ASSUME Inv, NEW r \in Requests, NEW S \in SUBSET Users, NEW seen,
         PurgeRows(r, S, seen), Finish(r), signedIn' = signedIn,
         users' \in [Users -> User], departments' \subseteq departments,
         \A u \in S : users'[u] = Purged,
         \A u \in Users \ S : users'[u].life = users[u].life,
         \A x \in roles \ seen : x[2] \in departments'
  PROVE  Inv'
<1>1. \A u \in Users \ S : RowExists(u) => RowExists(u)'
  BY DEF RowExists
<1>2. RolesOK'
  <2>1. roles' = roles \ seen /\ \A x \in roles' : x[1] \notin S
    BY DEF PurgeRows, RolesOf
  <2>2. \A x \in roles : x[1] \in Users
    BY RoleParts DEF Inv, RolesOK
  <2> QED
    BY <1>1, <2>1, <2>2 DEF Inv, RolesOK
<1>3. borrowers' \subseteq {u \in Users : RowExists(u)'}
  BY <1>1 DEF PurgeRows, Inv
<1>4. departments' \subseteq Departments
  BY DEF Inv
<1> QED
  BY <1>2, <1>3, <1>4, FinishInv

LEMMA PurgedIsUser == Purged \in User
BY NoRowIsUser DEF Purged, User, Life

\* The purge of a user, and the rejection of an account.
LEMMA PurgeCommitInv ==
  ASSUME Inv, NEW r \in Requests, PurgeCommit(r) \/ RejectCommit(r)
  PROVE  Inv'
<1> DEFINE q == requests[r]
<1>1. q.purge \in SUBSET Users
  BY DEF Inv, Request
<1>2. /\ PurgeRows(r, q.purge, q.seen) /\ Finish(r) /\ UNCHANGED <<departments, signedIn>>
      /\ users' = [u \in Users |-> IF u \in q.purge THEN Purged ELSE users[u]]
  BY DEF PurgeCommit, RejectCommit
<1>3. users' \in [Users -> User]
  BY <1>2, PurgedIsUser DEF Inv
<1>4. /\ \A u \in q.purge : users'[u] = Purged
      /\ \A u \in Users \ q.purge : users'[u] = users[u]
  BY <1>1, <1>2
<1>5. \A x \in roles \ q.seen : x[2] \in departments'
  BY <1>2 DEF Inv, RolesOK
<1> QED
  BY <1>1, <1>2, <1>3, <1>4, <1>5, PurgeInv

LEMMA DepartmentCommitInv ==
  ASSUME Inv, NEW r \in Requests, DepartmentCommit(r)
  PROVE  Inv'
<1> DEFINE q == requests[r]
           left(u) == IF users[u].dept = q.dept THEN [users[u] EXCEPT !.dept = None] ELSE users[u]
<1>1. q.purge \in SUBSET Users
  BY DEF Inv, Request
<1>2. /\ PurgeRows(r, q.purge, q.seen) /\ Finish(r) /\ signedIn' = signedIn
      /\ departments' = departments \ {q.dept} /\ RolesIn(q.dept) \subseteq q.seen
      /\ users' = [u \in Users |-> IF u \in q.purge THEN Purged ELSE left(u)]
  BY DEF DepartmentCommit
<1>3. \A u \in Users : left(u) \in User /\ left(u).life = users[u].life
  BY DEF Inv, User
<1> HIDE DEF left
<1>4. users' \in [Users -> User]
  BY <1>2, <1>3, PurgedIsUser
<1>5. /\ \A u \in q.purge : users'[u] = Purged
      /\ \A u \in Users \ q.purge : users'[u].life = users[u].life
  BY <1>1, <1>2, <1>3
<1>6. \A x \in roles \ q.seen : x[2] \in departments'
  BY <1>2 DEF Inv, RolesOK, RolesIn
<1> QED
  BY <1>1, <1>2, <1>4, <1>5, <1>6, PurgeInv

-----------------------------------------------------------------------------
LEMMA DeskInv ==
  ASSUME Inv, NEW u \in Users, Lend(u) \/ Return(u)
  PROVE  Inv'
<1>1. UNCHANGED <<users, departments, roles, signedIn, requests>>
  BY DEF Lend, Return
<1>2. borrowers' \subseteq borrowers \cup {v \in {u} : RowExists(v)}
  BY DEF Lend, Return, Usable, RowExists
<1>3. RolesOK'
  BY <1>1 DEF Inv, RolesOK, RowExists
<1> QED
  BY <1>1, <1>2, <1>3 DEF Inv, RowExists, Knows

LEMMA AbortInv ==
  ASSUME Inv, NEW r \in Requests, Abort(r)
  PROVE  Inv'
<1>1. Keep(r, Idle)
  BY DEF Abort, Keep, Continue, Finish
<1>2. Knows(Idle)
  BY IdleIsRequest DEF Knows
<1> QED
  BY <1>1, <1>2, IdleIsRequest, KeepInv

LEMMA InitInv == Init => Inv
<1> SUFFICES ASSUME Init
             PROVE  Inv
  OBVIOUS
<1>1. users \in [Users -> User] /\ requests \in [Requests -> Request]
  BY NoRowIsUser, IdleIsRequest DEF Init
<1>2. RolesOK
  BY DEF Init, RolesOK
<1>3. \A r \in Requests : Knows(requests[r])
  BY IdleIsRequest DEF Init, Knows
<1> QED
  BY <1>1, <1>2, <1>3 DEF Init, Inv

LEMMA AdministerInv ==
  ASSUME Inv, NEW r \in Requests, Administer(r)
  PROVE  Inv'
<1>1. CASE \E c, u \in Users : \/ CreateLoad(r, c, u) \/ ToggleLoad(r, c, u)
                               \/ DeleteLoad(r, c, u) \/ RestoreLoad(r, c, u)
  BY <1>1, ReadInv
<1>2. CASE \E c, u \in Users, force \in BOOLEAN : PurgeLoad(r, c, u, force)
  BY <1>2, PurgeReadInv DEF PurgeLoad
<1>3. CASE \E d \in Departments, admin \in BOOLEAN, grant \in Grants : CreateCommit(r, d, admin, grant)
  BY <1>3, CreateInv
<1>4. CASE ToggleCommit(r) \/ DeleteCommit(r) \/ RestoreCommit(r)
  BY <1>4, FlagsInv
<1>5. CASE PurgeCommit(r)
  BY <1>5, PurgeCommitInv
<1> QED
  BY <1>1, <1>2, <1>3, <1>4, <1>5 DEF Administer

LEMMA EditInv ==
  ASSUME Inv, NEW r \in Requests, Edit(r)
  PROVE  Inv'
BY EditLoadInv, EditRolesInv, EditCommitInv DEF Edit

LEMMA SingleSignOnInv ==
  ASSUME Inv, NEW r \in Requests, SingleSignOn(r)
  PROVE  Inv'
<1>1. CASE \E s \in Subjects : OidcUnknown(r, s) \/ \E u \in Users : OidcFound(r, s, u)
  BY <1>1, OidcUnknownInv, LoginInv
<1>2. CASE \E u \in Users : OidcCreate(r, u)
  BY <1>2, OidcCreateInv
<1>3. CASE \E c, u \in Users : ApproveLoad(r, c, u)
  BY <1>3, ReadInv
<1>4. CASE \E c, u \in Users : RejectLoad(r, c, u)
  BY <1>4, PurgeReadInv DEF RejectLoad
<1>5. CASE \E d \in Departments, grant \in Grants : ApproveCommit(r, d, grant)
  BY <1>5, ApproveInv
<1>6. CASE RejectCommit(r)
  BY <1>6, PurgeCommitInv
<1> QED
  BY <1>1, <1>2, <1>3, <1>4, <1>5, <1>6 DEF SingleSignOn

LEMMA NextInv == Inv /\ [Next]_vars => Inv'
<1> SUFFICES ASSUME Inv, [Next]_vars
             PROVE  Inv'
  OBVIOUS
<1>1. CASE \E r \in Requests : Administer(r) \/ Edit(r) \/ SingleSignOn(r) \/ Abort(r)
  BY <1>1, AdministerInv, EditInv, SingleSignOnInv, AbortInv
<1>2. CASE \E r \in Requests : DeleteDepartment(r)
  BY <1>2, DepartmentLoadInv, DepartmentCommitInv DEF DeleteDepartment
<1>3. CASE Desk
  BY <1>3, DeskInv DEF Desk
<1>4. CASE \E u \in Users : Login(u)
  BY <1>4, LoginInv
<1>5. CASE UNCHANGED vars
  <2>1. RolesOK'
    BY <1>5 DEF Inv, RolesOK, RowExists, vars, tables
  <2> QED
    BY <1>5, <2>1 DEF Inv, RowExists, Knows, vars, tables
<1> QED
  BY <1>1, <1>2, <1>3, <1>4, <1>5 DEF Next

LEMMA Invariant == Spec => []Inv
BY InitInv, NextInv, PTL DEF Spec

-----------------------------------------------------------------------------
\* The types, the keys of the role table and the open lendings: at any moment a
\* user has at most one role in a department, a role row points to a user and to a
\* department that exist, and a borrower has a row, whatever requests commit
\* between what another one reads and what it writes.
THEOREM TypeCorrect == Spec => []TypeOK
<1>1. Inv => TypeOK
  BY DEF Inv, RolesOK, TypeOK
<1> QED
  BY <1>1, Invariant, PTL

-----------------------------------------------------------------------------
(* Who lets an account in.                                                   *)

\* What LetInByAnother asks of a step and a user.
LetIn(u) == Raises(u) => \E r \in Requests : /\ CommitAbout(r, u)
                                             /\ requests[r].by \in Users \ {u}

\* The commit about one user: another administrator sent it, or it gives nothing
\* that the row did not have.
LEMMA RowLetsIn ==
  ASSUME Inv, NEW r \in Requests, NEW u \in Users, NEW row,
         users' = [users EXCEPT ![u] = row], Finish(r), ~At(r, "idle"),
         \/ requests[r].user = u /\ requests[r].by \in Users \ {u}
         \/ (Usable(row) => Usable(users[u])) /\ (row.admin => users[u].admin)
  PROVE  \A v \in Users : LetIn(v)
<1> SUFFICES ASSUME NEW v \in Users, Raises(v)
             PROVE  CommitAbout(r, v) /\ requests[r].by \in Users \ {v}
  BY DEF LetIn
<1>1. users'[v] = IF v = u THEN row ELSE users[v]
  BY DEF Inv
<1>2. v = u /\ requests[r].user = u /\ requests[r].by \in Users \ {u}
  BY <1>1 DEF Raises
<1>3. requests'[r] = Idle
  BY DEF Finish, Inv
<1> QED
  BY <1>2, <1>3 DEF CommitAbout

LEMMA FlagsLetIn ==
  ASSUME Inv, NEW r \in Requests, ToggleCommit(r) \/ DeleteCommit(r) \/ RestoreCommit(r)
  PROVE  \A v \in Users : LetIn(v)
<1> DEFINE q == requests[r]
           u == q.user
<1>1. u \in Users /\ Knows(q) /\ Finish(r) /\ ~At(r, "idle") /\ users[u] \in User
  BY DEF Inv, Knows, ToggleCommit, DeleteCommit, RestoreCommit, At
<1>2. CASE ToggleCommit(r) \/ RestoreCommit(r)
  <2>1. PICK row : users' = [users EXCEPT ![u] = row]
    BY <1>2 DEF ToggleCommit, RestoreCommit, Update
  <2>2. q.by \in Users \ {u}
    BY <1>1, <1>2 DEF Knows, ToggleCommit, RestoreCommit, At
  <2> QED
    BY <1>1, <2>1, <2>2, RowLetsIn
<1>3. CASE DeleteCommit(r)
  <2> DEFINE row == [users[u] EXCEPT !.life = "trashed"]
  <2>1. ~Usable(row) /\ row.admin = users[u].admin
    BY <1>1 DEF Usable, User
  <2>2. users' = [users EXCEPT ![u] = row]
    BY <1>3 DEF DeleteCommit, Update
  <2> HIDE DEF row
  <2> QED
    BY <1>1, <2>1, <2>2, RowLetsIn
<1> QED
  BY <1>2, <1>3

LEMMA CreateLetsIn ==
  ASSUME Inv, NEW r \in Requests, NEW d, NEW admin, NEW grant, CreateCommit(r, d, admin, grant)
  PROVE  \A v \in Users : LetIn(v)
<1> DEFINE u == requests[r].user
<1>1. u \in Users /\ requests[r].by \in Users \ {u} /\ Finish(r) /\ ~At(r, "idle")
  BY DEF Inv, Knows, CreateCommit, At
<1>2. PICK row : users' = [users EXCEPT ![u] = row]
  BY DEF CreateCommit
<1> QED
  BY <1>1, <1>2, RowLetsIn

\* The account that a first SSO login makes is locked.
LEMMA OidcCreateLetsIn ==
  ASSUME Inv, NEW r \in Requests, NEW u \in Users, OidcCreate(r, u)
  PROVE  \A v \in Users : LetIn(v)
<1> DEFINE row == [NoRow EXCEPT !.life = "active", !.sub = requests[r].sub]
<1>1. ~Usable(row) /\ ~row.admin
  BY DEF NoRow, Usable
<1>2. users' = [users EXCEPT ![u] = row] /\ Finish(r) /\ ~At(r, "idle")
  BY DEF OidcCreate, At
<1> HIDE DEF row
<1> QED
  BY <1>1, <1>2, RowLetsIn

\* A form about the own account has is_admin set, as the row had when it was read:
\* the flush does not write it.
LEMMA EditLetsIn ==
  ASSUME Inv, NEW r \in Requests, NEW d, NEW form, EditCommit(r, d, form)
  PROVE  \A v \in Users : LetIn(v)
<1> DEFINE q == requests[r]
           u == q.user
           row == [users[u] EXCEPT !.admin = Flushed(q.row.admin, q.admin, users[u].admin),
                                   !.dept  = Flushed(q.row.dept, d, users[u].dept),
                                   !.badge = TRUE]
<1>1. /\ u \in Users /\ q.by \in Users /\ Finish(r) /\ ~At(r, "idle")
      /\ q.by = u => q.row.admin /\ q.admin
  BY DEF Inv, Knows, EditCommit, At
<1>2. users[u] \in User /\ q \in Request /\ q.row \in User
  BY <1>1 DEF Inv, Request
<1>3. /\ row.life = users[u].life /\ row.active = users[u].active
      /\ row.admin = Flushed(q.row.admin, q.admin, users[u].admin)
  BY <1>2 DEF User
<1>4. users' = [users EXCEPT ![u] = row]
  BY DEF EditCommit, Update
<1> HIDE DEF row
<1>5. CASE q.by = u
  <2>1. q.row.admin = q.admin
    BY <1>1, <1>2, <1>5 DEF User, Request
  <2>2. row.admin = users[u].admin
    BY <1>3, <2>1 DEF Flushed
  <2> QED
    BY <1>1, <1>3, <1>4, <2>2, RowLetsIn DEF Usable
<1>6. CASE q.by # u
  BY <1>1, <1>4, <1>6, RowLetsIn
<1> QED
  BY <1>5, <1>6

\* Nor is is_active written by who approves the own account.
LEMMA ApproveLetsIn ==
  ASSUME Inv, NEW r \in Requests, NEW d, NEW grant, ApproveCommit(r, d, grant)
  PROVE  \A v \in Users : LetIn(v)
<1> DEFINE q == requests[r]
           u == q.user
           row == [users[u] EXCEPT !.dept   = Flushed(q.row.dept, d, users[u].dept),
                                   !.active = Flushed(q.row.active, TRUE, users[u].active),
                                   !.approved = TRUE]
<1>1. /\ u \in Users /\ q.by \in Users /\ Finish(r) /\ ~At(r, "idle")
      /\ q.by = u => q.row.active
  BY DEF Inv, Knows, ApproveCommit, At
<1>2. users[u] \in User /\ q \in Request /\ q.row \in User
  BY <1>1 DEF Inv, Request
<1>3. /\ row.life = users[u].life /\ row.admin = users[u].admin
      /\ row.active = Flushed(q.row.active, TRUE, users[u].active)
  BY <1>2 DEF User
<1>4. users' = [users EXCEPT ![u] = row]
  BY DEF ApproveCommit, Update
<1> HIDE DEF row
<1>5. CASE q.by = u
  <2>1. q.row.active = TRUE
    BY <1>1, <1>2, <1>5 DEF User
  <2>2. row.active = users[u].active
    BY <1>3, <2>1 DEF Flushed
  <2> QED
    BY <1>1, <1>3, <1>4, <2>2, RowLetsIn DEF Usable
<1>6. CASE q.by # u
  BY <1>1, <1>4, <1>6, RowLetsIn
<1> QED
  BY <1>5, <1>6

\* A row that is purged gives nothing, nor does one that loses its department.
LEMMA PurgeLetsIn ==
  ASSUME Inv, NEW r \in Requests, PurgeCommit(r) \/ RejectCommit(r) \/ DepartmentCommit(r)
  PROVE  \A v \in Users : LetIn(v)
<1> SUFFICES ASSUME NEW v \in Users
             PROVE  (Usable(users'[v]) => Usable(users[v])) /\ (users'[v].admin => users[v].admin)
  BY DEF LetIn, Raises
<1> DEFINE moved == [users[v] EXCEPT !.dept = None]
<1>1. /\ ~Usable(Purged) /\ ~Purged.admin
      /\ Usable(moved) = Usable(users[v]) /\ moved.admin = users[v].admin
  BY DEF Purged, NoRow, Usable, Inv, User
<1>2. users'[v] \in {Purged, moved, users[v]}
  BY DEF PurgeCommit, RejectCommit, DepartmentCommit
<1> HIDE DEF moved
<1> QED
  BY <1>1, <1>2

LEMMA SameLetsIn ==
  ASSUME users' = users, NEW v \in Users
  PROVE  LetIn(v)
BY DEF LetIn, Raises

LEMMA StepLetsIn ==
  ASSUME Inv, [Next]_vars
  PROVE  \A v \in Users : LetIn(v)
<1>1. CASE \E r \in Requests : Administer(r)
  <2>1. PICK r \in Requests : Administer(r)
    BY <1>1
  <2>2. CASE \/ \E c, u \in Users : \/ CreateLoad(r, c, u) \/ ToggleLoad(r, c, u)
                                    \/ DeleteLoad(r, c, u) \/ RestoreLoad(r, c, u)
             \/ \E c, u \in Users, force \in BOOLEAN : PurgeLoad(r, c, u, force)
    <3>1. users' = users
      BY <2>2 DEF CreateLoad, ToggleLoad, DeleteLoad, RestoreLoad, PurgeLoad, PurgeRead, Load,
                  Keep, tables
    <3> QED
      BY <3>1, SameLetsIn
  <2>3. CASE \E d \in Departments, admin \in BOOLEAN, grant \in Grants :
               CreateCommit(r, d, admin, grant)
    BY <2>3, CreateLetsIn
  <2>4. CASE ToggleCommit(r) \/ DeleteCommit(r) \/ RestoreCommit(r) \/ PurgeCommit(r)
    BY <2>4, FlagsLetIn, PurgeLetsIn
  <2> QED
    BY <2>1, <2>2, <2>3, <2>4 DEF Administer
<1>2. CASE \E r \in Requests : Edit(r)
  <2>1. PICK r \in Requests : Edit(r)
    BY <1>2
  <2>2. CASE EditRoles(r) \/ \E c, u \in Users, admin \in BOOLEAN : EditLoad(r, c, u, admin)
    <3>1. users' = users
      BY <2>2 DEF EditLoad, EditRoles, Keep, tables
    <3> QED
      BY <3>1, SameLetsIn
  <2> QED
    BY <2>1, <2>2, EditLetsIn DEF Edit
<1>3. CASE \E r \in Requests : SingleSignOn(r)
  <2>1. PICK r \in Requests : SingleSignOn(r)
    BY <1>3
  <2>2. CASE \/ \E s \in Subjects : OidcUnknown(r, s) \/ \E u \in Users : OidcFound(r, s, u)
             \/ \E c, u \in Users : ApproveLoad(r, c, u) \/ RejectLoad(r, c, u)
    <3>1. users' = users
      BY <2>2 DEF OidcUnknown, OidcFound, ApproveLoad, RejectLoad, PurgeRead, Load, Keep, tables
    <3> QED
      BY <3>1, SameLetsIn
  <2> QED
    BY <2>1, <2>2, OidcCreateLetsIn, ApproveLetsIn, PurgeLetsIn DEF SingleSignOn
<1>4. CASE \E r \in Requests : DeleteDepartment(r)
  <2>1. PICK r \in Requests : DeleteDepartment(r)
    BY <1>4
  <2>2. CASE \E c \in Users, d \in Departments, force \in BOOLEAN : DepartmentLoad(r, c, d, force)
    <3>1. users' = users
      BY <2>2 DEF DepartmentLoad, Keep, tables
    <3> QED
      BY <3>1, SameLetsIn
  <2> QED
    BY <2>1, <2>2, PurgeLetsIn DEF DeleteDepartment
<1>5. CASE \/ \E r \in Requests : Abort(r)
           \/ \E u \in Users : Login(u)
           \/ Desk
           \/ UNCHANGED vars
  <2>1. users' = users
    BY <1>5 DEF Abort, Login, Desk, Lend, Return, tables, vars
  <2> QED
    BY <2>1, SameLetsIn
<1> QED
  BY <1>1, <1>2, <1>3, <1>4, <1>5 DEF Next

\* However the requests of any number of administrators interleave, an account gets
\* in, or becomes an administrator's, only by the commit of a request about it that
\* another administrator sent; a first SSO login, a password and a form about the
\* own account never do it.
THEOREM LetInByAnotherHolds == Spec => LetInByAnother
<1>1. Inv /\ [Next]_vars => LetsInByAnother
  BY StepLetsIn DEF LetIn, LetsInByAnother
<1> QED
  BY <1>1, Invariant, PTL DEF Spec, LetInByAnother

-----------------------------------------------------------------------------
(* Requests that do not overlap.                                             *)

\* What a request still knows of the tables while it is the only one.
Alone(q) ==
  /\ q.pc \in {"toggle", "delete"} => \E c \in Users : c # q.user /\ IsAdmin(c)
  /\ q.pc \in {"edit", "edit.commit"} => \E c \in Users : IsAdmin(c) /\ (c = q.user => q.admin)
  /\ q.pc \in {"edit", "edit.commit", "approve"} => q.row.dept = users[q.user].dept
  /\ q.pc = "purge" => \A u \in q.purge : users[u].life # "active"
  /\ q.pc = "reject" => \A u \in q.purge : ~users[u].approved
  /\ q.pc = "department" => Members(q.dept) \subseteq q.purge

Serial == ~overlapped => /\ ~Overlap
                         /\ ApprovedHasDepartment
                         /\ \A r \in Requests : Alone(requests[r])

Recorded == overlapped' = (overlapped \/ Overlap')

\* What the commit of a request does that has been the only one.
Orderly(r) ==
  /\ ApprovedHasDepartment'
  /\ SomeAdminRemains => SomeAdminRemains' \/ At(r, "department") \/ At(r, "reject")
  /\ \A u \in Users : users[u].approved /\ RowExists(u) /\ users'[u].life = "purged"
       => ~At(r, "reject") /\ u \in requests[r].purge

\* A step keeps Serial and does to the users what SerialAdmin and
\* SerialApproved ask for.
Goes == /\ Serial'
        /\ ~overlapped =>
             \/ users' = users
             \/ \E r \in Requests : Orderly(r)

LEMMA SameSerial ==
  ASSUME Inv, Serial, UNCHANGED <<users, requests>>, Recorded
  PROVE  Goes
<1>1. \A r \in Requests : Alone(requests[r]) => Alone(requests[r])'
  BY DEF Alone, IsAdmin, Usable, Members, RowExists
<1>2. ApprovedHasDepartment => ApprovedHasDepartment'
  BY DEF ApprovedHasDepartment, RowExists
<1> QED
  BY <1>1, <1>2 DEF Serial, Recorded, Goes

LEMMA KeepSerial ==
  ASSUME Inv, Serial, Recorded, NEW r \in Requests, NEW q, Keep(r, q),
         ~overlapped => Alone(q)
  PROVE  Goes
<1>1. users' = users
  BY DEF Keep, tables
<1>2. \A s \in Requests : requests'[s] = IF s = r THEN q ELSE requests[s]
  BY DEF Inv, Keep, Continue
<1>3. ~overlapped => Alone(q)'
  BY <1>1 DEF Alone, IsAdmin, Usable, Members, RowExists
<1>4. \A s \in Requests \ {r} : Alone(requests[s]) => Alone(requests[s])'
  BY <1>1, <1>2 DEF Alone, IsAdmin, Usable, Members, RowExists
<1>5. ApprovedHasDepartment => ApprovedHasDepartment'
  BY <1>1 DEF ApprovedHasDepartment, RowExists
<1>6. ~overlapped => \A s \in Requests : Alone(requests[s])'
  <2> SUFFICES ASSUME ~overlapped, NEW s \in Requests
               PROVE  Alone(requests[s])'
    OBVIOUS
  <2>1. CASE s = r
    <3>1. requests'[s] = q
      BY <1>2, <2>1
    <3> QED
      BY <1>3, <3>1 DEF Alone
  <2>2. CASE s # r
    BY <1>4, <2>2 DEF Serial
  <2> QED
    BY <2>1, <2>2
<1> QED
  BY <1>1, <1>5, <1>6 DEF Serial, Recorded, Goes

LEMMA FinishSerial ==
  ASSUME Inv, Serial, Recorded, NEW r \in Requests, Finish(r), ~At(r, "idle"),
         ~overlapped => Orderly(r)
  PROVE  Goes
<1>1. \A s \in Requests : requests'[s] = IF s = r THEN Idle ELSE requests[s]
  BY DEF Inv, Finish
<1>2. ~overlapped => \A s \in Requests : requests'[s].pc = "idle"
  BY <1>1, IdleIsRequest DEF Serial, Overlap, At
<1>3. ~overlapped => \A s \in Requests : Alone(requests[s])'
  BY <1>2 DEF Alone
<1> QED
  BY <1>3 DEF Serial, Recorded, Goes, Orderly

\* A request that reads about a user.
LEMMA LoadSerial ==
  ASSUME Inv, Serial, Recorded, NEW r \in Requests, NEW c \in Users, NEW u \in Users,
         NEW handler \in {"create", "toggle", "delete", "restore", "approve"},
         NEW row, Load(r, c, handler, u, row), handler \in {"toggle", "delete"} => u # c,
         handler = "approve" => row = users[u]
  PROVE  Goes
<1> DEFINE q == [Idle EXCEPT !.pc = handler, !.by = c, !.user = u, !.row = row]
<1>1. q.pc = handler /\ q.user = u /\ q.row = row
  BY DEF Idle
<1>2. Keep(r, q) /\ IsAdmin(c)
  BY DEF Load, MayCall
<1> HIDE DEF q
<1>3. Alone(q)
  BY <1>1, <1>2 DEF Alone
<1> QED
  BY <1>2, <1>3, KeepSerial

LEMMA ReadSerial ==
  ASSUME Inv, Serial, Recorded, NEW r \in Requests,
         \/ \E c, u \in Users : \/ CreateLoad(r, c, u) \/ ToggleLoad(r, c, u)
                                \/ DeleteLoad(r, c, u) \/ RestoreLoad(r, c, u)
                                \/ ApproveLoad(r, c, u)
  PROVE  Goes
BY LoadSerial DEF CreateLoad, ToggleLoad, DeleteLoad, RestoreLoad, ApproveLoad

LEMMA EditLoadSerial ==
  ASSUME Inv, Serial, Recorded, NEW r \in Requests, NEW c \in Users, NEW u \in Users,
         NEW admin \in BOOLEAN, EditLoad(r, c, u, admin)
  PROVE  Goes
<1> DEFINE q == [Idle EXCEPT !.pc = "edit", !.by = c, !.user = u, !.row = users[u], !.admin = admin]
<1>1. q.pc = "edit" /\ q.user = u /\ q.row = users[u] /\ q.admin = admin
  BY DEF Idle
<1>2. Keep(r, q) /\ IsAdmin(c) /\ (u = c => admin)
  BY DEF EditLoad, MayCall
<1> HIDE DEF q
<1>3. Alone(q)
  BY <1>1, <1>2 DEF Alone
<1> QED
  BY <1>2, <1>3, KeepSerial

LEMMA EditRolesSerial ==
  ASSUME Inv, Serial, Recorded, NEW r \in Requests, EditRoles(r)
  PROVE  Goes
<1> DEFINE q == [requests[r] EXCEPT !.pc = "edit.commit", !.seen = RolesOf({requests[r].user})]
<1>1. requests[r] \in Request
  BY DEF Inv
<1>2. /\ q.pc = "edit.commit" /\ q.user = requests[r].user
      /\ q.row = requests[r].row /\ q.admin = requests[r].admin
  BY <1>1 DEF Request
<1>3. Keep(r, q) /\ requests[r].pc = "edit"
  BY DEF EditRoles, At
<1> HIDE DEF q
<1>4. ~overlapped => Alone(q)
  BY <1>2, <1>3 DEF Serial, Alone
<1> QED
  BY <1>3, <1>4, KeepSerial

LEMMA PurgeReadSerial ==
  ASSUME Inv, Serial, Recorded, NEW r \in Requests,
         \/ \E c, u \in Users, force \in BOOLEAN : PurgeLoad(r, c, u, force)
         \/ \E c, u \in Users : RejectLoad(r, c, u)
  PROVE  Goes
<1>1. ASSUME NEW c \in Users, NEW u \in Users, NEW handler, NEW force,
             PurgeRead(r, c, handler, {u}, force),
             \/ handler = "purge" /\ users[u].life = "trashed"
             \/ handler = "reject" /\ ~users[u].approved
      PROVE  Goes
  <2> DEFINE q == [Idle EXCEPT !.pc = handler, !.by = c, !.purge = {u}, !.seen = RolesOf({u})]
  <2>1. q.pc = handler /\ q.purge = {u}
    BY DEF Idle
  <2>2. Keep(r, q)
    BY <1>1 DEF PurgeRead
  <2> HIDE DEF q
  <2>3. Alone(q)
    BY <1>1, <2>1 DEF Alone
  <2> QED
    BY <2>2, <2>3, KeepSerial
<1> QED
  BY <1>1 DEF PurgeLoad, RejectLoad

LEMMA OidcUnknownSerial ==
  ASSUME Inv, Serial, Recorded, NEW r \in Requests, NEW s, OidcUnknown(r, s)
  PROVE  Goes
<1> DEFINE q == [Idle EXCEPT !.pc = "oidc.create", !.sub = s]
<1>1. q.pc = "oidc.create" /\ Keep(r, q)
  BY DEF Idle, OidcUnknown
<1> HIDE DEF q
<1>2. Alone(q)
  BY <1>1 DEF Alone
<1> QED
  BY <1>1, <1>2, KeepSerial

LEMMA DepartmentLoadSerial ==
  ASSUME Inv, Serial, Recorded, NEW r \in Requests, NEW c, NEW d \in Departments, NEW force,
         DepartmentLoad(r, c, d, force)
  PROVE  Goes
<1> DEFINE q == [Idle EXCEPT !.pc = "department", !.by = c, !.dept = d, !.purge = Members(d),
                             !.seen = RolesOf(Members(d)) \cup RolesIn(d)]
<1>1. q.pc = "department" /\ q.dept = d /\ q.purge = Members(d)
  BY DEF Idle
<1>2. Keep(r, q)
  BY DEF DepartmentLoad
<1> HIDE DEF q
<1>3. Alone(q)
  BY <1>1 DEF Alone
<1> QED
  BY <1>2, <1>3, KeepSerial

-----------------------------------------------------------------------------
\* An update of one row leaves the other administrators alone.
LEMMA UpdateOrderly ==
  ASSUME Inv, ApprovedHasDepartment, NEW r \in Requests, NEW u \in Users, NEW row \in User,
         Update(r, u, row), row.life \in {"active", "trashed"},
         row.sub # None /\ row.approved => row.dept # None,
         SomeAdminRemains => \E c \in Users : IsAdmin(c) /\ (c = u => Usable(row) /\ row.admin)
  PROVE  Orderly(r)
<1>1. \A v \in Users : users'[v] = IF v = u THEN row ELSE users[v]
  BY DEF Update, Inv
<1>2. ApprovedHasDepartment'
  BY <1>1 DEF ApprovedHasDepartment, RowExists
<1>3. SomeAdminRemains => SomeAdminRemains'
  BY <1>1 DEF SomeAdminRemains, IsAdmin, Usable
<1>4. \A v \in Users : RowExists(v) => users'[v].life # "purged"
  BY <1>1 DEF RowExists
<1> QED
  BY <1>2, <1>3, <1>4 DEF Orderly

\* toggle_user and delete_user spare the administrator who asked for it.
LEMMA FlagsOrderly ==
  ASSUME Inv, Serial, ~overlapped, NEW r \in Requests,
         ToggleCommit(r) \/ DeleteCommit(r) \/ RestoreCommit(r)
  PROVE  Orderly(r)
<1> DEFINE q == requests[r]
           u == q.user
<1>1. u \in Users /\ q \in Request /\ Alone(q) /\ ApprovedHasDepartment
  BY DEF Inv, Knows, Serial, ToggleCommit, DeleteCommit, RestoreCommit, At
<1>2. users[u] \in User /\ q.row \in User
  BY <1>1 DEF Inv, Request
<1>3. RowExists(u) /\ (users[u].sub # None /\ users[u].approved => users[u].dept # None)
  BY <1>1 DEF ToggleCommit, DeleteCommit, RestoreCommit, Update, ApprovedHasDepartment
<1>4. CASE ToggleCommit(r)
  <2> DEFINE row == [users[u] EXCEPT !.active = ~q.row.active]
  <2>1. /\ row \in User /\ row.life = users[u].life /\ row.approved = users[u].approved
        /\ row.sub = users[u].sub /\ row.dept = users[u].dept
    BY <1>2 DEF User
  <2>2. Update(r, u, row)
    BY <1>4 DEF ToggleCommit
  <2> HIDE DEF row
  <2>3. \E c \in Users : c # u /\ IsAdmin(c)
    BY <1>1, <1>4 DEF ToggleCommit, At, Alone
  <2> QED
    BY <1>1, <1>3, <2>1, <2>2, <2>3, UpdateOrderly DEF RowExists
<1>5. CASE DeleteCommit(r)
  <2> DEFINE row == [users[u] EXCEPT !.life = "trashed"]
  <2>1. /\ row \in User /\ row.life = "trashed" /\ row.approved = users[u].approved
        /\ row.sub = users[u].sub /\ row.dept = users[u].dept
    BY <1>2 DEF User, Life
  <2>2. Update(r, u, row)
    BY <1>5 DEF DeleteCommit
  <2> HIDE DEF row
  <2>3. \E c \in Users : c # u /\ IsAdmin(c)
    BY <1>1, <1>5 DEF DeleteCommit, At, Alone
  <2> QED
    BY <1>1, <1>3, <2>1, <2>2, <2>3, UpdateOrderly
<1>6. CASE RestoreCommit(r)
  <2> DEFINE row == [users[u] EXCEPT !.life = "active"]
  <2>1. /\ row \in User /\ row.life = "active" /\ row.approved = users[u].approved
        /\ row.sub = users[u].sub /\ row.dept = users[u].dept
        /\ row.active = users[u].active /\ row.admin = users[u].admin
    BY <1>2 DEF User, Life
  <2>2. Update(r, u, row)
    BY <1>6 DEF RestoreCommit
  <2> HIDE DEF row
  <2>3. IsAdmin(u) => Usable(row) /\ row.admin
    BY <2>1 DEF IsAdmin, Usable
  <2> QED
    BY <1>1, <1>3, <2>1, <2>2, <2>3, UpdateOrderly DEF SomeAdminRemains
<1> QED
  BY <1>4, <1>5, <1>6

\* An edit keeps the flag of the administrator who makes it, and sets a department.
LEMMA EditOrderly ==
  ASSUME Inv, Serial, ~overlapped, NEW r \in Requests, NEW d \in Departments,
         NEW form, EditCommit(r, d, form)
  PROVE  Orderly(r)
<1> DEFINE q == requests[r]
           u == q.user
           row == [users[u] EXCEPT !.admin = Flushed(q.row.admin, q.admin, users[u].admin),
                                   !.dept  = Flushed(q.row.dept, d, users[u].dept),
                                   !.badge = TRUE]
<1>1. u \in Users /\ q \in Request /\ Alone(q) /\ ApprovedHasDepartment
  BY DEF Inv, Knows, Serial, EditCommit, At
<1>2. users[u] \in User /\ q.row \in User
  BY <1>1 DEF Inv, Request
<1>3. q.row.dept = users[u].dept /\ \E c \in Users : IsAdmin(c) /\ (c = u => q.admin)
  BY <1>1 DEF EditCommit, At, Alone
<1>4. Flushed(q.row.dept, d, users[u].dept) = d
  BY <1>3 DEF Flushed
<1>5. Flushed(q.row.admin, q.admin, users[u].admin) \in BOOLEAN
  BY <1>1, <1>2 DEF Flushed, User, Request
<1>6. q.admin /\ users[u].admin => Flushed(q.row.admin, q.admin, users[u].admin)
  BY DEF Flushed
<1>7. /\ row \in User /\ row.life = users[u].life /\ row.dept = d
      /\ row.active = users[u].active
      /\ row.admin = Flushed(q.row.admin, q.admin, users[u].admin)
  BY <1>2, <1>4, <1>5 DEF User
<1>8. Update(r, u, row)
  BY DEF EditCommit
<1> HIDE DEF row
<1>9. \E c \in Users : IsAdmin(c) /\ (c = u => Usable(row) /\ row.admin)
  BY <1>3, <1>6, <1>7 DEF IsAdmin, Usable
<1>10. RowExists(u) /\ d # None
  BY <1>8, NoneAssumption DEF Update
<1> QED
  BY <1>1, <1>7, <1>8, <1>9, <1>10, UpdateOrderly DEF RowExists

\* An approval switches on, and sets a department.
LEMMA ApproveOrderly ==
  ASSUME Inv, Serial, ~overlapped, NEW r \in Requests, NEW d \in Departments,
         NEW grant, ApproveCommit(r, d, grant)
  PROVE  Orderly(r)
<1> DEFINE q == requests[r]
           u == q.user
           row == [users[u] EXCEPT !.dept   = Flushed(q.row.dept, d, users[u].dept),
                                   !.active = Flushed(q.row.active, TRUE, users[u].active),
                                   !.approved = TRUE]
<1>1. u \in Users /\ q \in Request /\ Alone(q) /\ ApprovedHasDepartment
  BY DEF Inv, Knows, Serial, ApproveCommit, At
<1>2. users[u] \in User /\ q.row \in User
  BY <1>1 DEF Inv, Request
<1>3. q.row.dept = users[u].dept
  BY <1>1 DEF ApproveCommit, At, Alone
<1>4. Flushed(q.row.dept, d, users[u].dept) = d
  BY <1>3 DEF Flushed
<1>5. Flushed(q.row.active, TRUE, users[u].active) \in BOOLEAN
  BY <1>2 DEF Flushed, User
<1>6. users[u].active => Flushed(q.row.active, TRUE, users[u].active)
  BY DEF Flushed
<1>7. /\ row \in User /\ row.life = users[u].life /\ row.dept = d
      /\ row.active = Flushed(q.row.active, TRUE, users[u].active)
      /\ row.admin = users[u].admin
  BY <1>2, <1>4, <1>5 DEF User
<1>8. Update(r, u, row)
  BY DEF ApproveCommit
<1> HIDE DEF row
<1>9. IsAdmin(u) => Usable(row) /\ row.admin
  BY <1>6, <1>7 DEF IsAdmin, Usable
<1>10. RowExists(u) /\ d # None
  BY <1>8, NoneAssumption DEF Update
<1> QED
  BY <1>1, <1>7, <1>8, <1>9, <1>10, UpdateOrderly DEF RowExists, SomeAdminRemains

\* New accounts take the place of no other one.
LEMMA NewOrderly ==
  ASSUME Inv, Serial, ~overlapped, NEW r \in Requests, NEW u \in Users,
         \/ \E d \in Departments, admin \in BOOLEAN, grant \in Grants :
              u = requests[r].user /\ CreateCommit(r, d, admin, grant)
         \/ OidcCreate(r, u)
  PROVE  Orderly(r)
<1>1. /\ users[u].life = "absent"
      /\ \A v \in Users \ {u} : users'[v] = users[v]
      /\ users'[u].life = "active" /\ (users'[u].sub = None \/ ~users'[u].approved)
  <2>1. CASE OidcCreate(r, u)
    BY <2>1 DEF OidcCreate, Inv, NoRow
  <2>2. ASSUME NEW d \in Departments, NEW admin \in BOOLEAN, NEW grant \in Grants,
               u = requests[r].user, CreateCommit(r, d, admin, grant)
        PROVE  /\ users[u].life = "absent"
               /\ \A v \in Users \ {u} : users'[v] = users[v]
               /\ users'[u].life = "active" /\ users'[u].sub = None
    BY <2>2 DEF CreateCommit, Inv, NoRow
  <2> QED
    BY <2>1, <2>2
<1>2. ApprovedHasDepartment
  BY DEF Serial
<1>3. ApprovedHasDepartment'
  BY <1>1, <1>2 DEF ApprovedHasDepartment, RowExists
<1>4. SomeAdminRemains => SomeAdminRemains'
  BY <1>1 DEF SomeAdminRemains, IsAdmin, Usable
<1> QED
  BY <1>1, <1>3, <1>4 DEF Orderly, RowExists

\* A purge takes a row from the trash, a rejection one that was never approved,
\* a department takes its members along.
LEMMA PurgeOrderly ==
  ASSUME Inv, Serial, ~overlapped, NEW r \in Requests, PurgeCommit(r) \/ RejectCommit(r)
  PROVE  Orderly(r)
<1> DEFINE q == requests[r]
<1>1. q.purge \subseteq Users /\ Alone(q) /\ ApprovedHasDepartment
  BY DEF Inv, Request, Serial
<1>2. \A u \in Users : users'[u] = IF u \in q.purge THEN Purged ELSE users[u]
  BY DEF PurgeCommit, RejectCommit
<1>3. Purged.life = "purged"
  BY DEF Purged, NoRow
<1>4. ApprovedHasDepartment'
  BY <1>1, <1>2, <1>3 DEF ApprovedHasDepartment, RowExists
<1>5. CASE PurgeCommit(r)
  <2>1. q.pc = "purge"
    BY <1>5 DEF PurgeCommit, At
  <2>2. \A u \in Users : IsAdmin(u) => IsAdmin(u)'
    BY <1>1, <1>2, <2>1 DEF IsAdmin, Usable, Alone
  <2> QED
    BY <1>2, <1>4, <2>1, <2>2 DEF Orderly, SomeAdminRemains, At, RowExists
<1>6. CASE RejectCommit(r)
  <2>1. q.pc = "reject"
    BY <1>6 DEF RejectCommit, At
  <2> QED
    BY <1>1, <1>2, <1>4, <2>1 DEF Orderly, At, RowExists, Alone
<1> QED
  BY <1>5, <1>6

LEMMA DepartmentOrderly ==
  ASSUME Inv, Serial, ~overlapped, NEW r \in Requests, DepartmentCommit(r)
  PROVE  Orderly(r)
<1> DEFINE q == requests[r]
           left(u) == IF users[u].dept = q.dept THEN [users[u] EXCEPT !.dept = None] ELSE users[u]
<1>1. /\ q.purge \subseteq Users /\ Alone(q) /\ ApprovedHasDepartment /\ q.pc = "department"
      /\ Members(q.dept) \subseteq q.purge
  BY DEF Inv, Request, Serial, DepartmentCommit, At, Alone
<1>2. \A u \in Users : users'[u] = IF u \in q.purge THEN Purged ELSE left(u)
  BY DEF DepartmentCommit
<1>3. \A u \in Users : left(u).life = users[u].life
  BY DEF Inv, User
<1>4. \A u \in Users : RowExists(u) /\ u \notin q.purge => left(u) = users[u]
  BY <1>1 DEF Members
<1> HIDE DEF left
<1>5. Purged.life = "purged"
  BY DEF Purged, NoRow
<1>6. ApprovedHasDepartment'
  BY <1>1, <1>2, <1>3, <1>4, <1>5 DEF ApprovedHasDepartment, RowExists
<1> QED
  BY <1>1, <1>2, <1>3, <1>6 DEF Orderly, At, RowExists

-----------------------------------------------------------------------------
LEMMA CommitSerial ==
  ASSUME Inv, Serial, Recorded, NEW r \in Requests,
         \/ \E d \in Departments, admin \in BOOLEAN, grant \in Grants : CreateCommit(r, d, admin, grant)
         \/ \E d \in Departments, form \in Forms(requests[r].user) : EditCommit(r, d, form)
         \/ \E d \in Departments, grant \in Grants : ApproveCommit(r, d, grant)
         \/ \E u \in Users : OidcCreate(r, u)
         \/ ToggleCommit(r) \/ DeleteCommit(r) \/ RestoreCommit(r)
         \/ PurgeCommit(r) \/ RejectCommit(r) \/ DepartmentCommit(r)
  PROVE  Goes
<1>1. CASE \E d \in Departments, admin \in BOOLEAN, grant \in Grants : CreateCommit(r, d, admin, grant)
  <2>1. requests[r].user \in Users /\ Finish(r) /\ ~At(r, "idle")
    BY <1>1 DEF Inv, Knows, CreateCommit, At
  <2> QED
    BY <1>1, <2>1, NewOrderly, FinishSerial
<1>2. CASE \E d \in Departments, form \in Forms(requests[r].user) : EditCommit(r, d, form)
  <2>1. Finish(r) /\ ~At(r, "idle")
    BY <1>2 DEF EditCommit, At
  <2> QED
    BY <1>2, <2>1, EditOrderly, FinishSerial
<1>3. CASE \E d \in Departments, grant \in Grants : ApproveCommit(r, d, grant)
  <2>1. Finish(r) /\ ~At(r, "idle")
    BY <1>3 DEF ApproveCommit, At
  <2> QED
    BY <1>3, <2>1, ApproveOrderly, FinishSerial
<1>4. CASE \E u \in Users : OidcCreate(r, u)
  <2>1. Finish(r) /\ ~At(r, "idle")
    BY <1>4 DEF OidcCreate, At
  <2> QED
    BY <1>4, <2>1, NewOrderly, FinishSerial
<1>5. CASE ToggleCommit(r) \/ DeleteCommit(r) \/ RestoreCommit(r)
  <2>1. Finish(r) /\ ~At(r, "idle")
    BY <1>5 DEF ToggleCommit, DeleteCommit, RestoreCommit, At
  <2> QED
    BY <1>5, <2>1, FlagsOrderly, FinishSerial
<1>6. CASE PurgeCommit(r) \/ RejectCommit(r)
  <2>1. Finish(r) /\ ~At(r, "idle")
    BY <1>6 DEF PurgeCommit, RejectCommit, At
  <2> QED
    BY <1>6, <2>1, PurgeOrderly, FinishSerial
<1>7. CASE DepartmentCommit(r)
  <2>1. Finish(r) /\ ~At(r, "idle")
    BY <1>7 DEF DepartmentCommit, At
  <2> QED
    BY <1>7, <2>1, DepartmentOrderly, FinishSerial
<1> QED
  BY <1>1, <1>2, <1>3, <1>4, <1>5, <1>6, <1>7

LEMMA AbortSerial ==
  ASSUME Inv, Serial, Recorded, NEW r \in Requests, Abort(r)
  PROVE  Goes
<1>1. Keep(r, Idle)
  BY DEF Abort, Keep, Continue, Finish
<1>2. Alone(Idle)
  BY IdleIsRequest DEF Alone
<1> QED
  BY <1>1, <1>2, KeepSerial

LEMMA StepSerial ==
  ASSUME Inv, Serial, [HNext]_<<vars, overlapped>>
  PROVE  Goes
<1>1. CASE \E r \in Requests : Administer(r) /\ Recorded
  BY <1>1, ReadSerial, PurgeReadSerial, CommitSerial DEF Administer
<1>2. CASE \E r \in Requests : Edit(r) /\ Recorded
  BY <1>2, EditLoadSerial, EditRolesSerial, CommitSerial DEF Edit
<1>3. CASE \E r \in Requests : SingleSignOn(r) /\ Recorded
  <2>1. PICK r \in Requests : SingleSignOn(r) /\ Recorded
    BY <1>3
  <2>2. CASE \E s \in Subjects : OidcUnknown(r, s)
    BY <2>1, <2>2, OidcUnknownSerial
  <2>3. CASE \E s \in Subjects, u \in Users : OidcFound(r, s, u)
    <3>1. UNCHANGED <<users, requests>>
      BY <2>3 DEF OidcFound, tables
    <3> QED
      BY <2>1, <3>1, SameSerial
  <2>4. CASE \E c, u \in Users : ApproveLoad(r, c, u)
    BY <2>1, <2>4, ReadSerial
  <2>5. CASE \E c, u \in Users : RejectLoad(r, c, u)
    BY <2>1, <2>5, PurgeReadSerial
  <2>6. CASE \/ \E d \in Departments, grant \in Grants : ApproveCommit(r, d, grant)
             \/ \E u \in Users : OidcCreate(r, u)
             \/ RejectCommit(r)
    BY <2>1, <2>6, CommitSerial
  <2> QED
    BY <2>1, <2>2, <2>3, <2>4, <2>5, <2>6 DEF SingleSignOn
<1>4. CASE \E r \in Requests : DeleteDepartment(r) /\ Recorded
  BY <1>4, DepartmentLoadSerial, CommitSerial DEF DeleteDepartment
<1>5. CASE \E r \in Requests : Abort(r) /\ Recorded
  BY <1>5, AbortSerial
<1>6. CASE (Desk \/ \E u \in Users : Login(u)) /\ Recorded
  <2>1. UNCHANGED <<users, requests>>
    BY <1>6 DEF Desk, Lend, Return, Login, tables
  <2> QED
    BY <1>6, <2>1, SameSerial
<1>7. CASE UNCHANGED <<vars, overlapped>>
  <2>1. UNCHANGED <<users, requests>> /\ overlapped' = overlapped
    BY <1>7 DEF vars, tables
  <2>2. \A r \in Requests : Alone(requests[r]) => Alone(requests[r])'
    BY <2>1 DEF Alone, IsAdmin, Usable, Members, RowExists
  <2>3. Serial'
    BY <2>1, <2>2 DEF Serial, Overlap, At, ApprovedHasDepartment, RowExists
  <2> QED
    BY <2>1, <2>3 DEF Goes
<1> QED
  BY <1>1, <1>2, <1>3, <1>4, <1>5, <1>6, <1>7 DEF HNext, Next, Recorded

LEMMA SerialInit == HInit => Inv /\ Serial
<1> SUFFICES ASSUME HInit
             PROVE  Inv /\ Serial
  OBVIOUS
<1>1. \A r \in Requests : requests[r].pc = "idle"
  BY IdleIsRequest DEF HInit, Init
<1>2. ApprovedHasDepartment
  BY DEF HInit, Init, ApprovedHasDepartment, NoRow, Admin
<1> QED
  BY <1>1, <1>2, InitInv DEF HInit, Serial, Overlap, At, Alone

LEMMA SerialInvariant == HSpec => [](Inv /\ Serial)
<1>1. Inv /\ Serial /\ [HNext]_<<vars, overlapped>> => (Inv /\ Serial)'
  <2> SUFFICES ASSUME Inv, Serial, [HNext]_<<vars, overlapped>>
               PROVE  Inv' /\ Serial'
    OBVIOUS
  <2>1. [Next]_vars
    BY DEF HNext
  <2> QED
    BY <2>1, NextInv, StepSerial DEF Goes
<1> QED
  BY <1>1, SerialInit, PTL DEF HSpec

\* As long as no requests have overlapped, only the deletion of a department or a
\* rejection can take the last administrator away who can act: the guards of
\* toggle_user, update_user and delete_user spare the caller, and a purge takes
\* a row that is in the trash.
THEOREM SerialAdminHolds == HSpec => SerialAdmin
<1>1. Inv /\ Serial /\ [HNext]_<<vars, overlapped>> =>
        (SomeAdminRemains /\ ~overlapped
           => \/ SomeAdminRemains'
              \/ \E r \in Requests : At(r, "department") \/ At(r, "reject"))
  <2> SUFFICES ASSUME Inv, Serial, [HNext]_<<vars, overlapped>>, SomeAdminRemains, ~overlapped
               PROVE  \/ SomeAdminRemains'
                      \/ \E r \in Requests : At(r, "department") \/ At(r, "reject")
    OBVIOUS
  <2>1. CASE users' = users
    BY <2>1 DEF SomeAdminRemains, IsAdmin, Usable
  <2>2. CASE \E r \in Requests : Orderly(r)
    BY <2>2 DEF Orderly
  <2> QED
    BY <2>1, <2>2, StepSerial DEF Goes
<1> QED
  BY <1>1, SerialInvariant, PTL DEF HSpec, SerialAdmin

\* As long as no requests have overlapped, a person who was approved through SSO
\* has a department, and loses the account by a purge or with a department,
\* never by a rejection.
THEOREM SerialApprovedHolds == HSpec => SerialApproved
<1>1. Inv /\ Serial /\ [HNext]_<<vars, overlapped>> /\ Serial' =>
        (overlapped' \/
          /\ ApprovedHasDepartment'
          /\ \A u \in Users : users[u].approved /\ RowExists(u) /\ users'[u].life = "purged"
               => \E r \in Requests : ~At(r, "reject") /\ u \in requests[r].purge)
  <2> SUFFICES ASSUME Inv, Serial, [HNext]_<<vars, overlapped>>, Serial', ~overlapped'
               PROVE  /\ ApprovedHasDepartment'
                      /\ \A u \in Users :
                           users[u].approved /\ RowExists(u) /\ users'[u].life = "purged"
                             => \E r \in Requests : ~At(r, "reject") /\ u \in requests[r].purge
    OBVIOUS
  <2>0. HNext => (overlapped => overlapped')
    BY DEF HNext
  <2>1. ~overlapped /\ ApprovedHasDepartment'
    BY <2>0 DEF Serial
  <2>2. CASE users' = users
    BY <2>1, <2>2 DEF RowExists
  <2>3. CASE \E r \in Requests : Orderly(r)
    BY <2>1, <2>3 DEF Orderly
  <2> QED
    BY <2>1, <2>2, <2>3, StepSerial DEF Goes
<1> QED
  BY <1>1, SerialInvariant, PTL DEF HSpec, SerialApproved
=============================================================================
