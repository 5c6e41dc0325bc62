------------------------------- MODULE Accounts -------------------------------
(***************************************************************************)
(* User accounts: created by an administrator or by a first SSO login,     *)
(* approved or rejected, edited, switched off, thrown away, restored and   *)
(* purged, alone or with their department (routers/admin_users.py,         *)
(* admin_pending_accounts.py, oidc.py, admin_departments.py, core/trash.py *)
(* and core/deps.py).                                                      *)
(*                                                                         *)
(* A request of an administrator reads the caller's row and the row it is  *)
(* about, one statement after the other, in one step, and commits in a     *)
(* later one; other requests commit in between.  A flush writes the        *)
(* columns that differ from the row as it was read; a constraint that      *)
(* fails ends the request (Abort).                                         *)
(***************************************************************************)
CONSTANTS
  Users, Departments, \* row identities
  Seeded,             \* administrators made by scripts/seed_admin.py
  Subjects,           \* identities of the SSO provider (claim "sub")
  RoleNames,          \* values of UserDepartmentRole.role
  Requests,           \* slots for requests that are in flight
  Features,           \* which optional operations a run exercises
  None                \* SQL NULL

VARIABLES
  users,        \* table users
  departments,  \* table departments
  roles,        \* table user_department_roles: <<user, department, role>>
  borrowers,    \* users with an open lending
  signedIn,     \* users that a login has given a session cookie
  requests      \* what every request in flight has read so far

tables == <<users, departments, roles, borrowers>>
vars == <<tables, signedIn, requests>>

ASSUME AccountsAssumption == /\ Seeded \subseteq Users
                             /\ Features \subseteq {"department", "lend", "edit", "sso"}

ASSUME NoneAssumption == None \notin Departments

Life == {"absent", "active", "trashed", "purged"}

User == [life     : Life,
         admin    : BOOLEAN,                   \* is_admin
         active   : BOOLEAN,                   \* is_active
         approved : BOOLEAN,                   \* approved_at is set
         badge    : BOOLEAN,                   \* barcode is set
         sub      : Subjects \cup {None},      \* external_id of an SSO account
         dept     : Departments \cup {None}]   \* department_id

NoRow == [life |-> "absent", admin |-> FALSE, active |-> FALSE, approved |-> FALSE,
          badge |-> FALSE, sub |-> None, dept |-> None]

Admin == [NoRow EXCEPT !.life = "active", !.admin = TRUE, !.active = TRUE, !.approved = TRUE]

Role == Users \X Departments \X RoleNames

Handlers == {"create", "toggle", "edit", "delete", "restore", "purge", "approve",
             "reject", "department"}

PC == Handlers \cup {"idle", "edit.commit", "oidc.create"}

Request == [pc    : PC,
            by    : Users \cup {None},           \* the administrator who sent it
            user  : Users \cup {None},
            row   : User,                       \* the user as read, where it is used
            dept  : Departments \cup {None},
            admin : BOOLEAN,                    \* form field is_admin
            seen  : SUBSET Role,                \* role rows as read
            purge : SUBSET Users,               \* rows that the commit deletes
            sub   : Subjects \cup {None}]

Idle == [pc |-> "idle", by |-> None, user |-> None, row |-> NoRow, dept |-> None,
         admin |-> FALSE, seen |-> {}, purge |-> {}, sub |-> None]

RowExists(u) == users[u].life \in {"active", "trashed"}

Usable(row) == row.life = "active" /\ row.active

IsAdmin(u) == Usable(users[u]) /\ users[u].admin

\* get_current_user, require_admin: a cookie, and the caller's row as it is now.
\* approved_at is not looked at.
MayCall(c) == c \in signedIn /\ IsAdmin(c)

RolesOf(S) == {x \in roles : x[1] \in S}

RolesIn(d) == {x \in roles : x[2] = d}

Keys(S) == {<<x[1], x[2]>> : x \in S}

-----------------------------------------------------------------------------
At(r, pc) == requests[r].pc = pc

Continue(r, q) == requests' = [requests EXCEPT ![r] = q]

Keep(r, q) == Continue(r, q) /\ UNCHANGED <<tables, signedIn>>

Finish(r) == requests' = [requests EXCEPT ![r] = Idle]

\* An error page, a constraint, a client that goes away: rollback.
Abort(r) == /\ ~At(r, "idle")
            /\ Finish(r)
            /\ UNCHANGED <<tables, signedIn>>

\* The first reads of a handler: the caller is an administrator, and of the row the
\* handler is about, what its commit goes by.
Load(r, c, handler, u, row) ==
  /\ At(r, "idle")
  /\ MayCall(c)
  /\ Keep(r, [Idle EXCEPT !.pc = handler, !.by = c, !.user = u, !.row = row])

\* update_user has updated the row when it reads the roles, and keeps it locked
\* until it commits; whoever writes the row waits.
RowFree(r, u) == \A x \in Requests \ {r} : ~(At(x, "edit.commit") /\ requests[x].user = u)

\* UPDATE users SET ...: a row that is gone fails the flush.
Update(r, u, row) == /\ RowExists(u)
                     /\ RowFree(r, u)
                     /\ users' = [users EXCEPT ![u] = row]

\* Mutant: every column of the form is written.
Flushed_Always(read, new, now) == new

\* A column is written if the new value differs from the one that was read.
Flushed(read, new, now) == IF new = read THEN now ELSE new

-----------------------------------------------------------------------------
(* admin_users.py *)

CreateLoad(r, c, u) == /\ users[u].life = "absent"
                       /\ Load(r, c, "create", u, NoRow)

CreateCommit(r, d, admin, grant) ==
  LET u == requests[r].user IN
  /\ At(r, "create")
  /\ users[u].life = "absent"
  /\ d \in departments
  /\ users' = [users EXCEPT ![u] = [NoRow EXCEPT
       !.life = "active", !.admin = admin, !.active = TRUE, !.approved = TRUE,
       !.badge = TRUE, !.dept = d]]
  /\ roles' = roles \cup {<<u, d, g>> : g \in IF admin THEN {} ELSE grant}
  /\ Finish(r)
  /\ UNCHANGED <<departments, borrowers, signedIn>>

\* Mutant: an administrator may switch off the own account.
ToggleLoad_Self(r, c, u) == RowExists(u) /\ Load(r, c, "toggle", u, users[u])

ToggleLoad(r, c, u) == /\ RowExists(u)
                       /\ u # c
                       /\ Load(r, c, "toggle", u, users[u])

ToggleCommit(r) ==
  LET q == requests[r] IN
  /\ At(r, "toggle")
  /\ Update(r, q.user, [users[q.user] EXCEPT !.active = ~q.row.active])
  /\ Finish(r)
  /\ UNCHANGED <<departments, roles, borrowers, signedIn>>

EditLoad(r, c, u, admin) ==
  /\ At(r, "idle")
  /\ MayCall(c)
  /\ users[u].life = "active"
  /\ u = c => admin
  /\ Keep(r, [Idle EXCEPT !.pc = "edit", !.by = c, !.user = u, !.row = users[u], !.admin = admin])

\* The roles are read after the password was hashed in the thread pool; the
\* query flushes the user's columns first.
EditRoles(r) ==
  LET q == requests[r] IN
  /\ At(r, "edit")
  /\ RowExists(q.user) /\ RowFree(r, q.user)
  /\ Keep(r, [q EXCEPT !.pc = "edit.commit", !.seen = RolesOf({q.user})])

\* Mutant: a role that changes is added next to the old one.
EditCommit_AddsRole(r, d, form) ==
  LET q    == requests[r]
      wish == IF q.admin THEN {} ELSE form
  IN  /\ At(r, "edit.commit")
      /\ d \in departments
      /\ Update(r, q.user, [users[q.user] EXCEPT
           !.admin = Flushed(q.row.admin, q.admin, @),
           !.dept  = Flushed(q.row.dept, d, @),
           !.badge = TRUE])
      /\ roles' = roles \cup wish
      /\ Finish(r)
      /\ UNCHANGED <<departments, borrowers, signedIn>>

EditCommit(r, d, form) ==
  LET q       == requests[r]
      wish    == IF q.admin THEN {} ELSE form
      added   == {x \in wish : <<x[1], x[2]>> \notin Keys(q.seen)}
      changed == (wish \ added) \ q.seen
      dropped == Keys(q.seen) \ Keys(wish)
      touched == dropped \cup Keys(changed)
  IN  /\ At(r, "edit.commit")
      /\ d \in departments
      /\ Keys(added) \cap Keys(roles) = {}       \* primary key
      /\ Keys(changed) \subseteq Keys(roles)     \* or StaleDataError
      /\ \A x \in added : x[2] \in departments   \* foreign key
      /\ Update(r, q.user, [users[q.user] EXCEPT
           !.admin = Flushed(q.row.admin, q.admin, @),
           !.dept  = Flushed(q.row.dept, d, @),
           !.badge = TRUE])
      /\ roles' = {x \in roles : <<x[1], x[2]>> \notin touched} \cup added \cup changed
      /\ Finish(r)
      /\ UNCHANGED <<departments, borrowers, signedIn>>

DeleteLoad(r, c, u) == /\ users[u].life = "active"
                       /\ u # c
                       /\ Load(r, c, "delete", u, NoRow)

DeleteCommit(r) ==
  LET u == requests[r].user IN
  /\ At(r, "delete")
  /\ Update(r, u, [users[u] EXCEPT !.life = "trashed"])
  /\ Finish(r)
  /\ UNCHANGED <<departments, roles, borrowers, signedIn>>

-----------------------------------------------------------------------------
(* admin_trash.py and core/trash.py *)

RestoreLoad(r, c, u) == /\ users[u].life = "trashed"
                        /\ Load(r, c, "restore", u, NoRow)

RestoreCommit(r) ==
  LET u == requests[r].user IN
  /\ At(r, "restore")
  /\ Update(r, u, [users[u] EXCEPT !.life = "active"])
  /\ Finish(r)
  /\ UNCHANGED <<departments, roles, borrowers, signedIn>>

\* purge_user: what it reads.  Open lendings block it, or are closed if forced.
PurgeRead(r, c, handler, S, force) ==
  /\ At(r, "idle")
  /\ MayCall(c)
  /\ S \cap borrowers # {} => force
  /\ Keep(r, [Idle EXCEPT !.pc = handler, !.by = c, !.purge = S, !.seen = RolesOf(S)])

\* Mutant: the foreign key of user_department_roles is missing.
PurgeRows_NoForeignKey(r, S, seen) ==
  /\ \A u \in S : RowFree(r, u)
  /\ roles' = roles \ seen
  /\ borrowers' = borrowers \ S

\* purge_user: the flush.  The role rows that were read go with the user; one
\* that was added since keeps the user's row from being deleted.
PurgeRows(r, S, seen) ==
  /\ RolesOf(S) \subseteq seen
  /\ \A u \in S : RowFree(r, u)
  /\ roles' = roles \ seen
  /\ borrowers' = borrowers \ S

Purged == [NoRow EXCEPT !.life = "purged"]

PurgeLoad(r, c, u, force) == /\ users[u].life = "trashed"
                             /\ PurgeRead(r, c, "purge", {u}, force)

PurgeCommit(r) ==
  LET q == requests[r] IN
  /\ At(r, "purge")
  /\ PurgeRows(r, q.purge, q.seen)
  /\ users' = [u \in Users |-> IF u \in q.purge THEN Purged ELSE users[u]]
  /\ Finish(r)
  /\ UNCHANGED <<departments, signedIn>>

-----------------------------------------------------------------------------
(* admin_pending_accounts.py *)

ApproveLoad(r, c, u) == /\ users[u].life = "active"
                        /\ ~users[u].approved
                        /\ Load(r, c, "approve", u, users[u])

ApproveCommit(r, d, grant) ==
  LET q    == requests[r]
      rows == {<<q.user, d, g>> : g \in grant}
  IN  /\ At(r, "approve")
      /\ d \in departments
      /\ Keys(rows) \cap Keys(roles) = {}
      /\ Update(r, q.user, [users[q.user] EXCEPT
           !.dept   = Flushed(q.row.dept, d, @),
           !.active = Flushed(q.row.active, TRUE, @),
           !.approved = TRUE])
      /\ roles' = roles \cup rows
      /\ Finish(r)
      /\ UNCHANGED <<departments, borrowers, signedIn>>

\* Mutant: an account that was approved can be rejected.
RejectLoad_Any(r, c, u) == RowExists(u) /\ PurgeRead(r, c, "reject", {u}, TRUE)

\* reject_pending_account purges with force, a trashed row too.
RejectLoad(r, c, u) == /\ RowExists(u)
                       /\ ~users[u].approved
                       /\ PurgeRead(r, c, "reject", {u}, TRUE)

RejectCommit(r) ==
  LET q == requests[r] IN
  /\ At(r, "reject")
  /\ PurgeRows(r, q.purge, q.seen)
  /\ users' = [u \in Users |-> IF u \in q.purge THEN Purged ELSE users[u]]
  /\ Finish(r)
  /\ UNCHANGED <<departments, signedIn>>

-----------------------------------------------------------------------------
(* auth.py, oidc.py, core/oidc.py *)

\* login_submit.  That there is a password is not kept track of: update_user and
\* a reset link give one to any account, an SSO account among them.
Login(u) == /\ Usable(users[u])
            /\ signedIn' = signedIn \cup {u}
            /\ UNCHANGED <<tables, requests>>

\* oidc_callback gives the cookie to an account that is approved and active.
SignIn(u, row) == IF Usable(row) /\ row.approved THEN signedIn \cup {u} ELSE signedIn

OidcFound(r, s, u) == /\ At(r, "idle")
                      /\ RowExists(u)
                      /\ users[u].sub = s
                      /\ signedIn' = SignIn(u, users[u])
                      /\ UNCHANGED <<tables, requests>>

OidcUnknown(r, s) == /\ At(r, "idle")
                     /\ \A u \in Users : users[u].sub # s
                     /\ Keep(r, [Idle EXCEPT !.pc = "oidc.create", !.sub = s])

\* Mutant: is_active keeps its default.
OidcCreate_Active(r, u) ==
  LET s == requests[r].sub IN
  /\ At(r, "oidc.create")
  /\ users[u].life = "absent"
  /\ \A v \in Users : users[v].sub # s
  /\ users' = [users EXCEPT ![u] = [NoRow EXCEPT !.life = "active", !.sub = s, !.active = TRUE]]
  /\ Finish(r)
  /\ UNCHANGED <<departments, roles, borrowers, signedIn>>

\* The first login of a person; external_id is unique.
OidcCreate(r, u) ==
  LET s == requests[r].sub IN
  /\ At(r, "oidc.create")
  /\ users[u].life = "absent"
  /\ \A v \in Users : users[v].sub # s
  /\ users' = [users EXCEPT ![u] = [NoRow EXCEPT !.life = "active", !.sub = s]]
  /\ Finish(r)
  /\ UNCHANGED <<departments, roles, borrowers, signedIn>>

-----------------------------------------------------------------------------
(* admin_departments.py, purge_department *)

\* Mutant: the members stay.
Members_None(d) == {}

Members(d) == {u \in Users : RowExists(u) /\ users[u].dept = d}

\* The users of the department, all of them, and what each of them has.
DepartmentLoad(r, c, d, force) ==
  LET S == Members(d) IN
  /\ At(r, "idle")
  /\ MayCall(c)
  /\ d \in departments
  /\ S \cap borrowers # {} => force
  /\ Keep(r, [Idle EXCEPT !.pc = "department", !.by = c, !.dept = d, !.purge = S,
                          !.seen = RolesOf(S) \cup RolesIn(d)])

\* A user who moved in since keeps its row; the flush sets department_id to
\* NULL (relationship Department.users).
DepartmentCommit(r) ==
  LET q == requests[r] IN
  /\ At(r, "department")
  /\ q.dept \in departments
  /\ RolesIn(q.dept) \subseteq q.seen
  /\ PurgeRows(r, q.purge, q.seen)
  /\ \A u \in Members(q.dept) : RowFree(r, u)
  /\ departments' = departments \ {q.dept}
  /\ users' = [u \in Users |->
       IF u \in q.purge THEN Purged
       ELSE IF users[u].dept = q.dept THEN [users[u] EXCEPT !.dept = None]
       ELSE users[u]]
  /\ Finish(r)
  /\ UNCHANGED signedIn

-----------------------------------------------------------------------------
(* The desk: resolve_worker asks for a badge of an active user.  LendingDesk *)
(* has the whole of it.                                                      *)

Lend(u) == /\ Usable(users[u]) /\ users[u].badge
           /\ u \notin borrowers
           /\ borrowers' = borrowers \cup {u}
           /\ UNCHANGED <<users, departments, roles, signedIn, requests>>

Return(u) == /\ u \in borrowers
             /\ borrowers' = borrowers \ {u}
             /\ UNCHANGED <<users, departments, roles, signedIn, requests>>

-----------------------------------------------------------------------------
Init == /\ users = [u \in Users |-> IF u \in Seeded THEN Admin ELSE NoRow]
        /\ departments = Departments
        /\ roles = {}
        /\ borrowers = {}
        /\ signedIn = {}
        /\ requests = [r \in Requests |-> Idle]

\* What a form grants: no role or one role.
Grants == {{}} \cup {{g} : g \in RoleNames}

\* The role fields of the edit form, one per department.
Forms(u) == {{<<u, d, f[d]>> : d \in {e \in departments : f[e] # None}} :
               f \in [departments -> RoleNames \cup {None}]}

Administer(r) ==
  \/ \E c, u \in Users : \/ CreateLoad(r, c, u) \/ ToggleLoad(r, c, u)
                         \/ DeleteLoad(r, c, u) \/ RestoreLoad(r, c, u)
                         \/ \E force \in BOOLEAN : PurgeLoad(r, c, u, force)
  \/ \E d \in Departments, admin \in BOOLEAN, grant \in Grants : CreateCommit(r, d, admin, grant)
  \/ ToggleCommit(r) \/ DeleteCommit(r) \/ RestoreCommit(r) \/ PurgeCommit(r)

Edit(r) ==
  /\ "edit" \in Features
  /\ \/ \E c, u \in Users, admin \in BOOLEAN : EditLoad(r, c, u, admin)
     \/ EditRoles(r)
     \/ \E d \in Departments, form \in Forms(requests[r].user) : EditCommit(r, d, form)

SingleSignOn(r) ==
  /\ "sso" \in Features
  /\ \/ \E s \in Subjects : OidcUnknown(r, s) \/ \E u \in Users : OidcFound(r, s, u)
     \/ \E u \in Users : OidcCreate(r, u)
     \/ \E c, u \in Users : ApproveLoad(r, c, u) \/ RejectLoad(r, c, u)
     \/ \E d \in Departments, grant \in Grants : ApproveCommit(r, d, grant)
     \/ RejectCommit(r)

DeleteDepartment(r) ==
  /\ "department" \in Features
  /\ \/ \E c \in Users, d \in Departments, force \in BOOLEAN : DepartmentLoad(r, c, d, force)
     \/ DepartmentCommit(r)

Desk == "lend" \in Features /\ \E u \in Users : Lend(u) \/ Return(u)

Next == \/ \E r \in Requests : \/ Administer(r) \/ Edit(r) \/ SingleSignOn(r)
                               \/ DeleteDepartment(r) \/ Abort(r)
        \/ \E u \in Users : Login(u)
        \/ Desk

Spec == Init /\ [][Next]_vars

-----------------------------------------------------------------------------
\* Types; a user has at most one role in a department (primary key), the rows
\* of roles point to rows that exist, and only existing users borrow.
TypeOK ==
  /\ users \in [Users -> User]
  /\ departments \subseteq Departments
  /\ roles \subseteq Role
  /\ \A x, y \in roles : x[1] = y[1] /\ x[2] = y[2] => x = y
  /\ \A x \in roles : RowExists(x[1]) /\ x[2] \in departments
  /\ borrowers \subseteq {u \in Users : RowExists(u)}
  /\ signedIn \subseteq Users
  /\ requests \in [Requests -> Request]

\* The step lets a user in, or makes an administrator of one.
Raises(u) == \/ ~Usable(users[u]) /\ Usable(users'[u])
             \/ ~users[u].admin /\ users'[u].admin

\* The step is the commit of a request about u.
CommitAbout(r, u) == /\ ~At(r, "idle") /\ requests'[r] = Idle
                     /\ requests[r].user = u

\* Whom the step lets in or makes an administrator, it is the commit of a request
\* about that user, and another user sent the request.
LetsInByAnother ==
  \A u \in Users : Raises(u) => \E r \in Requests : /\ CommitAbout(r, u)
                                                    /\ requests[r].by \in Users \ {u}

\* However requests interleave, nobody gets in or up alone: an account becomes
\* usable, and an administrator, only by a request about it that another
\* administrator sent.  So the SSO provider alone gives no access (docs/
\* architecture/auth.md: the account that the first login makes is locked), to
\* the desk or by a password either; and a form that an administrator sends about
\* the own account does not bring back the rights that somebody else withdraws
\* while it is on its way, for only what the form changes is written.
LetInByAnother == [][LetsInByAnother]_vars

\* The installation keeps an administrator who can act: the handlers keep an
\* administrator from locking the own account out.
SomeAdminRemains == \E u \in Users : IsAdmin(u)

\* A person who was approved through SSO has a department
\* (approve_pending_account: approval ALWAYS needs one).
ApprovedHasDepartment ==
  \A u \in Users : RowExists(u) /\ users[u].sub # None /\ users[u].approved => users[u].dept # None
=============================================================================
