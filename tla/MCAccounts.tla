------------------------------ MODULE MCAccounts ------------------------------
(***************************************************************************)
(* Instances of Accounts for TLC, with one history variable: whether two   *)
(* requests have ever been in flight at the same time.                     *)
(***************************************************************************)
EXTENDS Accounts, TLC

VARIABLE overlapped

Overlap == \E r, s \in Requests : r # s /\ ~At(r, "idle") /\ ~At(s, "idle")

HInit == Init /\ overlapped = FALSE
HNext == Next /\ overlapped' = (overlapped \/ Overlap')
HSpec == HInit /\ [][HNext]_<<vars, overlapped>>

\* Seeded administrators, other users, departments and request slots are
\* interchangeable.
Symmetry == Permutations(Seeded) \cup Permutations(Users \ Seeded)
              \cup Permutations(Departments) \cup Permutations(Subjects)
              \cup Permutations(RoleNames) \cup Permutations(Requests)
-----------------------------------------------------------------------------
\* As long as no requests have overlapped, a person who was approved through
\* SSO stays in: there is a department (approve_pending_account: approval ALWAYS
\* needs one), however departments are deleted and accounts edited and restored,
\* and the account leaves the table by way of the trash or with its department,
\* never by a rejection.
SerialApproved ==
  [][overlapped' \/
     /\ ApprovedHasDepartment'
     /\ \A u \in Users : users[u].approved /\ RowExists(u) /\ users'[u].life = "purged"
          => \E r \in Requests : ~At(r, "reject") /\ u \in requests[r].purge]_<<vars, overlapped>>

\* As long as no requests have overlapped, toggling, editing, deleting,
\* restoring and purging accounts leaves an administrator who can act; only
\* the deletion of a department or a rejection can take the last one away.
SerialAdmin ==
  [][SomeAdminRemains /\ ~overlapped
       => \/ SomeAdminRemains'
          \/ \E r \in Requests : At(r, "department") \/ At(r, "reject")]_<<vars, overlapped>>
=============================================================================
