------------------------------ MODULE TrashDesk -------------------------------
(***************************************************************************)
(* The trash can of app/core/trash.py beside the lending desk: restoring   *)
(* soft-deleted items and users, and purging items, users and whole        *)
(* departments for good.  A purge keeps the history: it nulls the foreign  *)
(* keys of the lendings and reservations it leaves behind (and copies the  *)
(* names into their snapshot columns).  Open lendings and reservations     *)
(* block a purge unless it is forced, in which case they are closed.       *)
(*                                                                         *)
(* An admin's request reads everything it needs in one step and commits in *)
(* another; requests at the desk run in between.                           *)
(***************************************************************************)
EXTENDS LendingDesk

CONSTANTS
  Slots,     \* slots for trash requests that are in flight
  Home,      \* users.department_id: the home department of a worker
  Forces     \* the values of the force checkbox that admins submit

ASSUME HomeAssumption == Home \in [Workers -> Departments]
ASSUME ForcesAssumption == Forces \subseteq BOOLEAN

VARIABLE trash   \* what every trash request in flight is about to commit

tvars == <<vars, trash>>

(***************************************************************************)
(* A purge deletes rows of items, users and departments in one commit.     *)
(* closeL and closeR are the open rows it closes, seenR the reservations   *)
(* it found and will detach.                                               *)
(***************************************************************************)
TrashRequest == [pc     : {"idle", "restore.item", "restore.user", "purge"},
                 items  : SUBSET Items,
                 users  : SUBSET Workers,
                 depts  : SUBSET Departments,
                 closeL : SUBSET Lendings,
                 closeR : SUBSET Reservations,
                 seenR  : SUBSET Reservations]

NoTrash == [pc |-> "idle", items |-> {}, users |-> {}, depts |-> {},
            closeL |-> {}, closeR |-> {}, seenR |-> {}]

TAt(a, pc) == trash[a].pc = pc

TKeep(a, p) == /\ trash' = [trash EXCEPT ![a] = p]
               /\ UNCHANGED vars

TFinish(a) == trash' = [trash EXCEPT ![a] = NoTrash]

TAbort(a) == /\ ~TAt(a, "idle")
             /\ TFinish(a)
             /\ UNCHANGED vars
-----------------------------------------------------------------------------
(***************************************************************************)
(* _restore_trashed.                                                       *)
(***************************************************************************)
RestoreItemLoad(a, i) ==
  /\ TAt(a, "idle")
  /\ items[i].life = "trashed"
  /\ TKeep(a, [NoTrash EXCEPT !.pc = "restore.item", !.items = {i}])

RestoreUserLoad(a, w) ==
  /\ TAt(a, "idle")
  /\ workers[w] = "trashed"
  /\ TKeep(a, [NoTrash EXCEPT !.pc = "restore.user", !.users = {w}])

\* Mutant: an item that is restored is made available.
Restored_Available(row) == [row EXCEPT !.life = "active", !.status = "verfuegbar"]

\* Only deleted_at is reset.
Restored(row) == [row EXCEPT !.life = "active"]

\* UPDATE of a row that is gone fails, so both need the row to exist.
RestoreCommit(a) ==
  /\ \/ /\ TAt(a, "restore.item")
        /\ \A i \in trash[a].items : RowExists(i)
        /\ items' = [i \in Items |-> IF i \in trash[a].items
                       THEN Restored(items[i]) ELSE items[i]]
        /\ UNCHANGED workers
     \/ /\ TAt(a, "restore.user")
        /\ \A w \in trash[a].users : workers[w] # "purged"
        /\ \E back \in {"active", "inactive"} :   \* is_active was kept
             workers' = [w \in Workers |-> IF w \in trash[a].users
                           THEN back ELSE workers[w]]
        /\ UNCHANGED items
  /\ TFinish(a)
  /\ UNCHANGED <<departments, lendings, reservations, requests>>

(***************************************************************************)
(* purge_item, purge_user and purge_department.                            *)
(***************************************************************************)

\* Rows of the history that point to something the purge deletes.
PointsTo(row, S, U, D) == row.item \in S \/ row.worker \in U \/ row.dept \in D

\* _close_open_or_block: without force nothing that is open may be found.
CloseOrBlock(force, L, R) == force \/ (L = {} /\ R = {})

\* Mutant: open reservations are detached but not cancelled.
PurgePlan_ClosesLendings(a, S, U, D, L, R) ==
  TKeep(a, [pc |-> "purge", items |-> S, users |-> U, depts |-> D,
            closeL |-> L, closeR |-> {},
            seenR |-> {v \in Reservations : /\ reservations[v].used
                                            /\ PointsTo(reservations[v], S, U, D)}])

\* The open rows the commit will close, and the reservations it will detach.
PurgePlan(a, S, U, D, L, R) ==
  TKeep(a, [pc |-> "purge", items |-> S, users |-> U, depts |-> D,
            closeL |-> L, closeR |-> R,
            seenR |-> {v \in Reservations : /\ reservations[v].used
                                            /\ PointsTo(reservations[v], S, U, D)}])

PurgeItemLoad(a, i, force) ==
  LET L == OpenLendings(i)
      R == OpenReservations(i)
  IN  /\ TAt(a, "idle")
      /\ items[i].life = "trashed"
      /\ CloseOrBlock(force, L, R)
      /\ PurgePlan(a, {i}, {}, {}, L, R)

OpenLendingsOf(w) == {l \in Lendings : /\ lendings[l].state = "open"
                                       /\ lendings[l].worker = w}

\* The status of the items that come back this way is not touched.
PurgeUserLoad(a, w, force) ==
  LET L == OpenLendingsOf(w)
      R == ReservationsOf(w)
  IN  /\ TAt(a, "idle")
      /\ workers[w] = "trashed"
      /\ CloseOrBlock(force, L, R)
      /\ PurgePlan(a, {}, {w}, {}, L, R)

\* Open rows are looked up by their department_id; the items of the
\* department are purged without looking at their own open rows again, its
\* members are checked in full.
PurgeDepartmentLoad(a, d, force) ==
  LET S == {i \in Items : RowExists(i) /\ items[i].dept = d}
      U == {w \in Workers : workers[w] # "purged" /\ Home[w] = d}
      L == {l \in Lendings : /\ lendings[l].state = "open"
                             /\ lendings[l].dept = d \/ lendings[l].worker \in U}
      R == {v \in Reservations : /\ IsOpen(v)
                                 /\ reservations[v].dept = d \/ reservations[v].worker \in U}
  IN  /\ TAt(a, "idle")
      /\ d \in departments
      /\ CloseOrBlock(force, L, R)
      /\ PurgePlan(a, S, U, {d}, L, R)

\* Mutant: the UPDATE lost its WHERE clause.
NullIf_EveryRow(x, S) == IF S = {} THEN x ELSE None

NullIf(x, S) == IF x \in S THEN None ELSE x

\* Mutant: the foreign keys of reservations were dropped.
ForeignKeysHold_NotOfReservations(p) ==
  \A i \in Items \ p.items : RowExists(i) => items[i].dept \notin p.depts

\* What the plan did not find but points to a row that it deletes.
ForeignKeysHold(p) ==
  /\ \A v \in Reservations : reservations[v].used
       /\ PointsTo(reservations[v], p.items, p.users, p.depts) => v \in p.seenR
  /\ \A i \in Items \ p.items : RowExists(i) => items[i].dept \notin p.depts

\* The commit detaches the whole history it found.  Lendings that came later
\* are detached too (the ORM nulls the foreign keys of Item.lendings,
\* User.lendings and Department.lendings when it deletes); a reservation that
\* came later, or an item that moved into a deleted department, makes the
\* DELETE violate a foreign key and the transaction roll back.
PurgeCommit(a) ==
  LET p == trash[a] IN
  /\ TAt(a, "purge")
  /\ ForeignKeysHold(p)
  /\ items' = [i \in Items |-> IF i \in p.items
                 THEN [items[i] EXCEPT !.life = "purged"] ELSE items[i]]
  /\ workers' = [w \in Workers |-> IF w \in p.users THEN "purged" ELSE workers[w]]
  /\ departments' = departments \ p.depts
  /\ lendings' = [l \in Lendings |->
       [state  |-> IF l \in p.closeL THEN "returned" ELSE lendings[l].state,
        item   |-> NullIf(lendings[l].item, p.items),
        worker |-> NullIf(lendings[l].worker, p.users),
        dept   |-> NullIf(lendings[l].dept, p.depts)]]
  /\ reservations' = [v \in Reservations |->
       IF v \notin p.seenR THEN reservations[v]
       ELSE [reservations[v] EXCEPT
               !.item      = NullIf(@, p.items),
               !.worker    = NullIf(@, p.users),
               !.dept      = NullIf(@, p.depts),
               !.cancelled = @ \/ v \in p.closeR]]
  /\ TFinish(a)
  /\ UNCHANGED requests
-----------------------------------------------------------------------------
TInit == Init /\ trash = [a \in Slots |-> NoTrash]

Manage(a) ==
  \/ TAbort(a)
  \/ \E i \in Items : RestoreItemLoad(a, i)
  \/ \E w \in Workers : RestoreUserLoad(a, w)
  \/ RestoreCommit(a)
  \/ \E i \in Items, force \in Forces : PurgeItemLoad(a, i, force)
  \/ \E w \in Workers, force \in Forces : PurgeUserLoad(a, w, force)
  \/ \E d \in Departments, force \in Forces : PurgeDepartmentLoad(a, d, force)
  \/ PurgeCommit(a)

TNext == \/ Next /\ UNCHANGED trash
         \/ \E a \in Slots : Manage(a)

TSpec == TInit /\ [][TNext]_tvars
-----------------------------------------------------------------------------
(***************************************************************************)
(* Properties.                                                             *)
(***************************************************************************)

\* However trash requests and desk requests interleave, the history never
\* points to a row that was purged: each purge detaches what it leaves behind
\* or rolls back.
Existing(row) ==
  /\ row.item # None => RowExists(row.item)
  /\ row.worker # None => workers[row.worker] # "purged"
  /\ row.dept # None => row.dept \in departments

NoDanglingReference ==
  /\ \A l \in Lendings : Existing(lendings[l])
  /\ \A v \in Reservations : Existing(reservations[v])

\* However requests interleave, history is never torn: a row is not forgotten,
\* a returned lending and a closed reservation stay closed, and the item and
\* the worker of a row change only to NULL, in the step that purges them.
KeepsHistory ==
  /\ \A l \in Lendings : lendings[l].state # "unused" =>
       /\ lendings'[l].state # "unused"
       /\ lendings[l].state = "returned" => lendings'[l].state = "returned"
       /\ \/ lendings'[l].item = lendings[l].item
          \/ lendings'[l].item = None /\ items'[lendings[l].item].life = "purged"
       /\ \/ lendings'[l].worker = lendings[l].worker
          \/ lendings'[l].worker = None /\ workers'[lendings[l].worker] = "purged"
  /\ \A v \in Reservations : reservations[v].used =>
       /\ reservations'[v].used
       /\ ~IsOpen(v) => ~IsOpen(v)'
       /\ \/ reservations'[v].item = reservations[v].item
          \/ reservations'[v].item = None /\ items'[reservations[v].item].life = "purged"
       /\ \/ reservations'[v].worker = reservations[v].worker
          \/ reservations'[v].worker = None /\ workers'[reservations[v].worker] = "purged"
HistoryIsKept == [][KeepsHistory]_tvars

\* An open lending or reservation has its item and its worker, so that it can
\* still be returned, cancelled or picked up (trash.py: open ones block the
\* purge rather than vanish).  True while requests do not overlap.
OpenHasParties ==
  /\ \A l \in Lendings : lendings[l].state = "open" =>
       lendings[l].item # None /\ lendings[l].worker # None
  /\ \A v \in Reservations : IsOpen(v) =>
       reservations[v].item # None /\ reservations[v].worker # None

\* Every item that is out shows "ausgeliehen".
OutShowsLent == \A i \in Items : OutShows(i)
=============================================================================
