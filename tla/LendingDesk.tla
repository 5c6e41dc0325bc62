----------------------------- MODULE LendingDesk -----------------------------
(***************************************************************************)
(* The lending desk of scandy-lite: items, lendings and reservations in    *)
(* PostgreSQL, and the FastAPI handlers of scan.py, pickup.py,             *)
(* reservations.py and items.py that read and write them.                  *)
(*                                                                         *)
(* Every handler runs as one request with its own database session under   *)
(* READ COMMITTED: it loads rows, runs further queries, and commits.  Each *)
(* of these is one step here, and the steps of different requests          *)
(* interleave, because the handlers await between them (and the native     *)
(* installation runs two server processes on one database).  What was read *)
(* is kept in the request's record and may be stale when it is used.  A    *)
(* commit is one step: it applies the unit of work if the constraints of   *)
(* the schema admit it; otherwise the transaction rolls back.              *)
(***************************************************************************)
EXTENDS Naturals, FiniteSets

CONSTANTS
  Items, Workers, Departments,   \* identities of rows (UUIDs in the code)
  Lendings, Reservations,        \* row identities a run can hand out
  Requests,                      \* slots for requests that are in flight
  Unfit,                         \* ItemStatus "defekt" and "ausgemustert": every
                                 \* test of the code treats the two alike
  None                           \* SQL NULL

VARIABLES
  items,         \* table items
  workers,       \* table users, as far as the desk reads it
  departments,   \* rows of table departments; changes only in TrashDesk
  lendings,      \* table lendings
  reservations,  \* table reservations
  requests       \* what every request in flight has read so far

tables == <<items, workers, departments, lendings, reservations>>
vars == <<items, workers, departments, lendings, reservations, requests>>

Status == {"verfuegbar", "ausgeliehen"} \cup Unfit

ASSUME NoneAssumption ==
  /\ None \notin Items \cup Workers \cup Departments \cup Lendings
  /\ None \notin Status

(***************************************************************************)
(* Rows.  An item is "absent" before create_item, "trashed" while          *)
(* deleted_at is set, "purged" once its row is gone.  A worker is a user   *)
(* with a badge; "inactive" means is_active is false.  Timestamps are kept *)
(* only as set or not set.                                                 *)
(***************************************************************************)
Life == {"absent", "active", "trashed", "purged"}

Item == [life : Life, status : Status, dept : Departments \cup {None}]

WorkerLife == {"active", "inactive", "trashed", "purged"}

Lending == [state  : {"unused", "open", "returned"},
            item   : Items \cup {None},
            worker : Workers \cup {None},
            dept   : Departments \cup {None}]

Reservation == [used      : BOOLEAN,
                item      : Items \cup {None},
                worker    : Workers \cup {None},
                dept      : Departments \cup {None},
                fulfilled : BOOLEAN,
                cancelled : BOOLEAN]

PC == {"idle",
       "lend", "lend.commit", "return", "return.commit",
       "reserve", "reserve.commit", "edit", "edit.commit",
       "delete", "cancel", "pickup"}

Request == [pc       : PC,
            item     : Items \cup {None},
            worker   : Workers \cup {None},
            status   : Status \cup {None},        \* as loaded
            dept     : Departments \cup {None},   \* as loaded
            toStatus : Status \cup {None},        \* as submitted
            toDept   : Departments \cup {None},   \* as submitted
            lending  : Lendings \cup {None},
            resvs    : SUBSET Reservations]

Idle == [pc |-> "idle", item |-> None, worker |-> None, status |-> None,
         dept |-> None, toStatus |-> None, toDept |-> None,
         lending |-> None, resvs |-> {}]

UnusedLending == [state |-> "unused", item |-> None, worker |-> None,
                  dept |-> None]

UnusedReservation == [used |-> FALSE, item |-> None, worker |-> None,
                      dept |-> None, fulfilled |-> FALSE, cancelled |-> FALSE]

(***************************************************************************)
(* Queries.                                                                *)
(***************************************************************************)
OpenLendings(i) == {l \in Lendings : /\ lendings[l].state = "open"
                                     /\ lendings[l].item = i}

\* Mutant: the query looks at cancelled_at only.
IsOpen_IgnoresFulfilled(v) == reservations[v].used /\ ~reservations[v].cancelled

IsOpen(v) == /\ reservations[v].used
             /\ ~reservations[v].fulfilled
             /\ ~reservations[v].cancelled

OpenReservations(i) == {v \in Reservations : IsOpen(v) /\ reservations[v].item = i}

\* get_open_reservations_for_worker
ReservationsOf(w) == {v \in Reservations : IsOpen(v) /\ reservations[v].worker = w}

(***************************************************************************)
(* What the schema demands of an INSERT: the foreign keys must point to    *)
(* rows that exist, and the partial unique indexes uq_lendings_open_item   *)
(* and uq_reservations_open_item admit one open row per item.              *)
(***************************************************************************)
RowExists(i) == items[i].life \in {"active", "trashed"}

RowsExist(i, w, d) == RowExists(i) /\ workers[w] # "purged" /\ d \in departments

\* Mutant: the index uq_lendings_open_item was never created.
AdmitsLending_NoIndex(i, w, d) == RowsExist(i, w, d)

AdmitsLending(i, w, d) == RowsExist(i, w, d) /\ OpenLendings(i) = {}

\* Mutant: the index uq_reservations_open_item was never created.
AdmitsReservation_NoIndex(i, w, d) == RowsExist(i, w, d)

AdmitsReservation(i, w, d) == RowsExist(i, w, d) /\ OpenReservations(i) = {}

(***************************************************************************)
(* The request machinery.                                                  *)
(***************************************************************************)
At(r, pc) == requests[r].pc = pc

Keep(r, q) == /\ requests' = [requests EXCEPT ![r] = q]
              /\ UNCHANGED tables

Finish(r) == requests' = [requests EXCEPT ![r] = Idle]

\* A request ends without a commit: a check failed, a constraint rejected the
\* commit, the client went away or the process died.  The session rolls back.
Abort(r) == /\ ~At(r, "idle")
            /\ Finish(r)
            /\ UNCHANGED tables

\* session.get(Item): the first read of the handlers that are given an item.
\* lend and reserve also need it to be available.
Load(r, op, i) ==
  /\ At(r, "idle")
  /\ items[i].life = "active"
  /\ op \in {"lend", "reserve"} => items[i].status = "verfuegbar"
  /\ Keep(r, [Idle EXCEPT !.pc = op, !.item = i,
                          !.status = items[i].status, !.dept = items[i].dept])
-----------------------------------------------------------------------------
(***************************************************************************)
(* scan_lend.                                                              *)
(***************************************************************************)

\* Mutant: somebody else's reservation does not block the lending.
LendCheck_IgnoresOthers(r, w) ==
  LET q == requests[r] IN
  /\ At(r, "lend")
  /\ workers[w] = "active"
  /\ Keep(r, [q EXCEPT !.pc = "lend.commit", !.worker = w,
                       !.resvs = {v \in OpenReservations(q.item) :
                                    reservations[v].worker = w}])

\* The badge must belong to an active worker, and an open reservation must be
\* that worker's own.
LendCheck(r, w) ==
  LET q == requests[r] IN
  /\ At(r, "lend")
  /\ workers[w] = "active"
  /\ \A v \in OpenReservations(q.item) : reservations[v].worker = w
  /\ Keep(r, [q EXCEPT !.pc = "lend.commit", !.worker = w,
                       !.resvs = OpenReservations(q.item)])

LendCommit(r, l) ==
  LET q == requests[r] IN
  /\ At(r, "lend.commit")
  /\ lendings[l].state = "unused"
  /\ AdmitsLending(q.item, q.worker, q.dept)
  /\ lendings' = [lendings EXCEPT ![l] =
       [state |-> "open", item |-> q.item, worker |-> q.worker, dept |-> q.dept]]
  /\ items' = [items EXCEPT ![q.item].status = "ausgeliehen"]
  /\ reservations' = [v \in Reservations |->
       IF v \in q.resvs THEN [reservations[v] EXCEPT !.fulfilled = TRUE]
                        ELSE reservations[v]]
  /\ Finish(r)
  /\ UNCHANGED <<workers, departments>>

(***************************************************************************)
(* scan_return.  The item was loaded before the open lending is looked up. *)
(* The session writes a column only when its new value differs from the    *)
(* loaded one: an item that was loaded as available is not written.        *)
(***************************************************************************)
ReturnFind(r, l) ==
  LET q == requests[r] IN
  /\ At(r, "return")
  /\ l \in OpenLendings(q.item)
  /\ Keep(r, [q EXCEPT !.pc = "return.commit", !.lending = l])

ReturnCommit(r) ==
  LET q == requests[r] IN
  /\ At(r, "return.commit")
  /\ lendings' = [lendings EXCEPT ![q.lending].state = "returned"]
  /\ \/ /\ q.status = "verfuegbar"
        /\ UNCHANGED items
     \/ /\ q.status # "verfuegbar"
        /\ RowExists(q.item)
        /\ items' = [items EXCEPT ![q.item].status = "verfuegbar"]
  /\ Finish(r)
  /\ UNCHANGED <<workers, departments, reservations>>

(***************************************************************************)
(* _try_reserve_item, for a single item and for each item of a cart.       *)
(***************************************************************************)
ReserveCheck(r, w) ==
  LET q == requests[r] IN
  /\ At(r, "reserve")
  /\ workers[w] = "active"
  /\ OpenReservations(q.item) = {}
  /\ Keep(r, [q EXCEPT !.pc = "reserve.commit", !.worker = w])

ReserveCommit(r, v) ==
  LET q == requests[r] IN
  /\ At(r, "reserve.commit")
  /\ ~reservations[v].used
  /\ AdmitsReservation(q.item, q.worker, q.dept)
  /\ reservations' = [reservations EXCEPT ![v] =
       [used |-> TRUE, item |-> q.item, worker |-> q.worker, dept |-> q.dept,
        fulfilled |-> FALSE, cancelled |-> FALSE]]
  /\ Finish(r)
  /\ UNCHANGED <<items, workers, departments, lendings>>

(***************************************************************************)
(* cancel_reservation (by its owner or an admin) and pickup_remove (by     *)
(* staff who hand out the reservations of one worker).                     *)
(***************************************************************************)
CancelLoad(r, v) ==
  /\ At(r, "idle")
  /\ IsOpen(v)
  /\ Keep(r, [Idle EXCEPT !.pc = "cancel", !.resvs = {v}])

PickupRemoveLoad(r, w, v) ==
  /\ reservations[v].worker = w
  /\ CancelLoad(r, v)

\* Mutant: the wrong column is set.
CancelCommit_WrongColumn(r) ==
  /\ At(r, "cancel")
  /\ reservations' = [v \in Reservations |->
       IF v \in requests[r].resvs
         THEN [reservations[v] EXCEPT !.fulfilled = TRUE]
         ELSE reservations[v]]
  /\ Finish(r)
  /\ UNCHANGED <<items, workers, departments, lendings>>

CancelCommit(r) ==
  /\ At(r, "cancel")
  /\ reservations' = [v \in Reservations |->
       IF v \in requests[r].resvs
         THEN [reservations[v] EXCEPT !.cancelled = TRUE]
         ELSE reservations[v]]
  /\ Finish(r)
  /\ UNCHANGED <<items, workers, departments, lendings>>

(***************************************************************************)
(* pickup_confirm: hand out the checked reservations of a worker in one    *)
(* transaction.  Reservations whose item is gone or not available are      *)
(* skipped; deleted_at of the item is not looked at.                       *)
(***************************************************************************)
PickupLoad(r, w, checked) ==
  /\ At(r, "idle")
  /\ workers[w] \in {"active", "inactive"}
  /\ LET take == {v \in checked \cap ReservationsOf(w) :
                    /\ reservations[v].item # None
                    /\ items[reservations[v].item].status = "verfuegbar"}
     IN  /\ take # {}
         /\ Keep(r, [Idle EXCEPT !.pc = "pickup", !.worker = w, !.resvs = take])

\* rowFor gives each reservation its new lending row.
PickupCommit(r, rowFor) ==
  LET q    == requests[r]
      I(v) == reservations[v].item
  IN
  /\ At(r, "pickup")
  /\ \A v \in q.resvs : /\ lendings[rowFor[v]].state = "unused"
                        /\ I(v) # None
                        /\ AdmitsLending(I(v), q.worker, reservations[v].dept)
  /\ \A u, v \in q.resvs : (I(u) = I(v) \/ rowFor[u] = rowFor[v]) => u = v
  /\ lendings' = [l \in Lendings |->
       IF \E v \in q.resvs : rowFor[v] = l
         THEN LET v == CHOOSE v \in q.resvs : rowFor[v] = l
              IN  [state |-> "open", item |-> I(v), worker |-> q.worker,
                   dept |-> reservations[v].dept]
         ELSE lendings[l]]
  /\ items' = [i \in Items |->
       IF \E v \in q.resvs : I(v) = i
         THEN [items[i] EXCEPT !.status = "ausgeliehen"] ELSE items[i]]
  /\ reservations' = [v \in Reservations |->
       IF v \in q.resvs THEN [reservations[v] EXCEPT !.fulfilled = TRUE]
                        ELSE reservations[v]]
  /\ Finish(r)
  /\ UNCHANGED <<workers, departments>>

(***************************************************************************)
(* create_item, update_item and the soft delete of an item.                *)
(***************************************************************************)
\* Mutant: the department is optional.
CreateItem_NoDepartment(i, d) ==
  /\ items[i].life = "absent"
  /\ items' = [items EXCEPT ![i] =
       [life |-> "active", status |-> "verfuegbar", dept |-> None]]
  /\ UNCHANGED <<workers, departments, lendings, reservations, requests>>

CreateItem(i, d) ==
  /\ items[i].life = "absent"
  /\ d \in departments
  /\ items' = [items EXCEPT ![i] =
       [life |-> "active", status |-> "verfuegbar", dept |-> d]]
  /\ UNCHANGED <<workers, departments, lendings, reservations, requests>>

\* Mutant: the status of an item that is out may be edited.
EditCheck_AnyStatus(r, s, d) ==
  LET q == requests[r] IN
  /\ At(r, "edit")
  /\ d # q.dept => /\ OpenLendings(q.item) = {}
                   /\ OpenReservations(q.item) = {}
  /\ Keep(r, [q EXCEPT !.pc = "edit.commit", !.toStatus = s, !.toDept = d])

\* Mutant: a reserved item may move to another department.
EditCheck_MovesReserved(r, s, d) ==
  LET q == requests[r] IN
  /\ At(r, "edit")
  /\ (s # "ausgeliehen" \/ d # q.dept) => OpenLendings(q.item) = {}
  /\ Keep(r, [q EXCEPT !.pc = "edit.commit", !.toStatus = s, !.toDept = d])

\* The form may have been rendered long ago, so it brings any status.  An open
\* lending blocks every status but "ausgeliehen"; an open lending or an open
\* reservation blocks a change of department.
EditCheck(r, s, d) ==
  LET q == requests[r] IN
  /\ At(r, "edit")
  /\ s # "ausgeliehen" => OpenLendings(q.item) = {}
  /\ d # q.dept => /\ OpenLendings(q.item) = {}
                   /\ OpenReservations(q.item) = {}
  /\ Keep(r, [q EXCEPT !.pc = "edit.commit", !.toStatus = s, !.toDept = d])

\* Only columns that differ from what was loaded are written.
EditCommit(r) ==
  LET q == requests[r] IN
  /\ At(r, "edit.commit")
  /\ RowExists(q.item)
  /\ q.toDept = q.dept \/ q.toDept \in departments
  /\ items' = [items EXCEPT
       ![q.item].status = IF q.toStatus = q.status THEN @ ELSE q.toStatus,
       ![q.item].dept   = IF q.toDept = q.dept THEN @ ELSE q.toDept]
  /\ Finish(r)
  /\ UNCHANGED <<workers, departments, lendings, reservations>>

\* delete_entity asks neither for open lendings nor for reservations.
DeleteCommit(r) ==
  LET i == requests[r].item IN
  /\ At(r, "delete")
  /\ RowExists(i)
  /\ items' = [items EXCEPT ![i].life = "trashed"]
  /\ Finish(r)
  /\ UNCHANGED <<workers, departments, lendings, reservations>>

(***************************************************************************)
(* toggle_user and delete_user of the account administration, which change *)
(* who can be served at the desk.  Each writes one column of one row.      *)
(***************************************************************************)
ToggleWorker(w) ==
  /\ workers[w] \in {"active", "inactive"}
  /\ workers' = [workers EXCEPT ![w] = IF @ = "active" THEN "inactive" ELSE "active"]
  /\ UNCHANGED <<items, departments, lendings, reservations, requests>>

DeleteWorker(w) ==
  /\ workers[w] \in {"active", "inactive"}
  /\ workers' = [workers EXCEPT ![w] = "trashed"]
  /\ UNCHANGED <<items, departments, lendings, reservations, requests>>
-----------------------------------------------------------------------------
Init == /\ items = [i \in Items |-> [life |-> "absent", status |-> "verfuegbar",
                                     dept |-> None]]
        /\ workers = [w \in Workers |-> "active"]
        /\ departments = Departments
        /\ lendings = [l \in Lendings |-> UnusedLending]
        /\ reservations = [v \in Reservations |-> UnusedReservation]
        /\ requests = [r \in Requests |-> Idle]

ItemOps == {"lend", "return", "reserve", "edit", "delete"}

\* The steps of one request.
Handle(r) ==
  \/ Abort(r)
  \/ \E op \in ItemOps, i \in Items : Load(r, op, i)
  \/ \E w \in Workers : LendCheck(r, w)
  \/ \E l \in Lendings : LendCommit(r, l)
  \/ \E l \in Lendings : ReturnFind(r, l)
  \/ ReturnCommit(r)
  \/ \E w \in Workers : ReserveCheck(r, w)
  \/ \E v \in Reservations : ReserveCommit(r, v)
  \/ \E v \in Reservations : CancelLoad(r, v)
  \/ \E w \in Workers, v \in Reservations : PickupRemoveLoad(r, w, v)
  \/ CancelCommit(r)
  \/ \E w \in Workers, checked \in SUBSET Reservations : PickupLoad(r, w, checked)
  \/ \E rowFor \in [requests[r].resvs -> Lendings] : PickupCommit(r, rowFor)
  \/ \E s \in Status, d \in Departments : EditCheck(r, s, d)
  \/ EditCommit(r)
  \/ DeleteCommit(r)

Next == \/ \E r \in Requests : Handle(r)
        \/ \E i \in Items, d \in Departments : CreateItem(i, d)
        \/ \E w \in Workers : ToggleWorker(w) \/ DeleteWorker(w)

Spec == Init /\ [][Next]_vars
-----------------------------------------------------------------------------
(***************************************************************************)
(* Properties.                                                             *)
(***************************************************************************)

\* A request that has passed a check knows the rows its commit will write.
KnowsItsRows(q) ==
  /\ q.pc \notin {"idle", "cancel", "pickup"} => q.item \in Items /\ q.dept \in Departments
  /\ q.pc \in {"lend.commit", "reserve.commit", "pickup"} => q.worker \in Workers
  /\ q.pc \in {"edit", "edit.commit", "return", "return.commit"} => q.status \in Status
  /\ q.pc = "return.commit" => q.lending \in Lendings
  /\ q.pc = "edit.commit" => q.toStatus \in Status /\ q.toDept \in Departments

\* Every table and every request record has its type, an item that was ever
\* created belongs to a department (items.department_id is NOT NULL), and the
\* requests know their rows.
TypeOK ==
  /\ items \in [Items -> Item]
  /\ \A i \in Items : items[i].life = "absent" \/ items[i].dept \in Departments
  /\ workers \in [Workers -> WorkerLife]
  /\ departments \subseteq Departments
  /\ lendings \in [Lendings -> Lending]
  /\ reservations \in [Reservations -> Reservation]
  /\ requests \in [Requests -> Request]
  /\ \A r \in Requests : KnowsItsRows(requests[r])

\* However requests interleave, an item is never out on two lendings at once.
\* scan_lend and pickup_confirm check the status long before they commit; what
\* protects the item is the unique index their commit runs into.
OneOpenLending ==
  \A i \in Items : \A l, m \in OpenLendings(i) : l = m

\* However requests interleave, an item is never reserved twice at once.
OneOpenReservation ==
  \A i \in Items : \A u, v \in OpenReservations(i) : u = v

\* Both: of the rows of an item at most one of each kind is open.
OneOpenRow == OneOpenLending /\ OneOpenReservation

\* No reservation counts as fulfilled unless its item was handed to its worker:
\* a batch that rolls back, a skipped item and a cancellation fulfil nothing.
FulfilledMeansHandedOut ==
  \A v \in Reservations : reservations[v].fulfilled =>
    \E l \in Lendings : /\ lendings[l].state # "unused"
                        /\ lendings[l].item = reservations[v].item
                        /\ lendings[l].worker = reservations[v].worker

\* Item.status mirrors the ledger (models/item.py: the status is updated in
\* step with the lendings): an item that is out shows "ausgeliehen", and an item
\* that shows "ausgeliehen" is out.  The first is true while requests do not
\* overlap, the second until a form brings "ausgeliehen" back besides.
OutShows(i) == OpenLendings(i) # {} => items[i].status = "ausgeliehen"

ShownIsOut(i) ==
  RowExists(i) /\ items[i].status = "ausgeliehen" => OpenLendings(i) # {}

\* The commit of an edit form that was rendered while the item was out, and was
\* submitted when it was back.
BringsLentBack(r, i) ==
  /\ EditCommit(r)
  /\ requests[r].item = i
  /\ requests[r].toStatus = "ausgeliehen"
  /\ requests[r].status # "ausgeliehen"

\* A reservation ends in one way: it is fulfilled or cancelled, never both.
\* True while requests do not overlap.
ReservationEndsOnce ==
  \A v \in Reservations : ~(reservations[v].fulfilled /\ reservations[v].cancelled)

\* Open lendings and reservations carry the department of their item, which
\* is what purge_department relies on.  True while requests do not overlap.
DepartmentsAgree ==
  \A i \in Items :
    /\ \A l \in OpenLendings(i) : lendings[l].dept = items[i].dept
    /\ \A v \in OpenReservations(i) : reservations[v].dept = items[i].dept
-----------------------------------------------------------------------------
(***************************************************************************)
(* The desk implements the two ledgers: a lending that is open holds the   *)
(* item for its worker, a reservation that is open claims it.              *)
(***************************************************************************)
Holder(i) == IF OpenLendings(i) = {} THEN None
             ELSE lendings[CHOOSE l \in OpenLendings(i) : TRUE].worker

Claimant(i) == IF OpenReservations(i) = {} THEN None
               ELSE reservations[CHOOSE v \in OpenReservations(i) : TRUE].worker

holderMap == [i \in Items |-> Holder(i)]
claimMap == [i \in Items |-> Claimant(i)]

Ledger == INSTANCE ItemLedger WITH holder <- holderMap
Claims == INSTANCE ClaimLedger WITH holder <- holderMap, claim <- claimMap

\* However requests interleave, an item passes from one worker to another only
\* by being returned in between: a stale lend, pickup or return commit never
\* hands over or takes back an item that somebody else got meanwhile.
ImplementsItemLedger == Ledger!Spec
=============================================================================
