--------------------------- MODULE ConsumableStock ----------------------------
(***************************************************************************)
(* Consumables: their stock, the log of withdrawals and the reservations   *)
(* of amounts, as scan_consume, the handlers of consumables.py, the        *)
(* consumable half of reservations.py and purge_consumable change them.    *)
(*                                                                         *)
(* A request loads a row, queries, and commits, each in a step of its own, *)
(* as in LendingDesk.  Withdrawals and adjustments do not write the amount *)
(* they loaded: they issue UPDATE ... SET quantity = quantity + delta      *)
(* WHERE the result is not negative.  PostgreSQL keeps the row locked from *)
(* that statement to the end of the transaction, and nobody else sees the  *)
(* new amount before; this is the variable lock.                           *)
(***************************************************************************)
EXTENDS Integers, FiniteSets

CONSTANTS
  Consumables, Workers, Departments,
  Usages, Reservations,    \* row identities a run can hand out
  Requests,                \* slots for requests that are in flight
  Amounts,                 \* amounts that forms submit
  MaxStock,                \* the largest value of the column, 2^31 - 1
  Forces,                  \* values of the force checkbox of a purge
  None                     \* SQL NULL

VARIABLES
  stock,         \* table consumables
  usages,        \* table consumable_usages
  reservations,  \* table consumable_reservations
  lock,          \* the request that has updated a row and not yet ended
  requests,      \* what every request in flight has read so far
  booked         \* history: initial stock plus adjustments that left no usage

tables == <<stock, usages, reservations>>
vars == <<tables, lock, requests, booked>>

ASSUME StockAssumption == /\ MaxStock \in Nat
                          /\ Amounts \subseteq Nat \ {0}
                          /\ Forces \subseteq BOOLEAN
                          /\ IsFiniteSet(Usages) /\ IsFiniteSet(Reservations)

ASSUME NoneAssumption == None \notin Consumables \cup Workers \cup Requests

Life == {"absent", "active", "trashed", "purged"}

Consumable == [life : Life, quantity : 0..MaxStock, dept : Departments \cup {None}]

Usage == [used       : BOOLEAN,
          consumable : Consumables \cup {None},
          worker     : Workers \cup {None},
          quantity   : 0..MaxStock]

Reservation == [used       : BOOLEAN,
                consumable : Consumables \cup {None},
                worker     : Workers \cup {None},
                dept       : Departments \cup {None},
                quantity   : 0..MaxStock,
                fulfilled  : BOOLEAN,
                cancelled  : BOOLEAN]

Loaded == {"consume", "adjust", "reserve", "edit", "delete"}

PC == Loaded \cup {"idle", "consume.find", "consume.commit", "adjust.commit",
                   "reserve.commit", "cancel", "edit.commit", "restore", "purge"}

Request == [pc         : PC,
            consumable : Consumables \cup {None},
            quantity   : 0..MaxStock,             \* as loaded
            dept       : Departments \cup {None}, \* as loaded
            worker     : Workers \cup {None},
            delta      : Int,                     \* what the UPDATE added
            amount     : 0..MaxStock,             \* of a reservation
            toDept     : Departments \cup {None},
            resvs      : SUBSET Reservations,     \* to fulfil, cancel or close
            seen       : SUBSET Reservations]     \* to detach in a purge

Idle == [pc |-> "idle", consumable |-> None, quantity |-> 0, dept |-> None,
         worker |-> None, delta |-> 0, amount |-> 0, toDept |-> None,
         resvs |-> {}, seen |-> {}]

RowExists(c) == stock[c].life \in {"active", "trashed"}

IsOpen(v) == /\ reservations[v].used
             /\ ~reservations[v].fulfilled
             /\ ~reservations[v].cancelled

\* get_open_consumable_reservations
OpenReservations(c) == {v \in Reservations : IsOpen(v) /\ reservations[v].consumable = c}

\* The units of a consumable that are reserved: of a reservation, the n-th one.
\* ReserveCheck admits no reservation of more units than the stock has.
ReservedUnits(c) == {unit \in OpenReservations(c) \X (1..MaxStock) :
                       unit[2] <= reservations[unit[1]].quantity}

\* What _try_reserve_consumable sums up.
Reserved(c) == Cardinality(ReservedUnits(c))

-----------------------------------------------------------------------------
At(r, pc) == requests[r].pc = pc

Locks(r) == {c \in Consumables : lock[c] = r}

\* The request goes on; it may have taken the lock of its row.
Continue(r, q) == requests' = [requests EXCEPT ![r] = q]

Keep(r, q) == Continue(r, q) /\ UNCHANGED <<tables, lock, booked>>

\* The transaction ends and its locks are released.
Finish(r) == /\ requests' = [requests EXCEPT ![r] = Idle]
             /\ lock' = [c \in Consumables |-> IF c \in Locks(r) THEN None ELSE lock[c]]

\* An error is returned, the client goes away or the process dies: rollback.
Abort(r) == /\ ~At(r, "idle")
            /\ Finish(r)
            /\ UNCHANGED <<tables, booked>>

\* session.get: the first read of the handlers that are given a consumable.
Load(r, op, c) ==
  /\ At(r, "idle")
  /\ stock[c].life = "active"
  /\ Keep(r, [Idle EXCEPT !.pc = op, !.consumable = c,
                          !.quantity = stock[c].quantity, !.dept = stock[c].dept])

(***************************************************************************)
(* scan_consume.                                                           *)
(***************************************************************************)
\* Mutant: the stock is checked with a SELECT, which locks nothing.
ConsumeUpdate_Reads(r, w, n) ==
  LET q == requests[r] IN
  /\ At(r, "consume")
  /\ RowExists(q.consumable)
  /\ stock[q.consumable].quantity >= n
  /\ Keep(r, [q EXCEPT !.pc = "consume.find", !.worker = w, !.delta = -n])

\* The UPDATE waits for the lock; it asks for the row, not for deleted_at.
ConsumeUpdate(r, w, n) ==
  LET q == requests[r] IN
  /\ At(r, "consume")
  /\ lock[q.consumable] = None
  /\ RowExists(q.consumable)
  /\ stock[q.consumable].quantity >= n
  /\ lock' = [lock EXCEPT ![q.consumable] = r]
  /\ Continue(r, [q EXCEPT !.pc = "consume.find", !.worker = w, !.delta = -n])
  /\ UNCHANGED <<tables, booked>>

\* get_open_consumable_reservation_for_worker: the worker's own oldest open
\* reservation, whatever its amount.  Which of several is oldest is left open.
ConsumeFind(r) ==
  LET q   == requests[r]
      own == {v \in OpenReservations(q.consumable) : reservations[v].worker = q.worker}
  IN  /\ At(r, "consume.find")
      /\ \/ /\ own = {}
            /\ Keep(r, [q EXCEPT !.pc = "consume.commit"])
         \/ \E v \in own : Keep(r, [q EXCEPT !.pc = "consume.commit", !.resvs = {v}])

Fulfil(S) == [v \in Reservations |->
  IF v \in S THEN [reservations[v] EXCEPT !.fulfilled = TRUE] ELSE reservations[v]]

Cancel(S) == [v \in Reservations |->
  IF v \in S THEN [reservations[v] EXCEPT !.cancelled = TRUE] ELSE reservations[v]]

LogUsage(u, q) ==
  /\ ~usages[u].used
  /\ usages' = [usages EXCEPT ![u] = [used |-> TRUE, consumable |-> q.consumable,
                                      worker |-> q.worker, quantity |-> -q.delta]]

\* Mutant: the new amount is computed from the one that was loaded.
ConsumeCommit_WritesLoaded(r, u) ==
  LET q == requests[r] IN
  /\ At(r, "consume.commit")
  /\ LogUsage(u, q)
  /\ q.quantity + q.delta >= 0
  /\ stock' = [stock EXCEPT ![q.consumable].quantity = q.quantity + q.delta]
  /\ reservations' = Fulfil(q.resvs)
  /\ Finish(r)
  /\ UNCHANGED booked

ConsumeCommit(r, u) ==
  LET q == requests[r] IN
  /\ At(r, "consume.commit")
  /\ LogUsage(u, q)
  /\ stock' = [stock EXCEPT ![q.consumable].quantity = @ + q.delta]
  /\ reservations' = Fulfil(q.resvs)
  /\ Finish(r)
  /\ UNCHANGED booked

(***************************************************************************)
(* adjust_consumable: restock, or withdraw with or without a worker.  A    *)
(* sum that does not fit the column is an error of the UPDATE.             *)
(***************************************************************************)
AdjustUpdate(r, delta, w) ==
  LET q == requests[r] IN
  /\ At(r, "adjust")
  /\ lock[q.consumable] = None
  /\ RowExists(q.consumable)
  /\ stock[q.consumable].quantity + delta \in 0..MaxStock
  /\ lock' = [lock EXCEPT ![q.consumable] = r]
  /\ Continue(r, [q EXCEPT !.pc = "adjust.commit", !.worker = w, !.delta = delta])
  /\ UNCHANGED <<tables, booked>>

\* A withdrawal is logged if a worker was chosen.  Unlike scan_consume it
\* fulfils no reservation.
AdjustCommit(r) ==
  LET q == requests[r] IN
  /\ At(r, "adjust.commit")
  /\ \/ /\ q.delta < 0 /\ q.worker # None
        /\ \E u \in Usages : LogUsage(u, q)
        /\ UNCHANGED booked
     \/ /\ q.delta >= 0 \/ q.worker = None
        /\ booked' = [booked EXCEPT ![q.consumable] = @ + q.delta]
        /\ UNCHANGED usages
  /\ stock' = [stock EXCEPT ![q.consumable].quantity = @ + q.delta]
  /\ Finish(r)
  /\ UNCHANGED reservations

(***************************************************************************)
(* _try_reserve_consumable, for one consumable and for those of a cart,    *)
(* and cancel_consumable_reservation.                                      *)
(***************************************************************************)
\* The amount is compared with the stock that was loaded.  The code refuses what
\* exceeds it, other than its docstring says (reservations.py:215-220).
ReserveCheck(r, w, n) ==
  LET q == requests[r] IN
  /\ At(r, "reserve")
  /\ q.quantity > 0
  /\ Reserved(q.consumable) + n <= q.quantity
  /\ Keep(r, [q EXCEPT !.pc = "reserve.commit", !.worker = w, !.amount = n])

ReserveCommit(r, v) ==
  LET q == requests[r] IN
  /\ At(r, "reserve.commit")
  /\ RowExists(q.consumable)
  /\ ~reservations[v].used
  /\ reservations' = [reservations EXCEPT ![v] =
       [used |-> TRUE, consumable |-> q.consumable, worker |-> q.worker,
        dept |-> q.dept, quantity |-> q.amount, fulfilled |-> FALSE,
        cancelled |-> FALSE]]
  /\ Finish(r)
  /\ UNCHANGED <<stock, usages, booked>>

CancelLoad(r, v) ==
  /\ At(r, "idle")
  /\ IsOpen(v)
  /\ Keep(r, [Idle EXCEPT !.pc = "cancel", !.resvs = {v}])

\* Mutant: the wrong column is set.
CancelCommit_WrongColumn(r) ==
  /\ At(r, "cancel")
  /\ reservations' = Fulfil(requests[r].resvs)
  /\ Finish(r)
  /\ UNCHANGED <<stock, usages, booked>>

CancelCommit(r) ==
  /\ At(r, "cancel")
  /\ reservations' = Cancel(requests[r].resvs)
  /\ Finish(r)
  /\ UNCHANGED <<stock, usages, booked>>

(***************************************************************************)
(* create_consumable, update_consumable (which never writes the amount),   *)
(* delete_entity, restore_consumable and purge_consumable.                 *)
(***************************************************************************)
CreateConsumable(c, n, d) ==
  /\ stock[c].life = "absent"
  /\ stock' = [stock EXCEPT ![c] = [life |-> "active", quantity |-> n, dept |-> d]]
  /\ booked' = [booked EXCEPT ![c] = n]
  /\ UNCHANGED <<usages, reservations, lock, requests>>

\* Mutant: a consumable may move although somebody reserved some of it.
EditCheck_MovesReserved(r, d) ==
  LET q == requests[r] IN
  /\ At(r, "edit")
  /\ Keep(r, [q EXCEPT !.pc = "edit.commit", !.toDept = d])

EditCheck(r, d) ==
  LET q == requests[r] IN
  /\ At(r, "edit")
  /\ d # q.dept => OpenReservations(q.consumable) = {}
  /\ Keep(r, [q EXCEPT !.pc = "edit.commit", !.toDept = d])

EditCommit(r) ==
  LET q == requests[r] IN
  /\ At(r, "edit.commit")
  /\ RowExists(q.consumable) /\ lock[q.consumable] = None
  /\ stock' = [stock EXCEPT ![q.consumable].dept = IF q.toDept = q.dept THEN @ ELSE q.toDept]
  /\ Finish(r)
  /\ UNCHANGED <<usages, reservations, booked>>

DeleteCommit(r) ==
  LET c == requests[r].consumable IN
  /\ At(r, "delete")
  /\ RowExists(c) /\ lock[c] = None
  /\ stock' = [stock EXCEPT ![c].life = "trashed"]
  /\ Finish(r)
  /\ UNCHANGED <<usages, reservations, booked>>

RestoreLoad(r, c) ==
  /\ At(r, "idle")
  /\ stock[c].life = "trashed"
  /\ Keep(r, [Idle EXCEPT !.pc = "restore", !.consumable = c])

RestoreCommit(r) ==
  LET c == requests[r].consumable IN
  /\ At(r, "restore")
  /\ RowExists(c) /\ lock[c] = None
  /\ stock' = [stock EXCEPT ![c].life = "active"]
  /\ Finish(r)
  /\ UNCHANGED <<usages, reservations, booked>>

\* Mutant: a purge cancels every reservation that it finds.
PurgeLoad_CancelsAll(r, c, force) ==
  LET open == OpenReservations(c)
      all  == {v \in Reservations : reservations[v].consumable = c}
  IN  /\ At(r, "idle")
      /\ stock[c].life = "trashed"
      /\ force \/ open = {}
      /\ Keep(r, [Idle EXCEPT !.pc = "purge", !.consumable = c,
                              !.resvs = all, !.seen = all])

\* Open reservations block the purge unless it is forced.
PurgeLoad(r, c, force) ==
  LET open == OpenReservations(c)
      all  == {v \in Reservations : reservations[v].consumable = c}
  IN  /\ At(r, "idle")
      /\ stock[c].life = "trashed"
      /\ force \/ open = {}
      /\ Keep(r, [Idle EXCEPT !.pc = "purge", !.consumable = c,
                              !.resvs = open, !.seen = all])

\* Mutant: the foreign key of the reservations was dropped.
PurgeForeignKey_Dropped(q) == TRUE

\* A reservation that came later than the read is not detached, and its
\* foreign key rejects the DELETE.
PurgeForeignKey(q) ==
  \A v \in Reservations : reservations[v].consumable = q.consumable => v \in q.seen

PurgeCommit(r) ==
  LET q == requests[r] IN
  /\ At(r, "purge")
  /\ RowExists(q.consumable) /\ lock[q.consumable] = None
  /\ PurgeForeignKey(q)
  /\ stock' = [stock EXCEPT ![q.consumable].life = "purged"]
  /\ usages' = [u \in Usages |-> IF usages[u].consumable = q.consumable
       THEN [usages[u] EXCEPT !.consumable = None] ELSE usages[u]]
  /\ reservations' = [v \in Reservations |-> IF v \in q.seen
       THEN [Cancel(q.resvs)[v] EXCEPT !.consumable = None] ELSE reservations[v]]
  /\ Finish(r)
  /\ UNCHANGED booked
-----------------------------------------------------------------------------
Init ==
  /\ stock = [c \in Consumables |-> [life |-> "absent", quantity |-> 0, dept |-> None]]
  /\ usages = [u \in Usages |-> [used |-> FALSE, consumable |-> None,
                                 worker |-> None, quantity |-> 0]]
  /\ reservations = [v \in Reservations |->
       [used |-> FALSE, consumable |-> None, worker |-> None, dept |-> None,
        quantity |-> 0, fulfilled |-> FALSE, cancelled |-> FALSE]]
  /\ lock = [c \in Consumables |-> None]
  /\ requests = [r \in Requests |-> Idle]
  /\ booked = [c \in Consumables |-> 0]

Deltas == Amounts \cup {-n : n \in Amounts}

Handle(r) ==
  \/ Abort(r)
  \/ \E op \in Loaded, c \in Consumables : Load(r, op, c)
  \/ \E w \in Workers, n \in Amounts : ConsumeUpdate(r, w, n)
  \/ ConsumeFind(r)
  \/ \E u \in Usages : ConsumeCommit(r, u)
  \/ \E delta \in Deltas, w \in Workers \cup {None} : AdjustUpdate(r, delta, w)
  \/ AdjustCommit(r)
  \/ \E w \in Workers, n \in Amounts : ReserveCheck(r, w, n)
  \/ \E v \in Reservations : ReserveCommit(r, v)
  \/ \E v \in Reservations : CancelLoad(r, v)
  \/ CancelCommit(r)
  \/ \E d \in Departments : EditCheck(r, d)
  \/ EditCommit(r)
  \/ DeleteCommit(r)
  \/ \E c \in Consumables : RestoreLoad(r, c)
  \/ RestoreCommit(r)
  \/ \E c \in Consumables, force \in Forces : PurgeLoad(r, c, force)
  \/ PurgeCommit(r)

Next == \/ \E r \in Requests : Handle(r)
        \/ \E c \in Consumables, n \in 0..MaxStock, d \in Departments :
             CreateConsumable(c, n, d)

Spec == Init /\ [][Next]_vars
-----------------------------------------------------------------------------
(***************************************************************************)
(* Properties.                                                             *)
(***************************************************************************)

\* However requests interleave, usages and reservations never point to a
\* consumable that was purged, and a reservation that lost its consumable is
\* not open (trash.py: open reservations block the purge or are cancelled).
NoDanglingReference ==
  /\ \A u \in Usages : usages[u].consumable # None => RowExists(usages[u].consumable)
  /\ \A v \in Reservations :
       /\ reservations[v].consumable # None => RowExists(reservations[v].consumable)
       /\ IsOpen(v) => reservations[v].consumable # None

\* Types; the stock of every row is neither negative nor too large for its
\* column (the check constraint ck_consumables_quantity_non_negative is never
\* what stops a request), the request that holds the lock of a row is the one
\* that is about to commit its new amount, and no reference dangles.
TypeOK ==
  /\ stock \in [Consumables -> Consumable]
  /\ usages \in [Usages -> Usage]
  /\ reservations \in [Reservations -> Reservation]
  /\ lock \in [Consumables -> Requests \cup {None}]
  /\ requests \in [Requests -> Request]
  /\ booked \in [Consumables -> Int]
  /\ \A c \in Consumables : lock[c] # None =>
       /\ requests[lock[c]].consumable = c
       /\ requests[lock[c]].pc \in {"consume.find", "consume.commit", "adjust.commit"}
  /\ NoDanglingReference

\* The units of a consumable that were withdrawn: of a usage, the n-th one.
Withdrawn(c) == {unit \in Usages \X (1..MaxStock) :
                   LET usage == usages[unit[1]]
                   IN  usage.consumable = c /\ unit[2] <= usage.quantity}

\* No update is lost and none is applied twice: what is left of a consumable
\* is what was booked in without a usage minus all logged withdrawals.
StockBalances ==
  \A c \in Consumables : RowExists(c) =>
    stock[c].quantity = booked[c] - Cardinality(Withdrawn(c))

\* However requests interleave, no reservation is used up by two withdrawals:
\* a withdrawal looks for a reservation only once it holds the lock of the
\* stock row, so it sees what the one before it fulfilled.
ReservationUsedUpOnce ==
  \A r \in Requests : At(r, "consume.commit") =>
    \A v \in requests[r].resvs : ~reservations[v].fulfilled

\* Every fulfilled reservation has a withdrawal of its own by the same worker:
\* nothing but a withdrawal that commits fulfils a reservation.
FulfilledMeansWithdrawn ==
  \A c \in Consumables, w \in Workers :
    Cardinality({v \in Reservations : /\ reservations[v].fulfilled
                                      /\ reservations[v].consumable = c
                                      /\ reservations[v].worker = w})
      <= Cardinality({u \in Usages : usages[u].consumable = c /\ usages[u].worker = w})

\* Both: a reservation is used up by one withdrawal, of its worker.
UsedUpByOneWithdrawal == ReservationUsedUpOnce /\ FulfilledMeansWithdrawn

\* An open reservation carries the department of its consumable, which is what
\* purge_department relies on.  True while requests do not overlap.
DepartmentsAgree ==
  \A c \in Consumables : \A v \in OpenReservations(c) :
    reservations[v].dept = stock[c].dept

\* A reservation is used up or cancelled, never both.  True while requests do not
\* overlap.
ReservationEndsOnce ==
  \A v \in Reservations : ~(reservations[v].fulfilled /\ reservations[v].cancelled)
=============================================================================
