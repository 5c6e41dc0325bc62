----------------------------- MODULE Desk_proofs -----------------------------
(***************************************************************************)
(* Theorems about the lending desk, for any sets of rows and any number of *)
(* requests in flight; then about the desk with the trash can beside it,   *)
(* for any home departments and any number of requests to either.          *)
(***************************************************************************)
EXTENDS MCTrashDesk, TLAPS

-----------------------------------------------------------------------------
(***************************************************************************)
(* Type correctness.  A step of a request either stores a new request      *)
(* record or commits and returns to Idle; the first two lemmas say that    *)
(* both keep the requests well typed, so each commit only has to care for  *)
(* the tables it writes.                                                   *)
(***************************************************************************)
TablesOK ==
  /\ items \in [Items -> Item]
  /\ \A i \in Items : items[i].life = "absent" \/ items[i].dept \in Departments
  /\ workers \in [Workers -> WorkerLife]
  /\ departments \subseteq Departments
  /\ lendings \in [Lendings -> Lending]
  /\ reservations \in [Reservations -> Reservation]

RequestsOK ==
  /\ requests \in [Requests -> Request]
  /\ \A r \in Requests : KnowsItsRows(requests[r])

\* A request record that is well typed may be stored.
LEMMA KeepOK ==
  ASSUME TypeOK, NEW r \in Requests, NEW q \in Request, KnowsItsRows(q), Keep(r, q)
  PROVE  TypeOK'
  <1>1. TablesOK'
    BY DEF TypeOK, TablesOK, Keep, tables
  <1>2. RequestsOK'
    BY DEF TypeOK, RequestsOK, Keep
  <1> QED
    BY <1>1, <1>2 DEF TypeOK, TablesOK, RequestsOK

\* The empty request record is well typed.
LEMMA IdleOK == Idle \in Request /\ KnowsItsRows(Idle)
  BY DEF Idle, Request, KnowsItsRows, PC

\* Fulfilling or cancelling reservations keeps their types.
LEMMA MarkOK ==
  ASSUME TypeOK, NEW S
  PROVE  /\ [v \in Reservations |->
               IF v \in S THEN [reservations[v] EXCEPT !.fulfilled = TRUE]
                          ELSE reservations[v]] \in [Reservations -> Reservation]
         /\ [v \in Reservations |->
               IF v \in S THEN [reservations[v] EXCEPT !.cancelled = TRUE]
                          ELSE reservations[v]] \in [Reservations -> Reservation]
  <1>1. \A v \in Reservations :
          /\ reservations[v] \in Reservation
          /\ [reservations[v] EXCEPT !.fulfilled = TRUE] \in Reservation
          /\ [reservations[v] EXCEPT !.cancelled = TRUE] \in Reservation
    BY DEF TypeOK, Reservation
  <1> QED
    BY <1>1

\* A request may finish.
LEMMA FinishOK ==
  ASSUME TypeOK, NEW r \in Requests, Finish(r), TablesOK'
  PROVE  TypeOK'
  BY IdleOK DEF TypeOK, TablesOK, Finish

\* The initial state is well typed.
LEMMA TypeInit == Init => TypeOK
  <1> SUFFICES ASSUME Init PROVE TypeOK
    OBVIOUS
  <1>1. items \in [Items -> Item]
    BY DEF Init, Item, Life, Status
  <1>2. lendings \in [Lendings -> Lending]
    BY DEF Init, UnusedLending, Lending
  <1>3. reservations \in [Reservations -> Reservation]
    BY DEF Init, UnusedReservation, Reservation
  <1>4. workers \in [Workers -> WorkerLife] /\ departments \subseteq Departments
    BY DEF Init, WorkerLife
  <1> QED
    BY <1>1, <1>2, <1>3, <1>4, IdleOK DEF Init, TypeOK

\* pickup_confirm writes well-typed tables, whatever rows it picks.
LEMMA PickupTables ==
  ASSUME TypeOK, NEW r \in Requests,
         NEW rowFor \in [requests[r].resvs -> Lendings], PickupCommit(r, rowFor)
  PROVE  TablesOK'
  <1> DEFINE q    == requests[r]
             I(v) == reservations[v].item
  <1>1. /\ q \in Request
        /\ q.worker \in Workers
        /\ q.resvs \subseteq Reservations
    BY DEF PickupCommit, At, TypeOK, KnowsItsRows, Request
  <1>2. \A v \in q.resvs : I(v) \in Items /\ reservations[v].dept \in Departments
    BY <1>1 DEF PickupCommit, TypeOK, Reservation, AdmitsLending, RowsExist
  <1>3. lendings' \in [Lendings -> Lending]
    <2> SUFFICES ASSUME NEW l \in Lendings
                 PROVE  lendings'[l] \in Lending
      BY DEF PickupCommit
    <2>1. CASE \E v \in q.resvs : rowFor[v] = l
      <3>1. PICK v \in q.resvs : lendings'[l] =
              [state |-> "open", item |-> I(v), worker |-> q.worker,
               dept |-> reservations[v].dept]
        BY <2>1 DEF PickupCommit
      <3> QED
        BY <1>1, <1>2, <3>1 DEF Lending
    <2>2. CASE ~ \E v \in q.resvs : rowFor[v] = l
      BY <2>2 DEF PickupCommit, TypeOK
    <2> QED
      BY <2>1, <2>2
  <1>4. /\ items' \in [Items -> Item]
        /\ \A i \in Items : items'[i].life = "absent" \/ items'[i].dept \in Departments
    <2>1. ASSUME NEW i \in Items
          PROVE  /\ items'[i] \in Item
                 /\ items'[i].life = "absent" \/ items'[i].dept \in Departments
      <3>1. \/ items'[i] = items[i]
            \/ items'[i] = [items[i] EXCEPT !.status = "ausgeliehen"]
        BY DEF PickupCommit
      <3>2. /\ items[i] \in Item
            /\ items[i].life = "absent" \/ items[i].dept \in Departments
        BY DEF TypeOK
      <3> QED
        BY <3>1, <3>2 DEF Item, Status
    <2>2. items' = [i \in Items |-> items'[i]]
      BY DEF PickupCommit
    <2> QED
      BY <2>1, <2>2
  <1>5. reservations' \in [Reservations -> Reservation]
    BY MarkOK DEF PickupCommit
  <1> QED
    BY <1>3, <1>4, <1>5 DEF PickupCommit, TypeOK, TablesOK

\* Every step of a request preserves the types.
LEMMA TypeHandle ==
  ASSUME TypeOK, NEW r \in Requests, Handle(r)
  PROVE  TypeOK'
  <1> DEFINE q == requests[r]
  <1>0. q \in Request /\ KnowsItsRows(q)
    BY DEF TypeOK
  <1>1. CASE Abort(r)
    BY <1>1, FinishOK DEF Abort, tables, TypeOK, TablesOK
  <1>2. ASSUME NEW op \in ItemOps, NEW i \in Items, Load(r, op, i)
        PROVE  TypeOK'
    <2>1. items[i] \in Item /\ items[i].dept \in Departments
      BY <1>2 DEF TypeOK, Load
    <2>2. [Idle EXCEPT !.pc = op, !.item = i, !.status = items[i].status,
                       !.dept = items[i].dept] \in Request
      BY <2>1, IdleOK DEF Request, Idle, ItemOps, PC, Item
    <2> QED
      BY <1>2, <2>1, <2>2, KeepOK DEF Load, KnowsItsRows, Idle, ItemOps, Item
  <1>3. ASSUME NEW w \in Workers, LendCheck(r, w)
        PROVE  TypeOK'
    <2> DEFINE n == [q EXCEPT !.pc = "lend.commit", !.worker = w,
                              !.resvs = OpenReservations(q.item)]
    <2>1. n \in Request
      BY <1>0, <1>3 DEF LendCheck, Request, PC, OpenReservations
    <2>2. KnowsItsRows(n)
      BY <1>0, <1>3 DEF LendCheck, KnowsItsRows, Request, At
    <2> QED
      BY <1>3, <2>1, <2>2, KeepOK DEF LendCheck
  <1>4. ASSUME NEW l \in Lendings, LendCommit(r, l)
        PROVE  TypeOK'
    <2>1. /\ q.item \in Items
          /\ q.worker \in Workers
          /\ q.dept \in Departments
      BY <1>0, <1>4 DEF LendCommit, At, KnowsItsRows
    <2>2. lendings' \in [Lendings -> Lending]
      BY <1>4, <2>1 DEF LendCommit, Lending, TypeOK
    <2>3. reservations' \in [Reservations -> Reservation]
      BY <1>4, MarkOK DEF LendCommit
    <2>4. /\ items' \in [Items -> Item]
          /\ \A i \in Items : items'[i].life = "absent" \/ items'[i].dept \in Departments
      BY <1>4, <2>1 DEF LendCommit, Item, Status, TypeOK
    <2> QED
      BY <1>4, <2>2, <2>3, <2>4, FinishOK DEF LendCommit, TypeOK, TablesOK
  <1>5. ASSUME NEW l \in Lendings, ReturnFind(r, l)
        PROVE  TypeOK'
    <2> DEFINE n == [q EXCEPT !.pc = "return.commit", !.lending = l]
    <2>1. n \in Request
      BY <1>0, <1>5 DEF ReturnFind, Request, PC
    <2>2. KnowsItsRows(n)
      BY <1>0, <1>5 DEF ReturnFind, KnowsItsRows, Request, At
    <2> QED
      BY <1>5, <2>1, <2>2, KeepOK DEF ReturnFind
  <1>6. CASE ReturnCommit(r)
    <2>1. q.item \in Items /\ q.lending \in Lendings
      BY <1>0, <1>6 DEF ReturnCommit, At, KnowsItsRows
    <2>2. lendings' \in [Lendings -> Lending]
      BY <1>6, <2>1 DEF ReturnCommit, Lending, TypeOK
    <2>3. /\ items' \in [Items -> Item]
          /\ \A i \in Items : items'[i].life = "absent" \/ items'[i].dept \in Departments
      BY <1>6, <2>1 DEF ReturnCommit, Item, Status, TypeOK
    <2> QED
      BY <1>6, <2>2, <2>3, FinishOK DEF ReturnCommit, TypeOK, TablesOK
  <1>7. ASSUME NEW w \in Workers, ReserveCheck(r, w)
        PROVE  TypeOK'
    <2> DEFINE n == [q EXCEPT !.pc = "reserve.commit", !.worker = w]
    <2>1. n \in Request
      BY <1>0, <1>7 DEF ReserveCheck, Request, PC
    <2>2. KnowsItsRows(n)
      BY <1>0, <1>7 DEF ReserveCheck, KnowsItsRows, Request, At
    <2> QED
      BY <1>7, <2>1, <2>2, KeepOK DEF ReserveCheck
  <1>8. ASSUME NEW v \in Reservations, ReserveCommit(r, v)
        PROVE  TypeOK'
    <2>1. /\ q.item \in Items
          /\ q.worker \in Workers
          /\ q.dept \in Departments
      BY <1>0, <1>8 DEF ReserveCommit, At, KnowsItsRows
    <2>2. reservations' \in [Reservations -> Reservation]
      BY <1>8, <2>1 DEF ReserveCommit, Reservation, TypeOK
    <2> QED
      BY <1>8, <2>2, FinishOK DEF ReserveCommit, TypeOK, TablesOK
  <1>9. ASSUME NEW v \in Reservations, CancelLoad(r, v)
        PROVE  TypeOK'
    <2>1. [Idle EXCEPT !.pc = "cancel", !.resvs = {v}] \in Request
      BY IdleOK DEF Request, Idle, PC
    <2> QED
      BY <1>9, <2>1, KeepOK DEF CancelLoad, KnowsItsRows, Idle
  <1>10. CASE CancelCommit(r)
    <2>1. reservations' \in [Reservations -> Reservation]
      BY <1>10, MarkOK DEF CancelCommit
    <2> QED
      BY <1>10, <2>1, FinishOK DEF CancelCommit, TypeOK, TablesOK
  <1>11. ASSUME NEW w \in Workers, NEW checked \in SUBSET Reservations,
                PickupLoad(r, w, checked)
         PROVE  TypeOK'
    <2> DEFINE take == {v \in checked \cap ReservationsOf(w) :
                          /\ reservations[v].item # None
                          /\ items[reservations[v].item].status = "verfuegbar"}
    <2>1. [Idle EXCEPT !.pc = "pickup", !.worker = w, !.resvs = take] \in Request
      BY IdleOK DEF Request, Idle, PC
    <2> QED
      BY <1>11, <2>1, KeepOK DEF PickupLoad, KnowsItsRows, Idle
  <1>12. ASSUME NEW rowFor \in [q.resvs -> Lendings], PickupCommit(r, rowFor)
         PROVE  TypeOK'
    BY <1>0, <1>12, PickupTables, FinishOK DEF PickupCommit
  <1>13. ASSUME NEW s \in Status, NEW d \in Departments, EditCheck(r, s, d)
         PROVE  TypeOK'
    <2> DEFINE n == [q EXCEPT !.pc = "edit.commit", !.toStatus = s, !.toDept = d]
    <2>1. n \in Request
      BY <1>0, <1>13 DEF EditCheck, Request, PC
    <2>2. KnowsItsRows(n)
      BY <1>0, <1>13 DEF EditCheck, KnowsItsRows, Request, At
    <2> QED
      BY <1>13, <2>1, <2>2, KeepOK DEF EditCheck
  <1>14. CASE EditCommit(r)
    <2>1. q.item \in Items /\ q.toStatus \in Status /\ q.toDept \in Departments
      BY <1>0, <1>14 DEF EditCommit, At, KnowsItsRows
    <2> DEFINE st == IF q.toStatus = q.status THEN items[q.item].status ELSE q.toStatus
               dp == IF q.toDept = q.dept THEN items[q.item].dept ELSE q.toDept
               new == [items[q.item] EXCEPT !.status = st, !.dept = dp]
    <2>3. items[q.item] \in Item /\ items[q.item].life # "absent"
      BY <1>14, <2>1 DEF EditCommit, RowExists, TypeOK
    <2>4. items[q.item].dept \in Departments
      BY <2>1, <2>3 DEF TypeOK
    <2>5. new \in Item /\ new.dept \in Departments
      BY <2>1, <2>3, <2>4 DEF Item
    <2>6. items' = [items EXCEPT ![q.item] = new]
      BY <1>14, <2>1, <2>3 DEF EditCommit, Item, TypeOK
    <2>7. /\ items' \in [Items -> Item]
          /\ \A i \in Items : items'[i].life = "absent" \/ items'[i].dept \in Departments
      <3> HIDE DEF new
      <3> QED
        BY <2>1, <2>5, <2>6 DEF TypeOK
    <2> QED
      BY <1>14, <2>7, FinishOK DEF EditCommit, TypeOK, TablesOK
  <1>15. CASE DeleteCommit(r)
    <2>1. q.item \in Items
      BY <1>0, <1>15 DEF DeleteCommit, At, KnowsItsRows
    <2>2. /\ items' \in [Items -> Item]
          /\ \A i \in Items : items'[i].life = "absent" \/ items'[i].dept \in Departments
      BY <1>15, <2>1 DEF DeleteCommit, Item, Life, RowExists, TypeOK
    <2> QED
      BY <1>15, <2>2, FinishOK DEF DeleteCommit, TypeOK, TablesOK
  <1> QED
    BY <1>1, <1>2, <1>3, <1>4, <1>5, <1>6, <1>7, <1>8, <1>9, <1>10, <1>11,
       <1>12, <1>13, <1>14, <1>15 DEF Handle, PickupRemoveLoad

\* Every step preserves the types.
LEMMA TypeNext == TypeOK /\ [Next]_vars => TypeOK'
  <1> SUFFICES ASSUME TypeOK, [Next]_vars PROVE TypeOK'
    OBVIOUS
  <1>1. ASSUME NEW r \in Requests, Handle(r) PROVE TypeOK'
    BY <1>1, TypeHandle
  <1>2. ASSUME NEW i \in Items, NEW d \in Departments, CreateItem(i, d)
        PROVE  TypeOK'
    <2>1. /\ items' \in [Items -> Item]
          /\ \A j \in Items : items'[j].life = "absent" \/ items'[j].dept \in Departments
      BY <1>2 DEF CreateItem, Item, Life, Status, TypeOK
    <2> QED
      BY <1>2, <2>1 DEF CreateItem, TypeOK
  <1>3. ASSUME NEW w \in Workers, ToggleWorker(w) \/ DeleteWorker(w)
        PROVE  TypeOK'
    <2>1. workers' \in [Workers -> WorkerLife]
      BY <1>3 DEF ToggleWorker, DeleteWorker, WorkerLife, TypeOK
    <2> QED
      BY <1>3, <2>1 DEF ToggleWorker, DeleteWorker, TypeOK
  <1>4. CASE UNCHANGED vars
    BY <1>4 DEF vars, TypeOK
  <1> QED
    BY <1>1, <1>2, <1>3, <1>4 DEF Next

\* The tables and the request records of the lending desk always have their
\* types, every created item belongs to a department, and a request that has
\* passed its checks knows the rows its commit writes.
THEOREM TypeCorrect == Spec => []TypeOK
  BY TypeInit, TypeNext, PTL DEF Spec
-----------------------------------------------------------------------------
(***************************************************************************)
(* One open lending and one open reservation per item.  Both are inductive *)
(* once the types are known: only a commit that the unique index admits    *)
(* opens a row, and no other step changes the item of an open row.         *)
(***************************************************************************)

\* What a row of lendings says never changes once it is used, and it is opened
\* only for an item that has no open lending.
LEMMA LendingStep ==
  ASSUME TypeOK, [Next]_vars, NEW l \in Lendings, lendings'[l] # lendings[l]
  PROVE  \/ /\ lendings[l].state = "unused"
            /\ lendings'[l].state = "open"
            /\ lendings'[l].item \in Items
            /\ lendings'[l].worker \in Workers
            /\ OpenLendings(lendings'[l].item) = {}
            /\ \A m \in Lendings \ {l} :
                 /\ lendings[m].state = "unused"
                 /\ lendings'[m] # lendings[m]
                 => lendings'[m].item # lendings'[l].item
         \/ lendings'[l] = [lendings[l] EXCEPT !.state = "returned"]
  <1> DEFINE Goal == \/ /\ lendings[l].state = "unused"
                        /\ lendings'[l].state = "open"
                        /\ lendings'[l].item \in Items
                        /\ lendings'[l].worker \in Workers
                        /\ OpenLendings(lendings'[l].item) = {}
                        /\ \A m \in Lendings \ {l} :
                             /\ lendings[m].state = "unused"
                             /\ lendings'[m] # lendings[m]
                             => lendings'[m].item # lendings'[l].item
                     \/ lendings'[l] = [lendings[l] EXCEPT !.state = "returned"]
  <1>1. ASSUME NEW r \in Requests, NEW k \in Lendings, LendCommit(r, k)
        PROVE  Goal
    <2>1. /\ requests[r].item \in Items
          /\ requests[r].worker \in Workers
      BY <1>1 DEF LendCommit, At, TypeOK, KnowsItsRows
    <2>2. k = l
      BY <1>1 DEF LendCommit, TypeOK
    <2> QED
      BY <1>1, <2>1, <2>2 DEF LendCommit, AdmitsLending, TypeOK
  <1>2. ASSUME NEW r \in Requests, ReturnCommit(r)
        PROVE  Goal
    <2>1. requests[r].lending \in Lendings
      BY <1>2 DEF ReturnCommit, At, TypeOK, KnowsItsRows
    <2> QED
      BY <1>2, <2>1 DEF ReturnCommit, TypeOK
  <1>3. ASSUME NEW r \in Requests, NEW rowFor \in [requests[r].resvs -> Lendings],
               PickupCommit(r, rowFor)
        PROVE  Goal
    <2> DEFINE q    == requests[r]
               I(v) == reservations[v].item
               Row(v) == [state |-> "open", item |-> I(v), worker |-> q.worker,
                          dept |-> reservations[v].dept]
    <2>1. /\ q.worker \in Workers
          /\ q.resvs \subseteq Reservations
      BY <1>3 DEF PickupCommit, At, TypeOK, KnowsItsRows, Request
    <2>2. \A v \in q.resvs :
            I(v) \in Items /\ OpenLendings(I(v)) = {}
      BY <1>3, <2>1 DEF PickupCommit, TypeOK, Reservation, AdmitsLending
    <2>3. ASSUME NEW m \in Lendings, lendings'[m] # lendings[m]
          PROVE  \E v \in q.resvs : rowFor[v] = m /\ lendings'[m] = Row(v)
      BY <1>3, <2>3 DEF PickupCommit
    <2>4. PICK v \in q.resvs : rowFor[v] = l /\ lendings'[l] = Row(v)
      BY <2>3
    <2>5. \A u \in q.resvs : I(u) = I(v) => u = v
      BY <1>3 DEF PickupCommit
    <2>6. ASSUME NEW m \in Lendings \ {l}, lendings'[m] # lendings[m]
          PROVE  lendings'[m].item # lendings'[l].item
      <3>1. PICK u \in q.resvs : rowFor[u] = m /\ lendings'[m] = Row(u)
        BY <2>3, <2>6
      <3>2. u # v
        BY <2>4, <3>1
      <3>3. lendings'[m].item = I(u) /\ lendings'[l].item = I(v)
        BY <2>4, <3>1
      <3> QED
        BY <2>5, <3>2, <3>3
    <2>7. lendings[l].state = "unused"
      BY <1>3, <2>4 DEF PickupCommit
    <2>8. /\ lendings'[l].state = "open"
          /\ lendings'[l].item = I(v)
          /\ lendings'[l].worker = q.worker
      BY <2>4
    <2> QED
      BY <2>1, <2>2, <2>6, <2>7, <2>8
  <1>4. ASSUME NEW r \in Requests, Handle(r) PROVE Goal
    <2> HIDE DEF Goal
    <2> QED
      BY <1>1, <1>2, <1>3, <1>4
         DEF Handle, Abort, Load, LendCheck, ReturnFind, ReserveCheck,
             ReserveCommit, CancelLoad, PickupRemoveLoad, CancelCommit, PickupLoad,
             EditCheck, EditCommit, DeleteCommit, Keep, tables
  <1> QED
    BY <1>4 DEF Next, CreateItem, ToggleWorker, DeleteWorker, vars

\* Every step keeps the open lendings of an item unique.
LEMMA OneOpenLendingNext ==
  TypeOK /\ OneOpenLending /\ [Next]_vars => OneOpenLending'
  <1> SUFFICES ASSUME TypeOK, OneOpenLending, [Next]_vars,
                      NEW i \in Items,
                      NEW l \in OpenLendings(i)', NEW m \in OpenLendings(i)',
                      l # m
               PROVE  FALSE
    BY DEF OneOpenLending
  <1>1. /\ l \in Lendings /\ lendings'[l].state = "open" /\ lendings'[l].item = i
        /\ m \in Lendings /\ lendings'[m].state = "open" /\ lendings'[m].item = i
    BY DEF OpenLendings
  <1>2. /\ lendings[l] \in Lending /\ lendings[m] \in Lending
    BY <1>1 DEF TypeOK
  <1>3. ASSUME NEW k \in {l, m}, lendings'[k] # lendings[k]
        PROVE  /\ lendings[k].state = "unused"
               /\ OpenLendings(i) = {}
               /\ \A j \in Lendings \ {k} :
                    /\ lendings[j].state = "unused"
                    /\ lendings'[j] # lendings[j]
                    => lendings'[j].item # i
    <2>1. lendings'[k] # [lendings[k] EXCEPT !.state = "returned"]
      BY <1>1, <1>2, <1>3 DEF Lending
    <2> QED
      BY <1>1, <1>3, <2>1, LendingStep
  <1>4. CASE lendings'[l] = lendings[l] /\ lendings'[m] = lendings[m]
    BY <1>1, <1>4 DEF OneOpenLending, OpenLendings
  <1>5. CASE lendings'[l] # lendings[l] /\ lendings'[m] = lendings[m]
    BY <1>1, <1>3, <1>5 DEF OpenLendings
  <1>6. CASE lendings'[l] = lendings[l] /\ lendings'[m] # lendings[m]
    BY <1>1, <1>3, <1>6 DEF OpenLendings
  <1>7. CASE lendings'[l] # lendings[l] /\ lendings'[m] # lendings[m]
    <2>1. lendings[m].state = "unused"
      BY <1>3, <1>7
    <2> QED
      BY <1>1, <1>3, <1>7, <2>1
  <1> QED
    BY <1>4, <1>5, <1>6, <1>7

\* However requests interleave, an item is never out on two lendings at once.
THEOREM OneOpenLendingHolds == Spec => []OneOpenLending
  <1>1. Init => OneOpenLending
    BY DEF Init, UnusedLending, OneOpenLending, OpenLendings
  <1> QED
    BY <1>1, OneOpenLendingNext, TypeCorrect, PTL DEF Spec

\* A row of reservations is written once, for an item without an open
\* reservation; from then on only its two end marks change, from FALSE to TRUE.
LEMMA ReservationStep ==
  ASSUME TypeOK, [Next]_vars, NEW v \in Reservations,
         reservations'[v] # reservations[v]
  PROVE  \/ /\ ~reservations[v].used
            /\ ~reservations'[v].fulfilled
            /\ OpenReservations(reservations'[v].item) = {}
            /\ \A u \in Reservations \ {v} : reservations'[u] = reservations[u]
         \/ reservations'[v] = [reservations[v] EXCEPT !.fulfilled = TRUE]
         \/ reservations'[v] = [reservations[v] EXCEPT !.cancelled = TRUE]
  <1> DEFINE Goal == \/ /\ ~reservations[v].used
                        /\ ~reservations'[v].fulfilled
                        /\ OpenReservations(reservations'[v].item) = {}
                        /\ \A u \in Reservations \ {v} :
                             reservations'[u] = reservations[u]
                     \/ reservations'[v] = [reservations[v] EXCEPT !.fulfilled = TRUE]
                     \/ reservations'[v] = [reservations[v] EXCEPT !.cancelled = TRUE]
  <1>1. ASSUME NEW r \in Requests, NEW k \in Lendings, LendCommit(r, k)
        PROVE  Goal
    BY <1>1 DEF LendCommit
  <1>2. ASSUME NEW r \in Requests, CancelCommit(r)
        PROVE  Goal
    BY <1>2 DEF CancelCommit
  <1>3. ASSUME NEW r \in Requests, NEW rowFor \in [requests[r].resvs -> Lendings],
               PickupCommit(r, rowFor)
        PROVE  Goal
    BY <1>3 DEF PickupCommit
  <1>4. ASSUME NEW r \in Requests, NEW k \in Reservations, ReserveCommit(r, k)
        PROVE  Goal
    <2>1. k = v
      BY <1>4 DEF ReserveCommit, TypeOK
    <2> QED
      BY <1>4, <2>1 DEF ReserveCommit, AdmitsReservation, TypeOK
  <1>5. ASSUME NEW r \in Requests, Handle(r) PROVE Goal
    <2> HIDE DEF Goal
    <2> QED
      BY <1>1, <1>2, <1>3, <1>4, <1>5
         DEF Handle, Abort, Load, LendCheck, ReturnFind, ReturnCommit, ReserveCheck,
             CancelLoad, PickupRemoveLoad, PickupLoad,
             EditCheck, EditCommit, DeleteCommit, Keep, tables
  <1> QED
    BY <1>5 DEF Next, CreateItem, ToggleWorker, DeleteWorker, vars

\* Every step keeps the open reservations of an item unique.
LEMMA OneOpenReservationNext ==
  TypeOK /\ OneOpenReservation /\ [Next]_vars => OneOpenReservation'
  <1> SUFFICES ASSUME TypeOK, OneOpenReservation, [Next]_vars,
                      NEW i \in Items,
                      NEW u \in OpenReservations(i)', NEW v \in OpenReservations(i)',
                      u # v
               PROVE  FALSE
    BY DEF OneOpenReservation
  <1>1. /\ u \in Reservations /\ IsOpen(u)' /\ reservations'[u].item = i
        /\ v \in Reservations /\ IsOpen(v)' /\ reservations'[v].item = i
    BY DEF OpenReservations
  <1>2. /\ reservations[u] \in Reservation /\ reservations[v] \in Reservation
    BY <1>1 DEF TypeOK
  <1>3. ASSUME NEW k \in {u, v}, reservations'[k] # reservations[k]
        PROVE  /\ OpenReservations(i) = {}
               /\ \A j \in Reservations \ {k} : reservations'[j] = reservations[j]
    <2>1. /\ reservations'[k] # [reservations[k] EXCEPT !.fulfilled = TRUE]
          /\ reservations'[k] # [reservations[k] EXCEPT !.cancelled = TRUE]
      BY <1>1, <1>2 DEF Reservation, IsOpen
    <2> QED
      BY <1>1, <1>3, <2>1, ReservationStep
  <1>4. CASE reservations'[u] = reservations[u] /\ reservations'[v] = reservations[v]
    BY <1>1, <1>4 DEF OneOpenReservation, OpenReservations, IsOpen
  <1>5. CASE reservations'[u] # reservations[u]
    BY <1>1, <1>3, <1>5 DEF OpenReservations, IsOpen
  <1>6. CASE reservations'[v] # reservations[v]
    BY <1>1, <1>3, <1>6 DEF OpenReservations, IsOpen
  <1> QED
    BY <1>4, <1>5, <1>6

\* However requests interleave, an item is never reserved twice at once.
THEOREM OneOpenReservationHolds == Spec => []OneOpenReservation
  <1>1. Init => OneOpenReservation
    BY DEF Init, UnusedReservation, OneOpenReservation, OpenReservations, IsOpen
  <1> QED
    BY <1>1, OneOpenReservationNext, TypeCorrect, PTL DEF Spec

\* However requests interleave, of the rows of an item at most one of each kind
\* is open.
THEOREM OneOpenRowHolds == Spec => []OneOpenRow
  <1>1. OneOpenLending /\ OneOpenReservation => OneOpenRow
    BY DEF OneOpenRow
  <1> QED
    BY <1>1, OneOpenLendingHolds, OneOpenReservationHolds, PTL
-----------------------------------------------------------------------------
(***************************************************************************)
(* A reservation is fulfilled only by handing out its item.  The           *)
(* strengthening says what the requests that are about to fulfil something *)
(* know of it: the reservation is used, and it is for their item and       *)
(* worker.  Used reservations and lendings keep item and worker, so the    *)
(* knowledge cannot go stale.                                              *)
(***************************************************************************)
HandedOut(i, w) == \E l \in Lendings : /\ lendings[l].state # "unused"
                                       /\ lendings[l].item = i
                                       /\ lendings[l].worker = w

FulfilInv ==
  /\ FulfilledMeansHandedOut
  /\ \A v \in Reservations : reservations[v].fulfilled => reservations[v].used
  /\ \A r \in Requests : \A v \in requests[r].resvs :
       /\ reservations[v].used
       /\ At(r, "lend.commit") => reservations[v].item = requests[r].item
       /\ At(r, "lend.commit") \/ At(r, "pickup") =>
            reservations[v].worker = requests[r].worker

\* A reservation that a step fulfils is for an item that the step hands out.
LEMMA FulfilStep ==
  ASSUME TypeOK, FulfilInv, [Next]_vars, NEW v \in Reservations,
         reservations'[v].fulfilled, ~reservations[v].fulfilled
  PROVE  /\ reservations[v].used
         /\ HandedOut(reservations[v].item, reservations[v].worker)'
  <1> DEFINE Goal == /\ reservations[v].used
                     /\ HandedOut(reservations[v].item, reservations[v].worker)'
  <1>1. ASSUME NEW r \in Requests, NEW l \in Lendings, LendCommit(r, l)
        PROVE  Goal
    <2>1. v \in requests[r].resvs
      BY <1>1 DEF LendCommit
    <2>2. /\ lendings'[l].state = "open"
          /\ lendings'[l].item = requests[r].item
          /\ lendings'[l].worker = requests[r].worker
      BY <1>1 DEF LendCommit, TypeOK
    <2>3. reservations'[v] = [reservations[v] EXCEPT !.fulfilled = TRUE]
      BY <1>1, <2>1 DEF LendCommit
    <2>4. /\ reservations[v].used
          /\ reservations[v].item = requests[r].item
          /\ reservations[v].worker = requests[r].worker
      BY <1>1, <2>1 DEF LendCommit, FulfilInv
    <2>5. reservations[v] \in Reservation
      BY DEF TypeOK
    <2>6. /\ reservations'[v].item = requests[r].item
          /\ reservations'[v].worker = requests[r].worker
      BY <2>3, <2>4, <2>5 DEF Reservation
    <2> QED
      BY <2>2, <2>4, <2>6 DEF HandedOut
  <1>2. ASSUME NEW r \in Requests, NEW rowFor \in [requests[r].resvs -> Lendings],
               PickupCommit(r, rowFor)
        PROVE  Goal
    <2> DEFINE q == requests[r]
    <2>1. v \in q.resvs
      BY <1>2 DEF PickupCommit
    <2>2. \A u \in q.resvs : rowFor[u] = rowFor[v] => u = v
      BY <1>2, <2>1 DEF PickupCommit
    <2>3. rowFor[v] \in Lendings
      BY <2>1
    <2>4. lendings'[rowFor[v]] =
            [state |-> "open", item |-> reservations[v].item, worker |-> q.worker,
             dept |-> reservations[v].dept]
      <3>1. v = CHOOSE u \in q.resvs : rowFor[u] = rowFor[v]
        BY <2>1, <2>2
      <3> QED
        BY <1>2, <2>1, <2>3, <3>1 DEF PickupCommit
    <2>5. reservations'[v] = [reservations[v] EXCEPT !.fulfilled = TRUE]
      BY <1>2, <2>1 DEF PickupCommit
    <2>6. reservations[v].used /\ reservations[v].worker = q.worker
      BY <1>2, <2>1 DEF PickupCommit, FulfilInv
    <2>7. reservations[v] \in Reservation
      BY DEF TypeOK
    <2>8. /\ reservations'[v].item = reservations[v].item
          /\ reservations'[v].worker = q.worker
      BY <2>5, <2>6, <2>7 DEF Reservation
    <2>9. /\ lendings'[rowFor[v]].state = "open"
          /\ lendings'[rowFor[v]].item = reservations'[v].item
          /\ lendings'[rowFor[v]].worker = reservations'[v].worker
      BY <2>4, <2>8
    <2> QED
      BY <2>3, <2>6, <2>9 DEF HandedOut
  <1>3. ASSUME NEW r \in Requests, CancelCommit(r)
        PROVE  FALSE
    <2>1. reservations[v] \in Reservation
      BY DEF TypeOK
    <2> QED
      BY <1>3, <2>1 DEF CancelCommit, Reservation
  <1>4. ASSUME NEW r \in Requests, NEW u \in Reservations, ReserveCommit(r, u)
        PROVE  FALSE
    BY <1>4 DEF ReserveCommit, TypeOK
  <1>5. ASSUME NEW r \in Requests, Handle(r) PROVE Goal
    <2> HIDE DEF Goal
    <2> QED
      BY <1>1, <1>2, <1>3, <1>4, <1>5
         DEF Handle, Abort, Load, LendCheck, ReturnFind, ReturnCommit, ReserveCheck,
             CancelLoad, PickupRemoveLoad, PickupLoad,
             EditCheck, EditCommit, DeleteCommit, Keep, tables
  <1> QED
    BY <1>5 DEF Next, CreateItem, ToggleWorker, DeleteWorker, vars

\* A reservation that is used keeps its item and its worker.
LEMMA UsedStays ==
  ASSUME TypeOK, [Next]_vars, NEW v \in Reservations, reservations[v].used
  PROVE  /\ reservations'[v].used
         /\ reservations'[v].item = reservations[v].item
         /\ reservations'[v].worker = reservations[v].worker
  <1>1. reservations[v] \in Reservation
    BY DEF TypeOK
  <1>2. \/ reservations'[v] = reservations[v]
        \/ reservations'[v] = [reservations[v] EXCEPT !.fulfilled = TRUE]
        \/ reservations'[v] = [reservations[v] EXCEPT !.cancelled = TRUE]
    BY ReservationStep
  <1> QED
    BY <1>1, <1>2 DEF Reservation

Knows(q) == \A v \in q.resvs :
  /\ reservations[v].used
  /\ q.pc = "lend.commit" => reservations[v].item = q.item
  /\ q.pc \in {"lend.commit", "pickup"} => reservations[v].worker = q.worker

\* What a request learns about the reservations it loads is true of them, and
\* a step that stores no new request record leaves it with less to know.
LEMMA KnowsStep ==
  ASSUME TypeOK, FulfilInv, [Next]_vars, NEW r \in Requests
  PROVE  requests'[r] = requests[r] \/ requests'[r].resvs = {}
           \/ (reservations' = reservations /\ Knows(requests'[r]))
  <1> DEFINE Goal == requests'[r] = requests[r] \/ requests'[r].resvs = {}
                        \/ (reservations' = reservations /\ Knows(requests'[r]))
  <1>1. ASSUME NEW s \in Requests, Finish(s) PROVE Goal
    BY <1>1 DEF Finish, Idle, TypeOK
  <1>2. ASSUME NEW s \in Requests, NEW q \in Request, Keep(s, q), Knows(q) \/ q.resvs = {}
        PROVE  Goal
    BY <1>2 DEF Keep, tables, TypeOK
  <1>3. ASSUME NEW s \in Requests, NEW op \in ItemOps, NEW i \in Items, Load(s, op, i)
        PROVE  Goal
    BY <1>3 DEF Load, Keep, tables, Idle, TypeOK
  <1>4. ASSUME NEW s \in Requests, NEW w \in Workers, LendCheck(s, w)
        PROVE  Goal
    <2> DEFINE q == requests[s]
               n == [q EXCEPT !.pc = "lend.commit", !.worker = w,
                              !.resvs = OpenReservations(q.item)]
    <2>1. q \in Request
      BY DEF TypeOK
    <2>2. /\ n \in Request
          /\ n.item = q.item
          /\ n.worker = w
          /\ n.resvs = OpenReservations(q.item)
      BY <2>1 DEF Request, PC, OpenReservations
    <2>3. Knows(n)
      BY <1>4, <2>2 DEF LendCheck, Knows, OpenReservations, IsOpen
    <2> QED
      BY <1>2, <1>4, <2>2, <2>3 DEF LendCheck
  <1>5. ASSUME NEW s \in Requests, NEW v \in Reservations, CancelLoad(s, v)
        PROVE  Goal
    <2> DEFINE n == [Idle EXCEPT !.pc = "cancel", !.resvs = {v}]
    <2>1. n \in Request /\ n.pc = "cancel" /\ n.resvs = {v}
      BY IdleOK DEF Request, PC, Idle
    <2>2. Knows(n)
      BY <1>5, <2>1 DEF CancelLoad, Knows, IsOpen
    <2> QED
      BY <1>2, <1>5, <2>1, <2>2 DEF CancelLoad
  <1>6. ASSUME NEW s \in Requests, NEW w \in Workers,
               NEW checked \in SUBSET Reservations, PickupLoad(s, w, checked)
        PROVE  Goal
    <2> DEFINE take == {v \in checked \cap ReservationsOf(w) :
                          /\ reservations[v].item # None
                          /\ items[reservations[v].item].status = "verfuegbar"}
               n == [Idle EXCEPT !.pc = "pickup", !.worker = w, !.resvs = take]
    <2>1. n \in Request /\ n.pc = "pickup" /\ n.worker = w /\ n.resvs = take
      BY IdleOK DEF Request, PC, Idle
    <2>2. Knows(n)
      BY <2>1 DEF Knows, ReservationsOf, IsOpen
    <2> QED
      BY <1>2, <1>6, <2>1, <2>2 DEF PickupLoad
  <1>7. ASSUME NEW s \in Requests, NEW n,
               requests' = [requests EXCEPT ![s] = n], UNCHANGED reservations,
               n.resvs = requests[s].resvs, n.pc \notin {"lend.commit", "pickup"}
        PROVE  Goal
    <2>1. \A v \in requests[s].resvs : reservations[v].used
      BY DEF FulfilInv
    <2> QED
      BY <1>7, <2>1 DEF Knows, TypeOK
  <1>8. ASSUME NEW s \in Requests,
               \/ \E l \in Lendings : ReturnFind(s, l)
               \/ \E w \in Workers : ReserveCheck(s, w)
               \/ \E st \in Status, d \in Departments : EditCheck(s, st, d)
        PROVE  Goal
    <2>1. requests[s] \in Request
      BY DEF TypeOK
    <2>2. ASSUME NEW l \in Lendings, ReturnFind(s, l) PROVE Goal
      BY <1>7, <2>1, <2>2 DEF ReturnFind, Keep, tables, Request
    <2>3. ASSUME NEW w \in Workers, ReserveCheck(s, w) PROVE Goal
      BY <1>7, <2>1, <2>3 DEF ReserveCheck, Keep, tables, Request
    <2>4. ASSUME NEW st \in Status, NEW d \in Departments, EditCheck(s, st, d)
          PROVE  Goal
      BY <1>7, <2>1, <2>4 DEF EditCheck, Keep, tables, Request
    <2> QED
      BY <1>8, <2>2, <2>3, <2>4
  <1>9. ASSUME NEW s \in Requests, Handle(s) PROVE Goal
    <2> HIDE DEF Goal
    <2> QED
      BY <1>1, <1>3, <1>4, <1>5, <1>6, <1>8, <1>9
         DEF Handle, Abort, LendCommit, ReturnCommit, ReserveCommit,
             PickupRemoveLoad, CancelCommit, PickupCommit, EditCommit, DeleteCommit
  <1> QED
    BY <1>9 DEF Next, CreateItem, ToggleWorker, DeleteWorker, vars

\* Every step preserves the strengthened invariant.
LEMMA FulfilNext == TypeOK /\ FulfilInv /\ [Next]_vars => FulfilInv'
  <1> SUFFICES ASSUME TypeOK, FulfilInv, [Next]_vars PROVE FulfilInv'
    OBVIOUS
  <1>1. ASSUME NEW v \in Reservations, reservations'[v].fulfilled
        PROVE  /\ HandedOut(reservations[v].item, reservations[v].worker)'
               /\ reservations'[v].used
    <2>1. CASE reservations[v].fulfilled
      <3>1. reservations[v].used
        BY <2>1 DEF FulfilInv
      <3>2. HandedOut(reservations[v].item, reservations[v].worker)
        BY <2>1 DEF FulfilInv, FulfilledMeansHandedOut, HandedOut
      <3>3. PICK l \in Lendings : /\ lendings[l].state # "unused"
                                  /\ lendings[l].item = reservations[v].item
                                  /\ lendings[l].worker = reservations[v].worker
        BY <3>2 DEF HandedOut
      <3>4. lendings[l] \in Lending
        BY DEF TypeOK
      <3>5. \/ lendings'[l] = lendings[l]
            \/ lendings'[l] = [lendings[l] EXCEPT !.state = "returned"]
        BY <3>3, LendingStep
      <3> QED
        BY <3>1, <3>3, <3>4, <3>5, UsedStays DEF HandedOut, Lending
    <2>2. CASE ~reservations[v].fulfilled
      BY <1>1, <2>2, FulfilStep, UsedStays
    <2> QED
      BY <2>1, <2>2
  <1>2. ASSUME NEW r \in Requests PROVE Knows(requests[r])'
    <2>1. Knows(requests[r]) /\ requests[r].resvs \subseteq Reservations
      BY DEF FulfilInv, Knows, At, TypeOK, Request
    <2>2. CASE requests'[r] = requests[r]
      BY <2>1, <2>2, UsedStays DEF Knows
    <2>3. CASE requests'[r].resvs = {}
      BY <2>3 DEF Knows
    <2>4. CASE reservations' = reservations /\ Knows(requests'[r])
      BY <2>4 DEF Knows
    <2> QED
      BY <2>2, <2>3, <2>4, KnowsStep
  <1> QED
    BY <1>1, <1>2 DEF FulfilInv, FulfilledMeansHandedOut, HandedOut, Knows, At

LEMMA FulfilInvariant == Spec => []FulfilInv
  <1>1. Init => FulfilInv
    BY DEF Init, UnusedReservation, Idle, FulfilInv, FulfilledMeansHandedOut
  <1> QED
    BY <1>1, FulfilNext, TypeCorrect, PTL DEF Spec

\* No reservation ever counts as fulfilled unless its item was handed to its
\* worker, whatever overlaps, collides or rolls back.
THEOREM FulfilledMeansHandedOutHolds == Spec => []FulfilledMeansHandedOut
  <1>1. FulfilInv => FulfilledMeansHandedOut
    BY DEF FulfilInv
  <1> QED
    BY <1>1, FulfilInvariant, PTL
-----------------------------------------------------------------------------
(***************************************************************************)
(* The desk implements ItemLedger.  Where the open lendings of an item are *)
(* unique, Holder is the worker of any of them, so a step is followed on   *)
(* the rows it writes: opening rows is HandOut of their items, closing a   *)
(* row is TakeBack of its item, and everything else stutters.              *)
(***************************************************************************)

\* The holder of an item is the worker of its open lending.
LEMMA HolderIs ==
  ASSUME OneOpenLending, NEW i \in Items, NEW l \in OpenLendings(i)
  PROVE  Holder(i) = lendings[l].worker
  BY DEF OneOpenLending, Holder

\* An item whose open lendings a step leaves alone keeps its holder.
LEMMA HolderStays ==
  ASSUME OneOpenLending, OneOpenLending', NEW i \in Items,
         \A l \in Lendings : lendings'[l] # lendings[l] =>
           l \notin OpenLendings(i) /\ l \notin OpenLendings(i)'
  PROVE  Holder(i)' = Holder(i)
  <1>1. CASE OpenLendings(i) = {}
    BY <1>1 DEF OpenLendings, Holder
  <1>2. CASE OpenLendings(i) # {}
    <2>1. PICK l \in OpenLendings(i) : TRUE
      BY <1>2
    <2>2. l \in OpenLendings(i)' /\ lendings'[l] = lendings[l]
      BY <2>1 DEF OpenLendings
    <2> QED
      BY <2>1, <2>2, HolderIs DEF OneOpenLending, Holder
  <1> QED
    BY <1>1, <1>2

\* A lending hands out its item.
LEMMA LendHandsOut ==
  ASSUME TypeOK, OneOpenLending, OneOpenLending',
         NEW r \in Requests, NEW k \in Lendings, LendCommit(r, k)
  PROVE  /\ requests[r].item \in Items
         /\ requests[r].worker \in Workers
         /\ Ledger!HandOut(requests[r].worker, {requests[r].item})
<1> DEFINE w == requests[r].worker
<1>0. PICK j \in Items : j = requests[r].item
  BY DEF LendCommit, At, TypeOK, KnowsItsRows
<1>1. w \in Workers /\ OpenLendings(j) = {}
  BY <1>0 DEF LendCommit, AdmitsLending, At, TypeOK, KnowsItsRows
<1>2. /\ lendings'[k].state = "open"
      /\ lendings'[k].item = j
      /\ lendings'[k].worker = w
      /\ lendings[k].state = "unused"
      /\ \A l \in Lendings \ {k} : lendings'[l] = lendings[l]
  BY <1>0 DEF LendCommit, TypeOK
<1>3. Holder(j) = None
  BY <1>1 DEF Holder
<1>4. Holder(j)' = w
  <2>1. k \in OpenLendings(j)'
    BY <1>2 DEF OpenLendings
  <2> QED
    BY <1>2, <2>1 DEF Holder, OneOpenLending
<1>5. ASSUME NEW i \in Items \ {j}
      PROVE  Holder(i)' = Holder(i)
  <2>1. k \notin OpenLendings(i) /\ k \notin OpenLendings(i)'
    BY <1>2 DEF OpenLendings
  <2> QED
    BY <1>2, <2>1, HolderStays DEF Holder, OpenLendings, OneOpenLending
<1>6. Ledger!HandOut(w, {j})
  BY <1>1, <1>3, <1>4, <1>5 DEF Ledger!HandOut, holderMap
<1> QED
  BY <1>0, <1>1, <1>6

\* A return takes back the item whose lending it closes.
LEMMA ReturnTakesBack ==
  ASSUME TypeOK, OneOpenLending, OneOpenLending', NEW r \in Requests, ReturnCommit(r)
  PROVE  \E S \in SUBSET Items : Ledger!TakeBack(S)
<1> DEFINE k == requests[r].lending
           S == {i \in Items : k \in OpenLendings(i)}
<1>1. k \in Lendings
  BY DEF ReturnCommit, At, TypeOK, KnowsItsRows
<1>2. /\ lendings'[k].state = "returned"
      /\ \A l \in Lendings \ {k} : lendings'[l] = lendings[l]
  BY <1>1 DEF ReturnCommit, TypeOK
<1>3. ASSUME NEW i \in S
      PROVE  Holder(i)' = None
  <2>1. OpenLendings(i)' = {}
    BY <1>2 DEF OpenLendings, OneOpenLending
  <2> QED
    BY <2>1 DEF Holder
<1>4. ASSUME NEW i \in Items \ S
      PROVE  Holder(i)' = Holder(i)
  <2>1. k \notin OpenLendings(i) /\ k \notin OpenLendings(i)'
    BY <1>1, <1>2 DEF OpenLendings
  <2> QED
    BY <1>2, <2>1, HolderStays DEF Holder, OpenLendings, OneOpenLending
<1>5. Ledger!TakeBack(S)
  BY <1>3, <1>4 DEF Ledger!TakeBack, holderMap
<1> QED
  BY <1>5

\* A pickup hands out the items of its reservations.
PickedUp(r) == {i \in Items : \E v \in requests[r].resvs : reservations[v].item = i}

LEMMA PickupHandsOut ==
  ASSUME TypeOK, OneOpenLending, OneOpenLending', NEW r \in Requests,
         NEW rowFor \in [requests[r].resvs -> Lendings], PickupCommit(r, rowFor)
  PROVE  requests[r].worker \in Workers /\ Ledger!HandOut(requests[r].worker, PickedUp(r))
<1> DEFINE q == requests[r]
           S == PickedUp(r)
<1>1. q.worker \in Workers /\ q.resvs \subseteq Reservations
  BY DEF PickupCommit, At, TypeOK, KnowsItsRows, Request
<1>0. S \subseteq Items
  BY DEF PickedUp
<1>2. \A i \in S : OpenLendings(i) = {}
  BY DEF PickedUp, PickupCommit, AdmitsLending
<1>3. ASSUME NEW v \in q.resvs
      PROVE  /\ rowFor[v] \in Lendings
             /\ lendings[rowFor[v]].state = "unused"
             /\ lendings'[rowFor[v]].state = "open"
             /\ lendings'[rowFor[v]].item = reservations[v].item
             /\ lendings'[rowFor[v]].worker = q.worker
  <2>1. v = CHOOSE u \in q.resvs : rowFor[u] = rowFor[v]
    BY DEF PickupCommit
  <2>2. lendings'[rowFor[v]] =
          [state |-> "open", item |-> reservations[v].item,
           worker |-> q.worker, dept |-> reservations[v].dept]
    BY <2>1 DEF PickupCommit
  <2>3. rowFor[v] \in Lendings /\ lendings[rowFor[v]].state = "unused"
    BY DEF PickupCommit
  <2> QED
    BY <2>2, <2>3
<1>4. \A l \in Lendings : \/ lendings'[l] = lendings[l]
                          \/ \E v \in q.resvs : rowFor[v] = l
  BY DEF PickupCommit
<1>5. ASSUME NEW i \in S
      PROVE  Holder(i) = None /\ Holder(i)' = q.worker
  <2>1. PICK v \in q.resvs : reservations[v].item = i
    BY DEF PickedUp
  <2>2. rowFor[v] \in OpenLendings(i)'
    BY <1>3, <2>1 DEF OpenLendings
  <2>3. Holder(i)' = lendings'[rowFor[v]].worker
    BY <1>0, <2>2 DEF OneOpenLending, Holder
  <2> QED
    BY <1>2, <1>3, <2>3 DEF Holder
<1>6. ASSUME NEW i \in Items \ S
      PROVE  Holder(i)' = Holder(i)
  <2>1. ASSUME NEW l \in Lendings, lendings'[l] # lendings[l]
        PROVE  l \notin OpenLendings(i) /\ l \notin OpenLendings(i)'
    <3>1. PICK v \in q.resvs : rowFor[v] = l
      BY <1>4, <2>1
    <3>2. /\ lendings[l].state = "unused"
          /\ lendings'[l].item = reservations[v].item
      BY <1>3, <3>1
    <3> QED
      BY <3>1, <3>2 DEF PickedUp, OpenLendings
  <2> QED
    BY <2>1, HolderStays DEF Holder, OpenLendings, OneOpenLending
<1>7. Ledger!HandOut(q.worker, S)
  BY <1>0, <1>5, <1>6 DEF Ledger!HandOut, holderMap
<1> QED
  BY <1>1, <1>7

\* Every step of the desk is a step of the ledger or leaves it alone.
LEMMA LedgerNext ==
  TypeOK /\ OneOpenLending /\ [Next]_vars => [Ledger!Next]_holderMap
  <1> SUFFICES ASSUME TypeOK, OneOpenLending, [Next]_vars
               PROVE  [Ledger!Next]_holderMap
    OBVIOUS
  <1>0. OneOpenLending'
    BY OneOpenLendingNext
  <1>1. ASSUME NEW r \in Requests, NEW k \in Lendings, LendCommit(r, k)
        PROVE  Ledger!Next
    BY <1>0, <1>1, LendHandsOut DEF Ledger!Next
  <1>2. ASSUME NEW r \in Requests, ReturnCommit(r)
        PROVE  Ledger!Next
    BY <1>0, <1>2, ReturnTakesBack DEF Ledger!Next
  <1>3. ASSUME NEW r \in Requests, NEW rowFor \in [requests[r].resvs -> Lendings],
               PickupCommit(r, rowFor)
        PROVE  Ledger!Next
    <2>1. PickedUp(r) \in SUBSET Items
      BY DEF PickedUp
    <2> QED
      BY <1>0, <1>3, <2>1, PickupHandsOut DEF Ledger!Next
  <1>4. ASSUME UNCHANGED lendings
        PROVE  UNCHANGED holderMap
    BY <1>4 DEF holderMap, Holder, OpenLendings
  <1>5. ASSUME NEW r \in Requests, Handle(r)
        PROVE  Ledger!Next \/ UNCHANGED lendings
    BY <1>1, <1>2, <1>3, <1>5
       DEF Handle, Abort, Load, LendCheck, ReturnFind, ReserveCheck, ReserveCommit,
           CancelLoad, PickupRemoveLoad, CancelCommit, PickupLoad,
           EditCheck, EditCommit, DeleteCommit, Keep, tables
  <1> QED
    BY <1>4, <1>5 DEF Next, CreateItem, ToggleWorker, DeleteWorker, vars

\* However requests interleave, the desk keeps the promise of ItemLedger: an
\* item changes hands only by coming back first.
THEOREM Refinement == Spec => ImplementsItemLedger
  <1>1. Init => Ledger!Init
    BY DEF Init, Ledger!Init, holderMap, Holder, OpenLendings, UnusedLending
  <1> QED
    BY <1>1, LedgerNext, TypeCorrect, OneOpenLendingHolds, PTL
       DEF Spec, ImplementsItemLedger, Ledger!Spec
-----------------------------------------------------------------------------
(***************************************************************************)
(* The desk while requests do not overlap.  What the only request in       *)
(* flight has read is then still true, whichever of its steps it is at.    *)
(***************************************************************************)
\* What is out says so.
LentShows ==
  \A i \in Items : OpenLendings(i) # {} => RowExists(i) /\ items[i].status = "ausgeliehen"

\* What the request q that is alone in flight knows.
Alone(q) ==
  /\ q.pc \notin {"idle", "cancel", "pickup"} =>
       /\ RowExists(q.item)
       /\ items[q.item].status = q.status
       /\ items[q.item].dept = q.dept
  /\ q.pc \in {"lend", "lend.commit", "reserve", "reserve.commit"} =>
       q.status = "verfuegbar"
  /\ q.pc = "lend.commit" => q.resvs = OpenReservations(q.item)
  /\ q.pc = "return.commit" => q.lending \in OpenLendings(q.item)
  /\ q.pc = "edit.commit" /\ q.toStatus # "ausgeliehen" => OpenLendings(q.item) = {}
  /\ q.pc = "edit.commit" /\ q.toDept # q.dept =>
       OpenLendings(q.item) = {} /\ OpenReservations(q.item) = {}
  /\ q.pc = "cancel" => \E v \in Reservations : q.resvs = {v} /\ IsOpen(v)
  /\ q.pc = "pickup" => \A v \in q.resvs : IsOpen(v)

Serial ==
  ~overlapped => /\ ~Overlap
                 /\ LentShows
                 /\ \A r \in Requests : Alone(requests[r])

\* A request that starts or reads on may store what is true now.
LEMMA KeepAlone ==
  ASSUME TypeOK, LentShows, NEW r \in Requests, NEW q, Keep(r, q), Alone(q)
  PROVE  LentShows' /\ Alone(requests[r])'
<1>1. requests'[r] = q
  BY DEF Keep, TypeOK
<1>2. UNCHANGED <<items, lendings, reservations>>
  BY DEF Keep, tables
<1> QED
  BY <1>1, <1>2
     DEF LentShows, Alone, RowExists, OpenLendings, OpenReservations, IsOpen

\* A request that has finished knows nothing.
LEMMA FinishAlone ==
  ASSUME TypeOK, NEW r \in Requests, Finish(r)
  PROVE  Alone(requests[r])'
<1>1. requests'[r] = Idle
  BY DEF Finish, TypeOK
<1> QED
  BY <1>1 DEF Alone, Idle

\* Its first step, and the next one of those that look something up first.
LEMMA ReadsAlone ==
  ASSUME TypeOK, LentShows, NEW r \in Requests, Alone(requests[r]),
         \/ \E op \in ItemOps, i \in Items : Load(r, op, i)
         \/ \E w \in Workers : LendCheck(r, w)
         \/ \E l \in Lendings : ReturnFind(r, l)
         \/ \E w \in Workers : ReserveCheck(r, w)
         \/ \E v \in Reservations : CancelLoad(r, v)
         \/ \E w \in Workers, checked \in SUBSET Reservations : PickupLoad(r, w, checked)
         \/ \E s \in Status, d \in Departments : EditCheck(r, s, d)
  PROVE  LentShows' /\ Alone(requests[r])'
<1> DEFINE q == requests[r]
<1>0. q \in Request
  BY DEF TypeOK
<1>1. ASSUME NEW op \in ItemOps, NEW i \in Items, Load(r, op, i)
      PROVE  LentShows' /\ Alone(requests[r])'
  <2> DEFINE n == [Idle EXCEPT !.pc = op, !.item = i, !.status = items[i].status,
                               !.dept = items[i].dept]
  <2>1. n.pc = op /\ n.item = i /\ n.status = items[i].status /\ n.dept = items[i].dept
    BY DEF Idle
  <2>2. RowExists(i) /\ (op \in {"lend", "reserve"} => items[i].status = "verfuegbar")
    BY <1>1 DEF Load, RowExists
  <2> HIDE DEF n
  <2>3. Alone(n)
    BY <2>1, <2>2 DEF Alone, ItemOps
  <2> QED
    BY <1>1, <2>3, KeepAlone DEF Load, n
<1>2. ASSUME NEW w \in Workers, LendCheck(r, w)
      PROVE  LentShows' /\ Alone(requests[r])'
  <2> DEFINE n == [q EXCEPT !.pc = "lend.commit", !.worker = w,
                            !.resvs = OpenReservations(q.item)]
  <2>1. /\ n.pc = "lend.commit" /\ n.item = q.item /\ n.status = q.status /\ n.dept = q.dept
        /\ n.resvs = OpenReservations(q.item)
    BY <1>0 DEF Request
  <2>2. At(r, "lend")
    BY <1>2 DEF LendCheck
  <2> HIDE DEF n
  <2>3. Alone(n)
    BY <2>1, <2>2 DEF Alone, At
  <2> QED
    BY <1>2, <2>3, KeepAlone DEF LendCheck, n
<1>3. ASSUME NEW l \in Lendings, ReturnFind(r, l)
      PROVE  LentShows' /\ Alone(requests[r])'
  <2> DEFINE n == [q EXCEPT !.pc = "return.commit", !.lending = l]
  <2>1. /\ n.pc = "return.commit" /\ n.item = q.item /\ n.status = q.status /\ n.dept = q.dept
        /\ n.lending = l
    BY <1>0 DEF Request
  <2>2. At(r, "return") /\ l \in OpenLendings(q.item)
    BY <1>3 DEF ReturnFind
  <2> HIDE DEF n
  <2>3. Alone(n)
    BY <2>1, <2>2 DEF Alone, At
  <2> QED
    BY <1>3, <2>3, KeepAlone DEF ReturnFind, n
<1>4. ASSUME NEW w \in Workers, ReserveCheck(r, w)
      PROVE  LentShows' /\ Alone(requests[r])'
  <2> DEFINE n == [q EXCEPT !.pc = "reserve.commit", !.worker = w]
  <2>1. n.pc = "reserve.commit" /\ n.item = q.item /\ n.status = q.status /\ n.dept = q.dept
    BY <1>0 DEF Request
  <2>2. At(r, "reserve")
    BY <1>4 DEF ReserveCheck
  <2> HIDE DEF n
  <2>3. Alone(n)
    BY <2>1, <2>2 DEF Alone, At
  <2> QED
    BY <1>4, <2>3, KeepAlone DEF ReserveCheck, n
<1>5. ASSUME NEW v \in Reservations, CancelLoad(r, v)
      PROVE  LentShows' /\ Alone(requests[r])'
  <2> DEFINE n == [Idle EXCEPT !.pc = "cancel", !.resvs = {v}]
  <2>1. n.pc = "cancel" /\ n.resvs = {v}
    BY DEF Idle
  <2>2. IsOpen(v)
    BY <1>5 DEF CancelLoad
  <2> HIDE DEF n
  <2>3. Alone(n)
    BY <2>1, <2>2 DEF Alone
  <2> QED
    BY <1>5, <2>3, KeepAlone DEF CancelLoad, n
<1>6. ASSUME NEW w \in Workers, NEW checked \in SUBSET Reservations,
             PickupLoad(r, w, checked)
      PROVE  LentShows' /\ Alone(requests[r])'
  <2> DEFINE take == {v \in checked \cap ReservationsOf(w) :
                        /\ reservations[v].item # None
                        /\ items[reservations[v].item].status = "verfuegbar"}
             n == [Idle EXCEPT !.pc = "pickup", !.worker = w, !.resvs = take]
  <2>1. n.pc = "pickup" /\ n.resvs = take
    BY DEF Idle
  <2>2. \A v \in take : IsOpen(v)
    BY DEF ReservationsOf
  <2>3. Alone(n)
    <3> HIDE DEF n, take
    <3> QED
      BY <2>1, <2>2 DEF Alone
  <2> QED
    BY <1>6, <2>3, KeepAlone DEF PickupLoad
<1>7. ASSUME NEW s \in Status, NEW d \in Departments, EditCheck(r, s, d)
      PROVE  LentShows' /\ Alone(requests[r])'
  <2> DEFINE n == [q EXCEPT !.pc = "edit.commit", !.toStatus = s, !.toDept = d]
  <2>1. /\ n.pc = "edit.commit" /\ n.item = q.item /\ n.status = q.status /\ n.dept = q.dept
        /\ n.toStatus = s /\ n.toDept = d
    BY <1>0 DEF Request
  <2>2. /\ At(r, "edit")
        /\ s # "ausgeliehen" => OpenLendings(q.item) = {}
        /\ d # q.dept => OpenLendings(q.item) = {} /\ OpenReservations(q.item) = {}
    BY <1>7 DEF EditCheck
  <2> HIDE DEF n
  <2>3. Alone(n)
    BY <2>1, <2>2 DEF Alone, At
  <2> QED
    BY <1>7, <2>3, KeepAlone DEF EditCheck, n
<1> QED
  BY <1>1, <1>2, <1>3, <1>4, <1>5, <1>6, <1>7

\* Its commit: an item that gets an open lending gets the status of one, and
\* nothing else gives an item another status while a lending is open.
LEMMA CommitsAlone ==
  ASSUME TypeOK, OneOpenLending, LentShows, NEW r \in Requests, Alone(requests[r]),
         \/ \E l \in Lendings : LendCommit(r, l)
         \/ ReturnCommit(r)
         \/ \E v \in Reservations : ReserveCommit(r, v)
         \/ CancelCommit(r)
         \/ \E rowFor \in [requests[r].resvs -> Lendings] : PickupCommit(r, rowFor)
         \/ EditCommit(r)
         \/ DeleteCommit(r)
  PROVE  LentShows'
<1> DEFINE q == requests[r]
<1> SUFFICES ASSUME NEW i \in Items, NEW l \in OpenLendings(i)'
             PROVE  RowExists(i)' /\ items'[i].status = "ausgeliehen"
  BY DEF LentShows
<1>0. /\ items[i] \in Item
      /\ l \in Lendings /\ lendings'[l].state = "open" /\ lendings'[l].item = i
  BY DEF TypeOK, OpenLendings
<1>a. OpenLendings(i) # {} => RowExists(i) /\ items[i].status = "ausgeliehen"
  BY DEF LentShows
<1>b. lendings'[l] = lendings[l] => OpenLendings(i) # {}
  BY <1>0 DEF OpenLendings
<1>1. ASSUME NEW k \in Lendings, LendCommit(r, k)
      PROVE  RowExists(i)' /\ items'[i].status = "ausgeliehen"
  <2>1. CASE l = k
    <3>1. i = q.item
      BY <1>0, <1>1, <2>1 DEF LendCommit, TypeOK
    <3>2. RowExists(q.item)
      BY <1>1 DEF LendCommit, AdmitsLending, RowsExist
    <3> QED
      BY <1>0, <1>1, <3>1, <3>2 DEF LendCommit, RowExists, TypeOK, Item
  <2>2. CASE l # k
    <3>1. RowExists(i) /\ items[i].status = "ausgeliehen"
      BY <1>0, <1>1, <1>a, <1>b, <2>2 DEF LendCommit, TypeOK
    <3> QED
      BY <1>0, <1>1, <3>1 DEF LendCommit, RowExists, TypeOK, Item
  <2> QED
    BY <2>1, <2>2
<1>2. ASSUME ReturnCommit(r)
      PROVE  RowExists(i)' /\ items'[i].status = "ausgeliehen"
  <2>1. PICK j \in Items : j = q.item
    BY <1>2 DEF ReturnCommit, At, TypeOK, KnowsItsRows
  <2>2. PICK k \in Lendings : k = q.lending
    BY <1>2 DEF ReturnCommit, At, TypeOK, KnowsItsRows
  <2>3. k \in OpenLendings(j)
    BY <1>2, <2>1, <2>2 DEF ReturnCommit, At, Alone
  <2>4. l # k /\ lendings'[l] = lendings[l]
    BY <1>0, <1>2, <2>2 DEF ReturnCommit, TypeOK
  <2>5. i # j
    BY <1>0, <2>3, <2>4 DEF OpenLendings, OneOpenLending
  <2>6. items'[i] = items[i]
    BY <1>2, <2>1, <2>5 DEF ReturnCommit, TypeOK
  <2> QED
    BY <1>a, <1>b, <2>4, <2>6 DEF RowExists
<1>3. ASSUME NEW rowFor \in [requests[r].resvs -> Lendings], PickupCommit(r, rowFor)
      PROVE  RowExists(i)' /\ items'[i].status = "ausgeliehen"
  <2>1. CASE \E v \in q.resvs : rowFor[v] = l
    <3> DEFINE v == CHOOSE v \in q.resvs : rowFor[v] = l
    <3>1. v \in q.resvs
      BY <2>1
    <3>2. lendings'[l].item = reservations[v].item
      BY <1>0, <1>3, <2>1 DEF PickupCommit
    <3> HIDE DEF v
    <3>3. reservations[v].item = i
      BY <1>0, <3>2
    <3>4. RowExists(i)
      BY <1>3, <3>1, <3>3 DEF PickupCommit, AdmitsLending, RowsExist
    <3>5. items'[i] = [items[i] EXCEPT !.status = "ausgeliehen"]
      BY <1>3, <3>1, <3>3 DEF PickupCommit
    <3> QED
      BY <1>0, <3>4, <3>5 DEF RowExists, Item
  <2>2. CASE ~\E v \in q.resvs : rowFor[v] = l
    <3>1. RowExists(i) /\ items[i].status = "ausgeliehen"
      BY <1>0, <1>3, <1>a, <1>b, <2>2 DEF PickupCommit
    <3>2. \/ items'[i] = items[i]
          \/ items'[i] = [items[i] EXCEPT !.status = "ausgeliehen"]
      BY <1>3 DEF PickupCommit
    <3> QED
      BY <1>0, <3>1, <3>2 DEF RowExists, Item
  <2> QED
    BY <2>1, <2>2
<1>4. ASSUME EditCommit(r)
      PROVE  RowExists(i)' /\ items'[i].status = "ausgeliehen"
  <2>1. PICK j \in Items : j = q.item
    BY <1>4 DEF EditCommit, At, TypeOK, KnowsItsRows
  <2>2. RowExists(i) /\ items[i].status = "ausgeliehen" /\ OpenLendings(i) # {}
    BY <1>4, <1>a, <1>b DEF EditCommit
  <2>3. CASE i = j
    <3>1. q.toStatus = "ausgeliehen"
      BY <1>4, <2>1, <2>2, <2>3 DEF EditCommit, At, Alone
    <3>2. items'[i].life = items[i].life /\ items'[i].status = "ausgeliehen"
      BY <1>0, <1>4, <2>1, <2>2, <2>3, <3>1 DEF EditCommit, TypeOK, Item
    <3> QED
      BY <2>2, <3>2 DEF RowExists
  <2>4. CASE i # j
    <3>1. items'[i] = items[i]
      BY <1>4, <2>1, <2>4 DEF EditCommit, TypeOK
    <3> QED
      BY <2>2, <3>1 DEF RowExists
  <2> QED
    BY <2>3, <2>4
<1>5. ASSUME DeleteCommit(r)
      PROVE  RowExists(i)' /\ items'[i].status = "ausgeliehen"
  <2>1. RowExists(i) /\ items[i].status = "ausgeliehen"
    BY <1>5, <1>a, <1>b DEF DeleteCommit
  <2> QED
    BY <1>0, <1>5, <2>1 DEF DeleteCommit, RowExists, TypeOK, Item
<1>6. ASSUME UNCHANGED <<items, lendings>>
      PROVE  RowExists(i)' /\ items'[i].status = "ausgeliehen"
  BY <1>6, <1>a, <1>b DEF RowExists
<1> QED
  BY <1>1, <1>2, <1>3, <1>4, <1>5, <1>6 DEF ReserveCommit, CancelCommit

\* Whoever makes a step is busy before it or after it.
LEMMA HandleBusy ==
  ASSUME TypeOK, NEW r \in Requests, Handle(r)
  PROVE  ~At(r, "idle") \/ ~At(r, "idle")'
<1> SUFFICES ASSUME At(r, "idle"), requests'[r].pc = "idle" PROVE FALSE
  BY DEF At
<1>1. ASSUME NEW n, Keep(r, n), n.pc # "idle" PROVE FALSE
  BY <1>1 DEF Keep, TypeOK
<1>2. ASSUME NEW op \in ItemOps, NEW i \in Items, Load(r, op, i) PROVE FALSE
  BY <1>1, <1>2 DEF Load, Idle, ItemOps
<1>3. ASSUME NEW v \in Reservations, CancelLoad(r, v) PROVE FALSE
  BY <1>1, <1>3 DEF CancelLoad, Idle
<1>4. ASSUME NEW w \in Workers, NEW checked \in SUBSET Reservations,
             PickupLoad(r, w, checked)
      PROVE  FALSE
  BY <1>1, <1>4 DEF PickupLoad, Idle
<1> QED
  BY <1>2, <1>3, <1>4
     DEF Handle, Abort, LendCheck, LendCommit, ReturnFind, ReturnCommit,
         ReserveCheck, ReserveCommit, PickupRemoveLoad, CancelCommit,
         PickupCommit, EditCheck, EditCommit, DeleteCommit, At

\* Requests that do not overlap: one makes the step, the others are idle.
LEMMA OthersIdle ==
  ASSUME TypeOK, ~Overlap, ~Overlap', NEW r \in Requests, Handle(r),
         NEW s \in Requests \ {r}
  PROVE  requests'[s] = requests[s] /\ At(s, "idle")
<1>1. requests'[s] = requests[s]
  BY DEF Handle, Abort, Load, LendCheck, LendCommit, ReturnFind, ReturnCommit,
         ReserveCheck, ReserveCommit, CancelLoad, PickupRemoveLoad, CancelCommit,
         PickupLoad, PickupCommit, EditCheck, EditCommit, DeleteCommit, Keep,
         Finish, TypeOK
<1> QED
  BY <1>1, HandleBusy DEF Overlap, At

\* A step of the desk keeps all this while at most one request is in flight.
LEMMA DeskAlone ==
  ASSUME TypeOK, OneOpenLending, Next, ~Overlap, ~Overlap',
         LentShows, \A r \in Requests : Alone(requests[r])
  PROVE  LentShows' /\ \A r \in Requests : Alone(requests[r])'
<1>1. ASSUME NEW r \in Requests, Handle(r)
      PROVE  LentShows' /\ \A s \in Requests : Alone(requests[s])'
  <2>1. LentShows' /\ Alone(requests[r])'
    <3>1. ASSUME Finish(r), UNCHANGED tables
          PROVE  LentShows'
      BY <3>1 DEF LentShows, RowExists, OpenLendings, tables
    <3> QED
      BY <1>1, <3>1, ReadsAlone, CommitsAlone, FinishAlone
         DEF Handle, Abort, LendCommit, ReturnCommit, ReserveCommit,
             PickupRemoveLoad, CancelCommit, PickupCommit, EditCommit, DeleteCommit
  <2>2. ASSUME NEW s \in Requests \ {r}
        PROVE  Alone(requests[s])'
    <3>1. requests'[s].pc = "idle"
      BY <1>1, OthersIdle DEF At
    <3> QED
      BY <3>1 DEF Alone
  <2> QED
    BY <2>1, <2>2
<1>2. ASSUME NEW i \in Items, NEW d \in Departments, CreateItem(i, d)
      PROVE  LentShows' /\ \A s \in Requests : Alone(requests[s])'
  <2>1. ~RowExists(i)
    BY <1>2 DEF CreateItem, RowExists
  <2>2. \A j \in Items \ {i} : items'[j] = items[j]
    BY <1>2 DEF CreateItem, TypeOK
  <2>3. LentShows'
    BY <1>2, <2>1, <2>2 DEF CreateItem, LentShows, RowExists, OpenLendings
  <2>4. ASSUME NEW s \in Requests
        PROVE  Alone(requests[s])'
    <3>1. CASE requests[s].pc \in {"idle", "cancel", "pickup"}
      BY <1>2, <3>1 DEF CreateItem, Alone, IsOpen
    <3>2. CASE requests[s].pc \notin {"idle", "cancel", "pickup"}
      <4>1. requests[s].item \in Items \ {i}
        BY <2>1, <3>2 DEF Alone, TypeOK, KnowsItsRows
      <4>2. items'[requests[s].item] = items[requests[s].item]
        BY <2>2, <4>1
      <4> QED
        BY <1>2, <3>2, <4>2
           DEF CreateItem, Alone, RowExists, OpenLendings, OpenReservations, IsOpen
    <3> QED
      BY <3>1, <3>2
  <2> QED
    BY <2>3, <2>4
<1>3. ASSUME NEW w \in Workers, ToggleWorker(w) \/ DeleteWorker(w)
      PROVE  LentShows' /\ \A s \in Requests : Alone(requests[s])'
  BY <1>3 DEF ToggleWorker, DeleteWorker, LentShows, Alone, RowExists,
                  OpenLendings, OpenReservations, IsOpen
<1> QED
  BY <1>1, <1>2, <1>3 DEF Next

\* What a step that changes nothing of the desk leaves true.
LEMMA UnchangedAlone ==
  ASSUME UNCHANGED vars, ~Overlap, LentShows, \A r \in Requests : Alone(requests[r])
  PROVE  ~Overlap' /\ LentShows' /\ \A r \in Requests : Alone(requests[r])'
BY DEF Overlap, LentShows, Alone, RowExists, OpenLendings, OpenReservations, IsOpen,
       At, vars

LEMMA SerialNext ==
  ASSUME TypeOK, OneOpenLending, Serial, [HNext]_<<vars, overlapped>>
  PROVE  Serial'
<1> SUFFICES ASSUME ~overlapped'
             PROVE  ~Overlap' /\ LentShows' /\ \A r \in Requests : Alone(requests[r])'
  BY DEF Serial
<1>0. HNext \/ UNCHANGED <<vars, overlapped>>
  OBVIOUS
<1>1. ~overlapped /\ (HNext => ~Overlap')
  <2>1. CASE HNext
    BY <2>1 DEF HNext
  <2>2. CASE UNCHANGED <<vars, overlapped>>
    <3>1. ~overlapped
      BY <2>2
    <3>2. Overlap' => Overlap
      BY <2>2 DEF Overlap, At, vars
    <3> QED
      BY <3>1, <3>2 DEF Serial
  <2> QED
    BY <1>0, <2>1, <2>2
<1>2. ~Overlap /\ LentShows /\ \A r \in Requests : Alone(requests[r])
  BY <1>1 DEF Serial
<1>3. CASE HNext
  BY <1>1, <1>2, <1>3, DeskAlone DEF HNext
<1>4. CASE UNCHANGED <<vars, overlapped>>
  BY <1>2, <1>4, UnchangedAlone
<1> QED
  BY <1>0, <1>3, <1>4

\* The history variable changes nothing: what holds of the desk holds here.
LEMMA HistoryOnly == HSpec => Spec
<1>1. HInit => Init
  BY DEF HInit
<1>2. [HNext]_<<vars, overlapped>> => [Next]_vars
  BY DEF HNext
<1> QED
  BY <1>1, <1>2, PTL DEF HSpec, Spec

LEMMA SerialInvariant == HSpec => [](TypeOK /\ OneOpenLending /\ Serial)
<1>1. HInit => Serial
  BY DEF HInit, Init, Serial, Overlap, LentShows, Alone, OpenLendings,
         UnusedLending, Idle, At
<1>2. TypeOK /\ OneOpenLending /\ Serial /\ [HNext]_<<vars, overlapped>> => Serial'
  BY SerialNext
<1> QED
  BY <1>1, <1>2, HistoryOnly, TypeCorrect, OneOpenLendingHolds, PTL DEF HSpec
-----------------------------------------------------------------------------
(***************************************************************************)
(* The other direction holds step by step: "ausgeliehen" stays on an item  *)
(* that is not out only where an old form brings it back.                  *)
(***************************************************************************)
LEMMA ShownStaysOut ==
  ASSUME TypeOK, OneOpenLending, LentShows, \A r \in Requests : Alone(requests[r]),
         Next, NEW i \in Items, ShownIsOut(i)
  PROVE  ShownIsOut(i)' \/ \E r \in Requests : BringsLentBack(r, i)
<1> DEFINE Done == ShownIsOut(i)' \/ \E r \in Requests : BringsLentBack(r, i)
<1>1. ASSUME UNCHANGED lendings,
             \/ ~RowExists(i)'
             \/ RowExists(i) /\ items'[i].status = items[i].status
             \/ items'[i].status # "ausgeliehen"
      PROVE  Done
  BY <1>1 DEF ShownIsOut, OpenLendings
<1>4. ASSUME NEW r \in Requests, Handle(r)
      PROVE  Done
  <2> DEFINE q == requests[r]
  <2>0. /\ items[i] \in Item
        /\ \A l \in OpenLendings(i) : lendings'[l] = lendings[l] => OpenLendings(i)' # {}
    BY DEF TypeOK, OpenLendings
  <2>1. ASSUME NEW k \in Lendings, LendCommit(r, k) PROVE Done
    <3>1. PICK j \in Items : j = q.item
      BY <2>1 DEF LendCommit, At, TypeOK, KnowsItsRows
    <3>2. CASE i = j
      <4>1. k \in OpenLendings(i)'
        BY <2>1, <3>1, <3>2 DEF LendCommit, OpenLendings, TypeOK
      <4> QED
        BY <4>1 DEF ShownIsOut
    <3>3. CASE i # j
      <4>1. items'[i] = items[i]
        BY <2>1, <3>1, <3>3 DEF LendCommit, TypeOK
      <4>2. \A l \in OpenLendings(i) : lendings'[l] = lendings[l]
        BY <2>1 DEF LendCommit, OpenLendings, TypeOK
      <4> QED
        BY <2>0, <4>1, <4>2 DEF ShownIsOut, RowExists
    <3> QED
      BY <3>2, <3>3
  <2>2. ASSUME ReturnCommit(r) PROVE Done
    <3>1. PICK j \in Items : j = q.item
      BY <2>2 DEF ReturnCommit, At, TypeOK, KnowsItsRows
    <3>2. PICK k \in Lendings : k = q.lending
      BY <2>2 DEF ReturnCommit, At, TypeOK, KnowsItsRows
    <3>3. k \in OpenLendings(j) /\ items[j].status = q.status
      BY <1>1, <2>2, <3>1, <3>2 DEF ReturnCommit, At, Alone
    <3>4. CASE i = j
      <4>1. items'[i].status # "ausgeliehen"
        BY <2>0, <2>2, <3>1, <3>3, <3>4 DEF ReturnCommit, TypeOK, Item
      <4> QED
        BY <4>1 DEF ShownIsOut
    <3>5. CASE i # j
      <4>1. items'[i] = items[i]
        BY <2>2, <3>1, <3>5 DEF ReturnCommit, TypeOK
      <4>2. \A l \in OpenLendings(i) : lendings'[l] = lendings[l]
        BY <2>2, <3>2, <3>3, <3>5 DEF ReturnCommit, OpenLendings, TypeOK
      <4> QED
        BY <2>0, <4>1, <4>2 DEF ShownIsOut, RowExists
    <3> QED
      BY <3>4, <3>5
  <2>3. ASSUME NEW rowFor \in [q.resvs -> Lendings], PickupCommit(r, rowFor)
        PROVE  Done
    <3>1. CASE \E v \in q.resvs : reservations[v].item = i
      <4>1. PICK v \in q.resvs : reservations[v].item = i
        BY <3>1
      <4>2. v = CHOOSE u \in q.resvs : rowFor[u] = rowFor[v]
        BY <2>3 DEF PickupCommit
      <4>3. lendings'[rowFor[v]] =
              [state |-> "open", item |-> i, worker |-> q.worker,
               dept |-> reservations[v].dept]
        BY <2>3, <4>1, <4>2 DEF PickupCommit
      <4>4. rowFor[v] \in OpenLendings(i)'
        BY <4>3 DEF OpenLendings
      <4> QED
        BY <4>4 DEF ShownIsOut
    <3>2. CASE ~\E v \in q.resvs : reservations[v].item = i
      <4>1. items'[i] = items[i]
        BY <2>3, <3>2 DEF PickupCommit
      <4>2. \A l \in OpenLendings(i) : lendings'[l] = lendings[l]
        BY <2>3 DEF PickupCommit, OpenLendings
      <4> QED
        BY <2>0, <4>1, <4>2 DEF ShownIsOut, RowExists
    <3> QED
      BY <3>1, <3>2
  <2>4. ASSUME EditCommit(r) PROVE Done
    <3>1. PICK j \in Items : j = q.item
      BY <2>4 DEF EditCommit, At, TypeOK, KnowsItsRows
    <3>2. At(r, "edit.commit") /\ RowExists(j) /\ UNCHANGED lendings
      BY <2>4, <3>1 DEF EditCommit
    <3>3. CASE i # j
      <4>1. items'[i] = items[i]
        BY <2>4, <3>1, <3>3 DEF EditCommit, TypeOK
      <4> QED
        BY <1>1, <3>2, <4>1 DEF RowExists
    <3>4. CASE i = j /\ q.toStatus = q.status
      <4>1. items'[i].status = items[i].status
        BY <2>0, <2>4, <3>1, <3>4 DEF EditCommit, TypeOK, Item
      <4> QED
        BY <1>1, <3>2, <3>4, <4>1
    <3>5. CASE i = j /\ q.toStatus # q.status
      <4>1. items'[i].status = q.toStatus
        BY <2>0, <2>4, <3>1, <3>5 DEF EditCommit, TypeOK, Item
      <4>2. CASE q.toStatus = "ausgeliehen"
        BY <2>4, <3>1, <3>5, <4>2 DEF BringsLentBack
      <4> QED
        BY <1>1, <3>2, <4>1, <4>2
    <3> QED
      BY <3>3, <3>4, <3>5
  <2>5. ASSUME DeleteCommit(r) PROVE Done
    <3>1. PICK j \in Items : j = q.item
      BY <2>5 DEF DeleteCommit, At, TypeOK, KnowsItsRows
    <3>2. /\ RowExists(j) /\ UNCHANGED lendings
          /\ items' = [items EXCEPT ![j].life = "trashed"]
      BY <2>5, <3>1 DEF DeleteCommit
    <3>3. items'[i].status = items[i].status /\ (i # j => items'[i] = items[i])
      BY <2>0, <3>2 DEF TypeOK, Item
    <3> QED
      BY <1>1, <3>2, <3>3 DEF RowExists
  <2>6. ASSUME UNCHANGED <<items, lendings>> PROVE Done
    BY <2>6 DEF ShownIsOut, RowExists, OpenLendings
  <2> HIDE DEF Done
  <2> QED
    BY <1>4, <2>1, <2>2, <2>3, <2>4, <2>5, <2>6
       DEF Handle, Abort, Load, LendCheck, ReturnFind, ReserveCheck, ReserveCommit,
           CancelLoad, PickupRemoveLoad, CancelCommit, PickupLoad, EditCheck,
           Keep, tables
<1>5. ASSUME NEW j \in Items, NEW d \in Departments, CreateItem(j, d)
      PROVE  Done
  <2>1. items'[i] = items[i] \/ items'[i].status = "verfuegbar"
    BY <1>5 DEF CreateItem, TypeOK
  <2>2. UNCHANGED lendings
    BY <1>5 DEF CreateItem
  <2> QED
    BY <1>1, <2>1, <2>2 DEF RowExists
<1>6. ASSUME NEW w \in Workers, ToggleWorker(w) \/ DeleteWorker(w)
      PROVE  Done
  BY <1>6 DEF ToggleWorker, DeleteWorker, ShownIsOut, RowExists, OpenLendings
<1> HIDE DEF Done
<1>7. Done
  BY <1>4, <1>5, <1>6 DEF Next
<1> QED
  BY <1>7 DEF Done

\* As long as no requests have overlapped, what is out shows it, and what shows
\* it is out until an old form brings "ausgeliehen" back.
THEOREM SerialStatusHolds == HSpec => SerialStatus
<1>1. TypeOK /\ OneOpenLending /\ Serial /\ Serial' /\ [HNext]_<<vars, overlapped>>
        => [overlapped' \/ KeepsStatus]_<<vars, overlapped>>
  <2> SUFFICES ASSUME TypeOK, OneOpenLending, Serial, Serial', HNext, ~overlapped',
                      NEW i \in Items
               PROVE  /\ OutShows(i)'
                      /\ ShownIsOut(i) => \/ ShownIsOut(i)'
                                          \/ \E r \in Requests : BringsLentBack(r, i)
    BY DEF KeepsStatus
  <2>1. OutShows(i)'
    BY DEF Serial, LentShows, OutShows
  <2>2. Next /\ LentShows /\ \A r \in Requests : Alone(requests[r])
    BY DEF HNext, Serial
  <2> QED
    BY <2>1, <2>2, ShownStaysOut
<1> QED
  BY <1>1, SerialInvariant, PTL DEF HSpec, SerialStatus
-----------------------------------------------------------------------------
(***************************************************************************)
(* While requests do not overlap the desk implements ClaimLedger.  A claim *)
(* is an open reservation, so a step that closes the open reservations of  *)
(* some items releases them, and a hand-out closes all that are open.      *)
(***************************************************************************)

\* The claimant of an item is the worker of its open reservation.
LEMMA ClaimantIs ==
  ASSUME OneOpenReservation, NEW i \in Items, NEW v \in OpenReservations(i)
  PROVE  Claimant(i) = reservations[v].worker
BY DEF OneOpenReservation, Claimant

\* An item keeps its claimant where a step leaves its open reservations alone.
LEMMA ClaimantStays ==
  ASSUME OneOpenReservation, OneOpenReservation', NEW i \in Items,
         \A v \in Reservations : reservations'[v] # reservations[v] =>
           v \notin OpenReservations(i) /\ v \notin OpenReservations(i)'
  PROVE  Claimant(i)' = Claimant(i)
<1>1. CASE OpenReservations(i) = {}
  BY <1>1 DEF OpenReservations, IsOpen, Claimant
<1>2. CASE OpenReservations(i) # {}
  <2>1. PICK v \in OpenReservations(i) : TRUE
    BY <1>2
  <2>2. v \in OpenReservations(i)' /\ reservations'[v] = reservations[v]
    BY <2>1 DEF OpenReservations, IsOpen
  <2> QED
    BY <2>1, <2>2, ClaimantIs DEF OneOpenReservation, Claimant
<1> QED
  BY <1>1, <1>2

\* Closing the rows R, all those that are open for the items S, ends the claims
\* to S and no other.
LEMMA ClosingReleases ==
  ASSUME OneOpenReservation, OneOpenReservation', TypeOK,
         NEW S \in SUBSET Items, NEW R \in SUBSET Reservations,
         \A v \in Reservations : v \notin R => reservations'[v] = reservations[v],
         \A v \in R : /\ reservations'[v].item = reservations[v].item
                      /\ ~IsOpen(v)'
                      /\ reservations[v].item \in Items => reservations[v].item \in S,
         \A i \in S : OpenReservations(i) \subseteq R
  PROVE  claimMap' = [i \in Items |-> IF i \in S THEN None ELSE claimMap[i]]
<1>1. ASSUME NEW i \in S
      PROVE  Claimant(i)' = None
  <2>1. OpenReservations(i)' = {}
    <3> SUFFICES ASSUME NEW v \in OpenReservations(i)' PROVE FALSE
      OBVIOUS
    <3>1. v \in Reservations /\ IsOpen(v)' /\ reservations'[v].item = i
      BY DEF OpenReservations
    <3>2. v \notin R
      BY <3>1
    <3>3. v \in OpenReservations(i)
      BY <3>1, <3>2 DEF OpenReservations, IsOpen
    <3> QED
      BY <3>2, <3>3
  <2> QED
    BY <2>1 DEF Claimant
<1>2. ASSUME NEW i \in Items \ S
      PROVE  Claimant(i)' = Claimant(i)
  <2>1. \A v \in R : v \notin OpenReservations(i) /\ v \notin OpenReservations(i)'
    BY DEF OpenReservations
  <2> QED
    BY <2>1, ClaimantStays
<1> QED
  BY <1>1, <1>2 DEF claimMap

\* What a lending or a pickup fulfils are all open reservations of its items,
\* and they are those of its worker.
LEMMA FulfillingReleases ==
  ASSUME OneOpenReservation, OneOpenReservation', TypeOK, NEW r \in Requests,
         NEW S \in SUBSET Items,
         reservations' = [v \in Reservations |->
           IF v \in requests[r].resvs THEN [reservations[v] EXCEPT !.fulfilled = TRUE]
                                      ELSE reservations[v]],
         \A v \in requests[r].resvs :
           /\ reservations[v].item \in Items => reservations[v].item \in S
           /\ reservations[v].worker = requests[r].worker,
         \A i \in S : OpenReservations(i) \subseteq requests[r].resvs
  PROVE  /\ \A i \in S : claimMap[i] \in {None, requests[r].worker}
         /\ claimMap' = [i \in Items |-> IF i \in S THEN None ELSE claimMap[i]]
<1> DEFINE R == requests[r].resvs
<1>0. R \in SUBSET Reservations
  BY DEF TypeOK, Request
<1>1. ASSUME NEW i \in S
      PROVE  Claimant(i) \in {None, requests[r].worker}
  <2>1. CASE OpenReservations(i) = {}
    BY <2>1 DEF Claimant
  <2>2. CASE OpenReservations(i) # {}
    <3>1. PICK v \in OpenReservations(i) : TRUE
      BY <2>2
    <3> QED
      BY <3>1, ClaimantIs
  <2> QED
    BY <2>1, <2>2
<1>2. ASSUME NEW v \in R
      PROVE  /\ reservations'[v].item = reservations[v].item
             /\ ~IsOpen(v)'
  <2>1. reservations[v] \in Reservation
    BY <1>0 DEF TypeOK
  <2>2. reservations'[v] = [reservations[v] EXCEPT !.fulfilled = TRUE]
    BY <1>0
  <2> QED
    BY <2>1, <2>2 DEF Reservation, IsOpen
<1>3. \A v \in Reservations : v \notin R => reservations'[v] = reservations[v]
  OBVIOUS
<1>4. claimMap' = [i \in Items |-> IF i \in S THEN None ELSE claimMap[i]]
  <2> HIDE DEF R
  <2>1. /\ \A v \in R : reservations[v].item \in Items => reservations[v].item \in S
        /\ \A i \in S : OpenReservations(i) \subseteq R
    BY DEF R
  <2> QED
    BY <1>0, <1>2, <1>3, <2>1, ClosingReleases
<1> QED
  BY <1>1, <1>4 DEF claimMap

LEMMA ClaimsNext ==
  ASSUME TypeOK, FulfilInv, OneOpenRow, OneOpenRow', Serial,
         [HNext]_<<vars, overlapped>>, ~overlapped'
  PROVE  [Claims!Next]_<<holderMap, claimMap>>
<1>0. /\ OneOpenLending /\ OneOpenLending' /\ OneOpenReservation /\ OneOpenReservation'
  BY DEF OneOpenRow
<1>1. ASSUME UNCHANGED <<lendings, reservations>>
      PROVE  UNCHANGED <<holderMap, claimMap>>
  BY <1>1 DEF holderMap, Holder, OpenLendings, claimMap, Claimant,
              OpenReservations, IsOpen
<1>2. ASSUME UNCHANGED lendings
      PROVE  UNCHANGED holderMap
  BY <1>2 DEF holderMap, Holder, OpenLendings
<1>3. CASE UNCHANGED <<vars, overlapped>>
  BY <1>1, <1>3 DEF vars
<1> SUFFICES ASSUME HNext PROVE Claims!Next \/ UNCHANGED <<holderMap, claimMap>>
  BY <1>3
<1>4. LentShows /\ \A r \in Requests : Alone(requests[r])
  BY DEF HNext, Serial
<1>5. ASSUME NEW r \in Requests, NEW k \in Lendings, LendCommit(r, k)
      PROVE  Claims!Next
  <2> DEFINE q == requests[r]
             S == {q.item}
  <2>1. /\ q.item \in Items /\ q.worker \in Workers
        /\ Ledger!HandOut(q.worker, S)
    BY <1>0, <1>5, LendHandsOut
  <2>2. At(r, "lend.commit")
    BY <1>5 DEF LendCommit
  <2>3. OpenReservations(q.item) \subseteq q.resvs
    BY <1>4, <2>2 DEF Alone, At
  <2>4. \A v \in q.resvs : reservations[v].item = q.item /\ reservations[v].worker = q.worker
    BY <2>2 DEF FulfilInv
  <2>5. /\ \A i \in S : claimMap[i] \in {None, q.worker}
        /\ claimMap' = [i \in Items |-> IF i \in S THEN None ELSE claimMap[i]]
    <3>1. reservations' = [v \in Reservations |->
            IF v \in requests[r].resvs THEN [reservations[v] EXCEPT !.fulfilled = TRUE]
                                       ELSE reservations[v]]
      BY <1>5 DEF LendCommit
    <3>2. S \in SUBSET Items
      BY <2>1
    <3>3. \A i \in S : OpenReservations(i) \subseteq requests[r].resvs
      BY <2>3
    <3>4. \A v \in requests[r].resvs :
            /\ reservations[v].item \in Items => reservations[v].item \in S
            /\ reservations[v].worker = requests[r].worker
      BY <2>4
    <3> HIDE DEF q, S
    <3>5. /\ \A i \in S : claimMap[i] \in {None, requests[r].worker}
          /\ claimMap' = [i \in Items |-> IF i \in S THEN None ELSE claimMap[i]]
      BY <1>0, <3>1, <3>2, <3>3, <3>4, FulfillingReleases
    <3> QED
      BY <3>5 DEF q
  <2>6. Claims!HandOut(q.worker, S)
    BY <2>1, <2>5 DEF Claims!HandOut, Ledger!HandOut
  <2> QED
    BY <2>1, <2>6 DEF Claims!Next
<1>6. ASSUME NEW r \in Requests, NEW rowFor \in [requests[r].resvs -> Lendings],
             PickupCommit(r, rowFor)
      PROVE  Claims!Next
  <2> DEFINE q == requests[r]
             S == PickedUp(r)
  <2>1. q.worker \in Workers /\ Ledger!HandOut(q.worker, S)
    BY <1>0, <1>6, PickupHandsOut
  <2>2. At(r, "pickup") /\ S \in SUBSET Items
    BY <1>6 DEF PickupCommit, PickedUp
  <2>3. ASSUME NEW i \in S
        PROVE  OpenReservations(i) \subseteq q.resvs
    <3>1. PICK v \in q.resvs : reservations[v].item = i
      BY <2>3 DEF PickedUp
    <3>2. v \in OpenReservations(i)
      BY <1>4, <2>2, <3>1 DEF Alone, At, OpenReservations, TypeOK, Request
    <3> QED
      BY <1>0, <2>2, <3>1, <3>2 DEF OneOpenReservation
  <2>4. \A v \in q.resvs : /\ reservations[v].item \in Items => reservations[v].item \in S
                           /\ reservations[v].worker = q.worker
    BY <2>2 DEF FulfilInv, PickedUp
  <2>5. /\ \A i \in S : claimMap[i] \in {None, q.worker}
        /\ claimMap' = [i \in Items |-> IF i \in S THEN None ELSE claimMap[i]]
    <3>1. reservations' = [v \in Reservations |->
             IF v \in q.resvs THEN [reservations[v] EXCEPT !.fulfilled = TRUE]
                              ELSE reservations[v]]
      BY <1>6 DEF PickupCommit
    <3> HIDE DEF S
    <3> QED
      BY <1>0, <2>2, <2>3, <2>4, <3>1, FulfillingReleases
  <2>6. Claims!HandOut(q.worker, S)
    BY <2>1, <2>2, <2>5 DEF Claims!HandOut, Ledger!HandOut
  <2> QED
    BY <2>1, <2>2, <2>6 DEF Claims!Next
<1>7. ASSUME NEW r \in Requests, ReturnCommit(r)
      PROVE  Claims!Next
  <2>1. PICK S \in SUBSET Items : Ledger!TakeBack(S)
    BY <1>0, <1>7, ReturnTakesBack
  <2>2. UNCHANGED claimMap
    BY <1>7 DEF ReturnCommit, claimMap, Claimant, OpenReservations, IsOpen
  <2> QED
    BY <2>1, <2>2 DEF Claims!Next, Claims!TakeBack, Ledger!TakeBack
<1>8. ASSUME NEW r \in Requests, NEW v \in Reservations, ReserveCommit(r, v)
      PROVE  Claims!Next
  <2> DEFINE w == requests[r].worker
  <2>1. PICK j \in Items : j = requests[r].item
    BY <1>8 DEF ReserveCommit, At, TypeOK, KnowsItsRows
  <2>2. w \in Workers /\ At(r, "reserve.commit") /\ OpenReservations(j) = {}
    BY <1>8, <2>1 DEF ReserveCommit, AdmitsReservation, At, TypeOK, KnowsItsRows
  <2>3. Holder(j) = None /\ Claimant(j) = None
    <3>1. items[j].status = "verfuegbar"
      BY <1>4, <2>1, <2>2 DEF Alone, At
    <3> QED
      BY <1>4, <2>2, <3>1 DEF LentShows, Holder, Claimant
  <2>4. /\ ~IsOpen(v) /\ IsOpen(v)'
        /\ reservations'[v].item = j /\ reservations'[v].worker = w
        /\ \A u \in Reservations \ {v} : reservations'[u] = reservations[u]
    BY <1>8, <2>1 DEF ReserveCommit, IsOpen, TypeOK
  <2>5. Claimant(j)' = w
    <3>1. v \in OpenReservations(j)'
      BY <2>4 DEF OpenReservations
    <3> QED
      BY <1>0, <2>4, <3>1 DEF Claimant, OneOpenReservation
  <2>6. ASSUME NEW i \in Items \ {j}
        PROVE  Claimant(i)' = Claimant(i)
    <3>1. v \notin OpenReservations(i) /\ v \notin OpenReservations(i)'
      BY <2>4 DEF OpenReservations
    <3> QED
      BY <1>0, <2>4, <3>1, ClaimantStays
  <2>7. UNCHANGED holderMap
    BY <1>2, <1>8 DEF ReserveCommit
  <2>8. Claims!Claim(j, w)
    BY <2>3, <2>5, <2>6, <2>7 DEF Claims!Claim, claimMap, holderMap
  <2> QED
    BY <2>2, <2>8 DEF Claims!Next
<1>9. ASSUME NEW r \in Requests, CancelCommit(r)
      PROVE  Claims!Next \/ UNCHANGED <<holderMap, claimMap>>
  <2>1. PICK v \in Reservations : requests[r].resvs = {v} /\ IsOpen(v)
    BY <1>4, <1>9 DEF CancelCommit, Alone, At
  <2> DEFINE S == {i \in Items : i = reservations[v].item}
  <2>2. /\ reservations'[v] = [reservations[v] EXCEPT !.cancelled = TRUE]
        /\ \A u \in Reservations : u \notin {v} => reservations'[u] = reservations[u]
    BY <1>9, <2>1 DEF CancelCommit
  <2>3. reservations[v] \in Reservation
    BY DEF TypeOK
  <2>4. reservations'[v].item = reservations[v].item /\ ~IsOpen(v)'
    BY <2>2, <2>3 DEF Reservation, IsOpen
  <2>5. \A i \in S : OpenReservations(i) \subseteq {v}
    BY <1>0, <2>1 DEF OpenReservations, OneOpenReservation
  <2>6. claimMap' = [i \in Items |-> IF i \in S THEN None ELSE claimMap[i]]
    <3>1. S \in SUBSET Items /\ {v} \in SUBSET Reservations
      OBVIOUS
    <3>2. \A u \in {v} : /\ reservations'[u].item = reservations[u].item
                         /\ ~IsOpen(u)'
                         /\ reservations[u].item \in Items => reservations[u].item \in S
      BY <2>4
    <3> HIDE DEF S
    <3> QED
      BY <1>0, <2>2, <2>5, <3>1, <3>2, ClosingReleases
  <2>7. UNCHANGED holderMap
    BY <1>2, <1>9 DEF CancelCommit
  <2>8. CASE reservations[v].item \in Items
    <3>1. Claims!Release(reservations[v].item)
      BY <2>6, <2>7, <2>8 DEF Claims!Release, claimMap
    <3> QED
      BY <2>8, <3>1 DEF Claims!Next
  <2>9. CASE reservations[v].item \notin Items
    BY <2>6, <2>7, <2>9 DEF claimMap
  <2> QED
    BY <2>8, <2>9
<1>10. ASSUME NEW r \in Requests, Handle(r)
       PROVE  Claims!Next \/ UNCHANGED <<holderMap, claimMap>>
  BY <1>1, <1>5, <1>6, <1>7, <1>8, <1>9, <1>10
     DEF Handle, Abort, Load, LendCheck, ReturnFind, ReserveCheck,
         CancelLoad, PickupRemoveLoad, PickupLoad,
         EditCheck, EditCommit, DeleteCommit, Keep, tables
<1> QED
  BY <1>1, <1>10 DEF HNext, Next, CreateItem, ToggleWorker, DeleteWorker

\* As long as no requests have overlapped the desk keeps the promise of
\* ClaimLedger: nobody gets an item that is reserved for somebody else, and a
\* reservation is used up when its owner gets the item.
THEOREM SerialClaimLedgerHolds == HSpec => SerialClaimLedger
<1>1. HInit => Claims!Init
  BY DEF HInit, Init, Claims!Init, holderMap, Holder, OpenLendings, UnusedLending,
         claimMap, Claimant, OpenReservations, IsOpen, UnusedReservation
<1>2. TypeOK /\ FulfilInv /\ OneOpenRow /\ OneOpenRow' /\ Serial
        /\ [HNext]_<<vars, overlapped>>
        => [overlapped' \/ Claims!Next]_<<holderMap, claimMap>>
  BY ClaimsNext
<1> QED
  BY <1>1, <1>2, HistoryOnly, SerialInvariant, FulfilInvariant, OneOpenRowHolds,
     PTL DEF HSpec, SerialClaimLedger

-----------------------------------------------------------------------------
(***************************************************************************)
(* The desk with the trash can.  Its steps were followed row by row above; *)
(* what is new is the purge.                                               *)
(***************************************************************************)
\* A reservation that is not used yet points nowhere.  A purge detaches the
\* used ones, so without this it could leave a pointer behind.
UnusedPointsNowhere ==
  \A v \in Reservations : ~reservations[v].used =>
    /\ reservations[v].item = None
    /\ reservations[v].worker = None
    /\ reservations[v].dept = None

\* A trash request is about items that were created.
PlansReal ==
  /\ trash \in [Slots -> TrashRequest]
  /\ \A a \in Slots : \A i \in trash[a].items : items[i].life # "absent"

TTypeOK == TypeOK /\ PlansReal

-----------------------------------------------------------------------------
(***************************************************************************)
(* Types.                                                                  *)
(***************************************************************************)
\* What a purge leaves of a row of lendings or reservations.
LEMMA NullIfEither ==
  ASSUME NEW x, NEW S
  PROVE  NullIf(x, S) = x \/ (x \in S /\ NullIf(x, S) = None)
BY DEF NullIf

\* How a purge changes every row of the tables.
LEMMA PurgeRows ==
  ASSUME TypeOK, NEW a \in Slots, PurgeCommit(a)
  PROVE  /\ items' \in [Items -> Item]
         /\ \A i \in Items : /\ i \in trash[a].items => items'[i].life = "purged"
                             /\ i \notin trash[a].items => items'[i] = items[i]
                             /\ items'[i].dept = items[i].dept
                             /\ items'[i].life = "absent" => items[i].life = "absent"
         /\ workers' \in [Workers -> WorkerLife]
         /\ \A w \in Workers : /\ w \in trash[a].users => workers'[w] = "purged"
                               /\ w \notin trash[a].users => workers'[w] = workers[w]
         /\ departments' = departments \ trash[a].depts
<1>1. items \in [Items -> Item] /\ workers \in [Workers -> WorkerLife]
  BY DEF TypeOK
<1> QED
  BY <1>1 DEF PurgeCommit, Item, Life, WorkerLife

LEMMA PurgeLendings ==
  ASSUME TypeOK, NEW a \in Slots, PurgeCommit(a)
  PROVE  /\ lendings' \in [Lendings -> Lending]
         /\ \A l \in Lendings :
              /\ l \in trash[a].closeL => lendings'[l].state = "returned"
              /\ l \notin trash[a].closeL => lendings'[l].state = lendings[l].state
              /\ lendings'[l].item = NullIf(lendings[l].item, trash[a].items)
              /\ lendings'[l].worker = NullIf(lendings[l].worker, trash[a].users)
              /\ lendings'[l].dept = NullIf(lendings[l].dept, trash[a].depts)
<1> DEFINE p == trash[a]
           new(l) == [state  |-> IF l \in p.closeL THEN "returned" ELSE lendings[l].state,
                      item   |-> NullIf(lendings[l].item, p.items),
                      worker |-> NullIf(lendings[l].worker, p.users),
                      dept   |-> NullIf(lendings[l].dept, p.depts)]
<1>1. lendings' = [l \in Lendings |-> new(l)]
  BY DEF PurgeCommit
<1>2. ASSUME NEW l \in Lendings
      PROVE  new(l) \in Lending
  <2>1. lendings[l] \in Lending
    BY DEF TypeOK
  <2> QED
    BY <2>1, NullIfEither DEF Lending
<1>3. \A l \in Lendings : lendings'[l] = new(l)
  BY <1>1
<1> QED
  BY <1>1, <1>2, <1>3

LEMMA PurgeReservations ==
  ASSUME TypeOK, NEW a \in Slots, PurgeCommit(a)
  PROVE  /\ reservations' \in [Reservations -> Reservation]
         /\ \A v \in Reservations :
              /\ v \notin trash[a].seenR => reservations'[v] = reservations[v]
              /\ v \in trash[a].seenR =>
                   /\ reservations'[v].used = reservations[v].used
                   /\ reservations'[v].fulfilled = reservations[v].fulfilled
                   /\ reservations[v].cancelled => reservations'[v].cancelled
                   /\ v \in trash[a].closeR => reservations'[v].cancelled
                   /\ reservations'[v].cancelled =>
                        reservations[v].cancelled \/ v \in trash[a].closeR
                   /\ reservations'[v].item = NullIf(reservations[v].item, trash[a].items)
                   /\ reservations'[v].worker = NullIf(reservations[v].worker, trash[a].users)
                   /\ reservations'[v].dept = NullIf(reservations[v].dept, trash[a].depts)
<1> DEFINE p == trash[a]
           new(v) == [reservations[v] EXCEPT
                        !.item      = NullIf(@, p.items),
                        !.worker    = NullIf(@, p.users),
                        !.dept      = NullIf(@, p.depts),
                        !.cancelled = @ \/ v \in p.closeR]
<1>1. reservations' = [v \in Reservations |->
                         IF v \notin p.seenR THEN reservations[v] ELSE new(v)]
  BY DEF PurgeCommit
<1>2. ASSUME NEW v \in Reservations
      PROVE  /\ new(v) \in Reservation
             /\ new(v).used = reservations[v].used
             /\ new(v).fulfilled = reservations[v].fulfilled
             /\ reservations[v].cancelled => new(v).cancelled
             /\ v \in p.closeR => new(v).cancelled
             /\ new(v).cancelled => reservations[v].cancelled \/ v \in p.closeR
             /\ new(v).item = NullIf(reservations[v].item, p.items)
             /\ new(v).worker = NullIf(reservations[v].worker, p.users)
             /\ new(v).dept = NullIf(reservations[v].dept, p.depts)
  <2>1. reservations[v] \in Reservation
    BY DEF TypeOK
  <2>2. /\ NullIf(reservations[v].item, p.items) \in Items \cup {None}
        /\ NullIf(reservations[v].worker, p.users) \in Workers \cup {None}
        /\ NullIf(reservations[v].dept, p.depts) \in Departments \cup {None}
    BY <2>1, NullIfEither DEF Reservation
  <2>3. new(v) \in Reservation
    BY <2>1, <2>2 DEF Reservation
  <2>4. /\ new(v).used = reservations[v].used
        /\ new(v).fulfilled = reservations[v].fulfilled
        /\ new(v).item = NullIf(reservations[v].item, p.items)
        /\ new(v).worker = NullIf(reservations[v].worker, p.users)
        /\ new(v).dept = NullIf(reservations[v].dept, p.depts)
    BY <2>1 DEF Reservation
  <2>5. new(v).cancelled <=> reservations[v].cancelled \/ v \in p.closeR
    BY <2>1 DEF Reservation
  <2> QED
    BY <2>3, <2>4, <2>5
<1>3. \A v \in Reservations : reservations[v] \in Reservation
  BY DEF TypeOK
<1>4. \A v \in Reservations :
        reservations'[v] = IF v \notin p.seenR THEN reservations[v] ELSE new(v)
  BY <1>1
<1> HIDE DEF new
<1> QED
  BY <1>1, <1>2, <1>3, <1>4

\* What a restored row is.
LEMMA RestoreRows ==
  ASSUME TypeOK, NEW a \in Slots, RestoreCommit(a)
  PROVE  /\ items' \in [Items -> Item]
         /\ \A i \in Items : /\ items'[i].dept = items[i].dept
                             /\ items'[i].status = items[i].status
                             /\ items'[i].life = "absent" => items[i].life = "absent"
                             /\ RowExists(i) => RowExists(i)'
         /\ workers' \in [Workers -> WorkerLife]
         /\ \A w \in Workers : workers[w] # "purged" => workers'[w] # "purged"
<1>1. items \in [Items -> Item] /\ workers \in [Workers -> WorkerLife]
  BY DEF TypeOK
<1>2. CASE /\ TAt(a, "restore.item")
           /\ items' = [i \in Items |-> IF i \in trash[a].items
                          THEN Restored(items[i]) ELSE items[i]]
           /\ UNCHANGED workers
  BY <1>1, <1>2 DEF Restored, Item, Life, RowExists
<1>3. CASE /\ \E back \in {"active", "inactive"} :
                workers' = [w \in Workers |-> IF w \in trash[a].users THEN back ELSE workers[w]]
           /\ UNCHANGED items
  BY <1>1, <1>3 DEF WorkerLife, RowExists
<1> QED
  BY <1>2, <1>3 DEF RestoreCommit

\* The desk creates rows, and neither forgets nor purges one.
LEMMA DeskKeepsRows ==
  ASSUME TypeOK, [Next]_vars
  PROVE  /\ \A i \in Items : /\ items'[i].life = "absent" => items[i].life = "absent"
                             /\ RowExists(i) => RowExists(i)'
         /\ \A w \in Workers : workers[w] # "purged" => workers'[w] # "purged"
         /\ departments' = departments
<1> DEFINE KeptItem(i) == /\ items'[i].life = "absent" => items[i].life = "absent"
                          /\ RowExists(i) => RowExists(i)'
           Goal == /\ \A i \in Items : KeptItem(i)
                   /\ \A w \in Workers : workers[w] # "purged" => workers'[w] # "purged"
                   /\ departments' = departments
<1>0. items \in [Items -> Item] /\ workers \in [Workers -> WorkerLife]
  BY DEF TypeOK
<1>1. ASSUME UNCHANGED <<items, workers, departments>>
      PROVE  Goal
  BY <1>1 DEF RowExists
<1>2. ASSUME NEW r \in Requests,
             \/ \E l \in Lendings : LendCommit(r, l)
             \/ ReturnCommit(r)
             \/ EditCommit(r)
             \/ \E rowFor \in [requests[r].resvs -> Lendings] : PickupCommit(r, rowFor)
      PROVE  Goal
  <2>1. \A i \in Items : items'[i].life = items[i].life
    <3>1. CASE \E l \in Lendings : LendCommit(r, l)
      BY <1>0, <3>1 DEF LendCommit, Item
    <3>2. CASE ReturnCommit(r)
      BY <1>0, <3>2 DEF ReturnCommit, Item
    <3>3. CASE EditCommit(r)
      BY <1>0, <3>3 DEF EditCommit, Item
    <3>4. CASE \E rowFor \in [requests[r].resvs -> Lendings] : PickupCommit(r, rowFor)
      BY <1>0, <3>4 DEF PickupCommit, Item
    <3> QED
      BY <1>2, <3>1, <3>2, <3>3, <3>4
  <2>2. UNCHANGED <<workers, departments>>
    BY <1>2 DEF LendCommit, ReturnCommit, EditCommit, PickupCommit
  <2> QED
    BY <2>1, <2>2 DEF RowExists
<1>3. ASSUME NEW r \in Requests, DeleteCommit(r)
      PROVE  Goal
  BY <1>0, <1>3 DEF DeleteCommit, RowExists, Item
<1>4. ASSUME NEW i \in Items, NEW d \in Departments, CreateItem(i, d)
      PROVE  Goal
  BY <1>0, <1>4 DEF CreateItem, RowExists, Item
<1>5. ASSUME NEW w \in Workers, ToggleWorker(w) \/ DeleteWorker(w)
      PROVE  Goal
  BY <1>0, <1>5 DEF ToggleWorker, DeleteWorker, RowExists
<1>6. ASSUME NEW r \in Requests, Handle(r)
      PROVE  Goal
  <2> HIDE DEF Goal
  <2> QED
    BY <1>1, <1>2, <1>3, <1>6
       DEF Handle, Abort, Load, LendCheck, ReturnFind, ReserveCheck, ReserveCommit,
           CancelLoad, PickupRemoveLoad, CancelCommit, PickupLoad, EditCheck, Keep, tables
<1> QED
  BY <1>1, <1>4, <1>5, <1>6 DEF Next, vars

\* A trash request that is stored is about rows it has just read.
LEMMA PlanStored ==
  ASSUME TTypeOK, NEW a \in Slots, NEW p \in TrashRequest, TKeep(a, p),
         \A i \in p.items : items[i].life # "absent"
  PROVE  TTypeOK'
<1>1. TypeOK'
  BY TypeNext DEF TTypeOK, TKeep
<1>2. PlansReal'
  BY DEF TTypeOK, PlansReal, TKeep, vars
<1> QED
  BY <1>1, <1>2 DEF TTypeOK

LEMMA NoTrashOK == NoTrash \in TrashRequest
BY DEF NoTrash, TrashRequest

\* What a trash request reads is a plan.
LEMMA LoadStores ==
  ASSUME TTypeOK, NEW a \in Slots,
         \/ \E i \in Items : RestoreItemLoad(a, i)
         \/ \E w \in Workers : RestoreUserLoad(a, w)
         \/ \E i \in Items, force \in Forces : PurgeItemLoad(a, i, force)
         \/ \E w \in Workers, force \in Forces : PurgeUserLoad(a, w, force)
         \/ \E d \in Departments, force \in Forces : PurgeDepartmentLoad(a, d, force)
  PROVE  TTypeOK'
<1>1. ASSUME NEW i \in Items, RestoreItemLoad(a, i)
      PROVE  TTypeOK'
  <2>1. [NoTrash EXCEPT !.pc = "restore.item", !.items = {i}] \in TrashRequest
    BY NoTrashOK DEF TrashRequest
  <2> QED
    BY <1>1, <2>1, PlanStored DEF RestoreItemLoad, NoTrash
<1>2. ASSUME NEW w \in Workers, RestoreUserLoad(a, w)
      PROVE  TTypeOK'
  <2>1. [NoTrash EXCEPT !.pc = "restore.user", !.users = {w}] \in TrashRequest
    BY NoTrashOK DEF TrashRequest
  <2> QED
    BY <1>2, <2>1, PlanStored DEF RestoreUserLoad, NoTrash
<1>3. ASSUME NEW S \in SUBSET Items, NEW U \in SUBSET Workers, NEW D \in SUBSET Departments,
             NEW L \in SUBSET Lendings, NEW R \in SUBSET Reservations,
             PurgePlan(a, S, U, D, L, R), \A i \in S : items[i].life # "absent"
      PROVE  TTypeOK'
  <2> DEFINE p == [pc |-> "purge", items |-> S, users |-> U, depts |-> D,
                   closeL |-> L, closeR |-> R,
                   seenR |-> {v \in Reservations : /\ reservations[v].used
                                                   /\ PointsTo(reservations[v], S, U, D)}]
  <2>1. p \in TrashRequest
    BY DEF TrashRequest
  <2> QED
    BY <1>3, <2>1, PlanStored DEF PurgePlan
<1>4. ASSUME NEW i \in Items, NEW force \in Forces, PurgeItemLoad(a, i, force)
      PROVE  TTypeOK'
  BY <1>3, <1>4 DEF PurgeItemLoad, OpenLendings, OpenReservations
<1>5. ASSUME NEW w \in Workers, NEW force \in Forces, PurgeUserLoad(a, w, force)
      PROVE  TTypeOK'
  BY <1>3, <1>5 DEF PurgeUserLoad, OpenLendingsOf, ReservationsOf
<1>6. ASSUME NEW d \in Departments, NEW force \in Forces, PurgeDepartmentLoad(a, d, force)
      PROVE  TTypeOK'
  <2> DEFINE S == {i \in Items : RowExists(i) /\ items[i].dept = d}
             U == {w \in Workers : workers[w] # "purged" /\ Home[w] = d}
             L == {l \in Lendings : /\ lendings[l].state = "open"
                                    /\ lendings[l].dept = d \/ lendings[l].worker \in U}
             R == {v \in Reservations : /\ IsOpen(v)
                                        /\ reservations[v].dept = d \/ reservations[v].worker \in U}
  <2>1. PurgePlan(a, S, U, {d}, L, R)
    BY <1>6 DEF PurgeDepartmentLoad
  <2>2. \A i \in S : items[i].life # "absent"
    BY DEF RowExists
  <2>3. /\ S \in SUBSET Items /\ U \in SUBSET Workers /\ {d} \in SUBSET Departments
        /\ L \in SUBSET Lendings /\ R \in SUBSET Reservations
    OBVIOUS
  <2> HIDE DEF S, U, L, R
  <2> QED
    BY <1>3, <2>1, <2>2, <2>3
<1> QED
  BY <1>1, <1>2, <1>4, <1>5, <1>6

\* A trash request that ends leaves plans about items that are still real.
LEMMA FinishPlans ==
  ASSUME TTypeOK, NEW a \in Slots, TFinish(a),
         \A i \in Items : items'[i].life = "absent" => items[i].life = "absent"
  PROVE  PlansReal'
<1>1. trash' \in [Slots -> TrashRequest] /\ trash'[a].items = {}
  BY NoTrashOK DEF TTypeOK, PlansReal, TFinish, NoTrash
<1>2. \A b \in Slots \ {a} : trash'[b] = trash[b] /\ trash[b].items \subseteq Items
  BY DEF TTypeOK, PlansReal, TFinish, TrashRequest
<1> QED
  BY <1>1, <1>2 DEF TTypeOK, PlansReal

LEMMA RestoreTypes ==
  ASSUME TTypeOK, NEW a \in Slots, RestoreCommit(a)
  PROVE  TTypeOK'
<1>1. UNCHANGED <<departments, lendings, reservations, requests>> /\ TFinish(a)
  BY DEF RestoreCommit
<1>2. \A i \in Items : items'[i].life = "absent" \/ items'[i].dept \in Departments
  BY RestoreRows DEF TTypeOK, TypeOK, RestoreCommit, Restored, RowExists
<1>3. TypeOK'
  BY <1>1, <1>2, RestoreRows DEF TTypeOK, TypeOK
<1>4. PlansReal'
  BY <1>1, FinishPlans, RestoreRows DEF TTypeOK
<1> QED
  BY <1>3, <1>4 DEF TTypeOK

LEMMA PurgeTypes ==
  ASSUME TTypeOK, NEW a \in Slots, PurgeCommit(a)
  PROVE  TTypeOK'
<1>1. UNCHANGED requests /\ TFinish(a)
  BY DEF PurgeCommit
<1>2. \A i \in Items : items'[i].life = "absent" \/ items'[i].dept \in Departments
  BY PurgeRows DEF TTypeOK, TypeOK, PlansReal
<1>3. departments' \subseteq Departments
  BY PurgeRows DEF TTypeOK, TypeOK
<1>4. TypeOK'
  BY <1>1, <1>2, <1>3, PurgeRows, PurgeLendings, PurgeReservations DEF TTypeOK, TypeOK
<1>5. PlansReal'
  BY <1>1, FinishPlans, PurgeRows DEF TTypeOK
<1> QED
  BY <1>4, <1>5 DEF TTypeOK

\* Every step of desk and trash can keeps the types.
LEMMA TTypeNext ==
  ASSUME TTypeOK, [TNext]_tvars
  PROVE  TTypeOK'
<1>1. CASE [Next]_vars /\ UNCHANGED trash
  <2>1. TypeOK'
    BY <1>1, TypeNext DEF TTypeOK
  <2>2. \A a \in Slots : trash[a].items \subseteq Items
    BY DEF TTypeOK, PlansReal, TrashRequest
  <2> QED
    BY <1>1, <2>1, <2>2, DeskKeepsRows DEF TTypeOK, PlansReal
<1>2. ASSUME NEW a \in Slots, Manage(a)
      PROVE  TTypeOK'
  <2>1. CASE TAbort(a)
    <3>1. TypeOK'
      BY <2>1, TypeNext DEF TAbort, TTypeOK
    <3> QED
      BY <2>1, <3>1, FinishPlans DEF TAbort, vars, TTypeOK
  <2>2. CASE RestoreCommit(a)
    BY <2>2, RestoreTypes
  <2>3. CASE PurgeCommit(a)
    BY <2>3, PurgeTypes
  <2> QED
    BY <1>2, <2>1, <2>2, <2>3, LoadStores DEF Manage
<1> QED
  BY <1>1, <1>2 DEF TNext, tvars

LEMMA TTypeInit == TInit => TTypeOK
<1>1. TInit => PlansReal
  BY NoTrashOK DEF TInit, PlansReal, NoTrash
<1> QED
  BY <1>1, TypeInit DEF TInit, TTypeOK

LEMMA TTypeHolds == TSpec => []TTypeOK
BY TTypeInit, TTypeNext, PTL DEF TSpec

\* The tables of the desk keep their types with trash requests running beside it:
\* above all, every item that was ever created keeps a department to belong to.
THEOREM DeskTypesHold == TSpec => []TypeOK
<1>1. TTypeOK => TypeOK
  BY DEF TTypeOK
<1> QED
  BY <1>1, TTypeHolds, PTL

-----------------------------------------------------------------------------
(***************************************************************************)
(* No dangling reference.  The desk inserts a row only if the rows it      *)
(* points to exist at that moment (AdmitsLending, AdmitsReservation), and  *)
(* it never takes a row away.  A purge nulls what points to the rows it    *)
(* deletes; a reservation it did not see stops it.                         *)
(***************************************************************************)
DanglingInv == TTypeOK /\ UnusedPointsNowhere /\ NoDanglingReference

\* The desk leaves the foreign keys of a lending alone or sets them to rows that exist.
LEMMA DeskLendingKeys ==
  ASSUME TypeOK, [Next]_vars, NEW l \in Lendings
  PROVE  \/ /\ lendings'[l].item = lendings[l].item
            /\ lendings'[l].worker = lendings[l].worker
            /\ lendings'[l].dept = lendings[l].dept
         \/ RowsExist(lendings'[l].item, lendings'[l].worker, lendings'[l].dept)
<1> DEFINE Same == /\ lendings'[l].item = lendings[l].item
                   /\ lendings'[l].worker = lendings[l].worker
                   /\ lendings'[l].dept = lendings[l].dept
           Goal == Same \/ RowsExist(lendings'[l].item, lendings'[l].worker, lendings'[l].dept)
<1>0. lendings \in [Lendings -> Lending]
  BY DEF TypeOK
<1>1. ASSUME UNCHANGED lendings
      PROVE  Goal
  BY <1>1
<1>2. ASSUME NEW r \in Requests, NEW k \in Lendings, LendCommit(r, k)
      PROVE  Goal
  BY <1>0, <1>2 DEF LendCommit, AdmitsLending, RowsExist
<1>3. ASSUME NEW r \in Requests, ReturnCommit(r)
      PROVE  Goal
  BY <1>0, <1>3 DEF ReturnCommit, Lending
<1>4. ASSUME NEW r \in Requests, NEW rowFor \in [requests[r].resvs -> Lendings],
             PickupCommit(r, rowFor)
      PROVE  Goal
  <2>1. CASE \E v \in requests[r].resvs : rowFor[v] = l
    <3>1. PICK v \in requests[r].resvs : lendings'[l] =
            [state |-> "open", item |-> reservations[v].item,
             worker |-> requests[r].worker, dept |-> reservations[v].dept]
      BY <1>4, <2>1 DEF PickupCommit
    <3>2. RowsExist(reservations[v].item, requests[r].worker, reservations[v].dept)
      BY <1>4 DEF PickupCommit, AdmitsLending
    <3>3. /\ lendings'[l].item = reservations[v].item
          /\ lendings'[l].worker = requests[r].worker
          /\ lendings'[l].dept = reservations[v].dept
      BY <3>1
    <3> QED
      BY <3>2, <3>3
  <2>2. CASE ~ \E v \in requests[r].resvs : rowFor[v] = l
    BY <1>4, <2>2 DEF PickupCommit
  <2> QED
    BY <2>1, <2>2
<1>5. ASSUME NEW r \in Requests, Handle(r)
      PROVE  Goal
  <2> HIDE DEF Goal
  <2> QED
    BY <1>1, <1>2, <1>3, <1>4, <1>5
       DEF Handle, Abort, Load, LendCheck, ReturnFind, ReserveCheck, ReserveCommit,
           CancelLoad, PickupRemoveLoad, CancelCommit, PickupLoad, EditCheck,
           EditCommit, DeleteCommit, Keep, tables
<1> QED
  BY <1>1, <1>5 DEF Next, CreateItem, ToggleWorker, DeleteWorker, vars

\* The same of a reservation, which points nowhere until it is used.
LEMMA DeskReservationKeys ==
  ASSUME TypeOK, [Next]_vars, NEW v \in Reservations
  PROVE  \/ /\ reservations'[v].used = reservations[v].used
            /\ reservations'[v].item = reservations[v].item
            /\ reservations'[v].worker = reservations[v].worker
            /\ reservations'[v].dept = reservations[v].dept
         \/ /\ reservations'[v].used
            /\ RowsExist(reservations'[v].item, reservations'[v].worker, reservations'[v].dept)
<1> DEFINE Goal == \/ /\ reservations'[v].used = reservations[v].used
                      /\ reservations'[v].item = reservations[v].item
                      /\ reservations'[v].worker = reservations[v].worker
                      /\ reservations'[v].dept = reservations[v].dept
                   \/ /\ reservations'[v].used
                      /\ RowsExist(reservations'[v].item, reservations'[v].worker,
                                   reservations'[v].dept)
<1>0. reservations \in [Reservations -> Reservation]
  BY DEF TypeOK
<1>1. ASSUME \/ reservations'[v] = reservations[v]
             \/ reservations'[v] = [reservations[v] EXCEPT !.fulfilled = TRUE]
             \/ reservations'[v] = [reservations[v] EXCEPT !.cancelled = TRUE]
      PROVE  Goal
  <2>1. reservations[v] \in Reservation
    BY <1>0
  <2> QED
    BY <1>1, <2>1 DEF Reservation
<1>2. ASSUME NEW r \in Requests, NEW k \in Reservations, ReserveCommit(r, k)
      PROVE  Goal
  BY <1>0, <1>2 DEF ReserveCommit, AdmitsReservation, RowsExist
<1>3. ASSUME NEW r \in Requests,
             \/ \E l \in Lendings : LendCommit(r, l)
             \/ CancelCommit(r)
             \/ \E rowFor \in [requests[r].resvs -> Lendings] : PickupCommit(r, rowFor)
      PROVE  Goal
  <2> HIDE DEF Goal
  <2> QED
    BY <1>1, <1>3 DEF LendCommit, CancelCommit, PickupCommit
<1>4. ASSUME NEW r \in Requests, Handle(r)
      PROVE  Goal
  <2> HIDE DEF Goal
  <2> QED
    BY <1>1, <1>2, <1>3, <1>4
       DEF Handle, Abort, Load, LendCheck, ReturnFind, ReturnCommit, ReserveCheck,
           CancelLoad, PickupRemoveLoad, PickupLoad, EditCheck, EditCommit,
           DeleteCommit, Keep, tables
<1> QED
  BY <1>1, <1>4 DEF Next, CreateItem, ToggleWorker, DeleteWorker, vars

\* A row that points to rows that exist still does when none of them goes.
LEMMA StillExisting ==
  ASSUME NEW row, row.item \in Items \cup {None}, row.worker \in Workers \cup {None},
         Existing(row),
         \A i \in Items : RowExists(i) => RowExists(i)',
         \A w \in Workers : workers[w] # "purged" => workers'[w] # "purged",
         departments' = departments
  PROVE  Existing(row)'
BY DEF Existing

\* Keys of rows that exist dangle neither.
LEMMA KeptKeysExist ==
  ASSUME NEW row, NEW new, Existing(row),
         \/ new.item = row.item /\ new.worker = row.worker /\ new.dept = row.dept
         \/ RowsExist(new.item, new.worker, new.dept)
  PROVE  Existing(new)
BY DEF Existing, RowsExist

LEMMA DeskDangling ==
  ASSUME DanglingInv, [Next]_vars
  PROVE  UnusedPointsNowhere' /\ NoDanglingReference'
<1>0. TypeOK /\ TypeOK'
  BY TypeNext DEF DanglingInv, TTypeOK
<1>1. ASSUME NEW l \in Lendings
      PROVE  Existing(lendings[l])'
  <2>1. PICK new : new = lendings'[l]
    OBVIOUS
  <2>2. Existing(new)
    BY <1>0, <2>1, DeskLendingKeys, KeptKeysExist DEF DanglingInv, NoDanglingReference
  <2>3. new.item \in Items \cup {None} /\ new.worker \in Workers \cup {None}
    BY <1>0, <2>1 DEF TypeOK, Lending
  <2>4. Existing(new)'
    BY <1>0, <2>2, <2>3, DeskKeepsRows, StillExisting
  <2> QED
    BY <2>1, <2>4
<1>2. ASSUME NEW v \in Reservations
      PROVE  Existing(reservations[v])'
  <2>1. PICK new : new = reservations'[v]
    OBVIOUS
  <2>2. Existing(new)
    BY <1>0, <2>1, DeskReservationKeys, KeptKeysExist DEF DanglingInv, NoDanglingReference
  <2>3. new.item \in Items \cup {None} /\ new.worker \in Workers \cup {None}
    BY <1>0, <2>1 DEF TypeOK, Reservation
  <2>4. Existing(new)'
    BY <1>0, <2>2, <2>3, DeskKeepsRows, StillExisting
  <2> QED
    BY <2>1, <2>4
<1>3. UnusedPointsNowhere'
  BY <1>0, DeskReservationKeys DEF DanglingInv, UnusedPointsNowhere
<1> QED
  BY <1>1, <1>2, <1>3 DEF NoDanglingReference

\* A row outside the plan of a purge keeps what it points to, and a row that the
\* purge detached points to nothing it deletes.
LEMMA SparedExisting ==
  ASSUME TTypeOK, NEW a \in Slots, PurgeCommit(a), NEW row, Existing(row),
         row.item \in (Items \cup {None}) \ trash[a].items,
         row.worker \in (Workers \cup {None}) \ trash[a].users,
         row.dept \notin trash[a].depts
  PROVE  Existing(row)'
BY PurgeRows DEF Existing, RowExists, TTypeOK

LEMMA DetachedExisting ==
  ASSUME TTypeOK, NEW a \in Slots, PurgeCommit(a), NEW row, Existing(row),
         row.item \in Items \cup {None}, row.worker \in Workers \cup {None}, NEW new,
         new.item = NullIf(row.item, trash[a].items),
         new.worker = NullIf(row.worker, trash[a].users),
         new.dept = NullIf(row.dept, trash[a].depts)
  PROVE  Existing(new)'
<1>1. new.item # None => /\ new.item \in Items /\ new.item \notin trash[a].items
                         /\ RowExists(new.item)
  BY DEF NullIf, Existing
<1>2. new.worker # None => /\ new.worker \in Workers /\ new.worker \notin trash[a].users
                           /\ workers[new.worker] # "purged"
  BY DEF NullIf, Existing
<1>3. new.dept # None => new.dept \notin trash[a].depts /\ new.dept \in departments
  BY DEF NullIf, Existing
<1> QED
  BY <1>1, <1>2, <1>3, PurgeRows DEF Existing, RowExists, TTypeOK

LEMMA PurgeDangling ==
  ASSUME DanglingInv, NEW a \in Slots, PurgeCommit(a)
  PROVE  UnusedPointsNowhere' /\ NoDanglingReference'
<1>0. TTypeOK /\ TypeOK
  BY DEF DanglingInv, TTypeOK
<1>1. ASSUME NEW l \in Lendings
      PROVE  Existing(lendings[l])'
  <2>1. PICK new : new = lendings'[l]
    OBVIOUS
  <2>2. PICK row : row = lendings[l]
    OBVIOUS
  <2>3. Existing(row) /\ row.item \in Items \cup {None} /\ row.worker \in Workers \cup {None}
    BY <1>0, <2>2 DEF TypeOK, Lending, DanglingInv, NoDanglingReference
  <2>4. Existing(new)'
    BY <1>0, <2>1, <2>2, <2>3, PurgeLendings, DetachedExisting
  <2> QED
    BY <2>1, <2>4
<1>2. ASSUME NEW v \in Reservations
      PROVE  /\ Existing(reservations[v])'
             /\ ~reservations'[v].used => /\ reservations'[v].item = None
                                          /\ reservations'[v].worker = None
                                          /\ reservations'[v].dept = None
  <2>2. PICK row : row = reservations[v]
    OBVIOUS
  <2>3. Existing(row) /\ row.item \in Items \cup {None} /\ row.worker \in Workers \cup {None}
    BY <1>0, <2>2 DEF TypeOK, Reservation, DanglingInv, NoDanglingReference
  <2>4. ~row.used => row.item = None /\ row.worker = None /\ row.dept = None
    BY <2>2 DEF DanglingInv, UnusedPointsNowhere
  <2>5. CASE v \in trash[a].seenR
    <3>1. PICK new : new = reservations'[v]
      OBVIOUS
    <3>2. /\ new.used = row.used
          /\ new.item = NullIf(row.item, trash[a].items)
          /\ new.worker = NullIf(row.worker, trash[a].users)
          /\ new.dept = NullIf(row.dept, trash[a].depts)
      BY <1>0, <2>2, <2>5, <3>1, PurgeReservations
    <3>3. Existing(new)'
      BY <1>0, <2>3, <3>2, DetachedExisting
    <3> QED
      BY <2>4, <3>1, <3>2, <3>3 DEF NullIf
  <2>6. CASE v \notin trash[a].seenR
    <3>1. reservations'[v] = row
      BY <1>0, <2>2, <2>6, PurgeReservations
    <3>2. row.used => /\ row.item \notin trash[a].items
                      /\ row.worker \notin trash[a].users
                      /\ row.dept \notin trash[a].depts
      BY <2>2, <2>6 DEF PurgeCommit, ForeignKeysHold, PointsTo
    <3>3. CASE row.used
      BY <1>0, <2>3, <3>1, <3>2, <3>3, SparedExisting
    <3>4. CASE ~row.used
      BY <2>4, <3>1, <3>4 DEF Existing
    <3> QED
      BY <3>3, <3>4
  <2> QED
    BY <2>5, <2>6
<1> QED
  BY <1>1, <1>2 DEF NoDanglingReference, UnusedPointsNowhere

LEMMA DanglingNext ==
  ASSUME DanglingInv, [TNext]_tvars
  PROVE  DanglingInv'
<1>0. TTypeOK'
  BY TTypeNext DEF DanglingInv
<1>1. CASE [Next]_vars
  BY <1>0, <1>1, DeskDangling DEF DanglingInv
<1>2. ASSUME NEW a \in Slots, PurgeCommit(a)
      PROVE  DanglingInv'
  BY <1>0, <1>2, PurgeDangling DEF DanglingInv
<1>3. ASSUME NEW a \in Slots, RestoreCommit(a)
      PROVE  DanglingInv'
  <2>1. /\ \A i \in Items : RowExists(i) => RowExists(i)'
        /\ \A w \in Workers : workers[w] # "purged" => workers'[w] # "purged"
        /\ UNCHANGED <<departments, lendings, reservations>>
    BY <1>3, RestoreRows DEF DanglingInv, TTypeOK, RestoreCommit
  <2>2. ASSUME NEW l \in Lendings
        PROVE  Existing(lendings[l])'
    <3>1. PICK row : row = lendings[l]
      OBVIOUS
    <3>2. Existing(row) /\ row.item \in Items \cup {None} /\ row.worker \in Workers \cup {None}
      BY <3>1 DEF DanglingInv, TTypeOK, TypeOK, Lending, NoDanglingReference
    <3> QED
      BY <2>1, <3>1, <3>2, StillExisting
  <2>3. ASSUME NEW v \in Reservations
        PROVE  Existing(reservations[v])'
    <3>1. PICK row : row = reservations[v]
      OBVIOUS
    <3>2. Existing(row) /\ row.item \in Items \cup {None} /\ row.worker \in Workers \cup {None}
      BY <3>1 DEF DanglingInv, TTypeOK, TypeOK, Reservation, NoDanglingReference
    <3> QED
      BY <2>1, <3>1, <3>2, StillExisting
  <2>4. UnusedPointsNowhere'
    BY <2>1 DEF DanglingInv, UnusedPointsNowhere
  <2> QED
    BY <1>0, <2>2, <2>3, <2>4 DEF DanglingInv, NoDanglingReference
<1>4. ASSUME NEW a \in Slots, Manage(a)
      PROVE  DanglingInv'
  BY <1>1, <1>2, <1>3, <1>4
     DEF Manage, TAbort, RestoreItemLoad, RestoreUserLoad, PurgeItemLoad,
         PurgeUserLoad, PurgeDepartmentLoad, PurgePlan, TKeep
<1> QED
  BY <1>1, <1>4 DEF TNext, tvars

LEMMA DanglingInit == TInit => DanglingInv
<1> SUFFICES ASSUME TInit PROVE DanglingInv
  OBVIOUS
<1>1. /\ \A l \in Lendings : lendings[l] = UnusedLending
      /\ \A v \in Reservations : reservations[v] = UnusedReservation
  BY DEF TInit, Init
<1>2. Existing(UnusedLending) /\ Existing(UnusedReservation)
  BY DEF Existing, UnusedLending, UnusedReservation
<1>3. UnusedPointsNowhere
  BY <1>1 DEF UnusedPointsNowhere, UnusedReservation
<1> QED
  BY <1>1, <1>2, <1>3, TTypeInit DEF DanglingInv, NoDanglingReference

\* However trash requests and desk requests interleave, the history never points
\* to a row that was purged: a purge detaches what it found, and the foreign keys
\* stop it when something came later (purge_item, purge_user, purge_department).
THEOREM NoDanglingReferenceHolds == TSpec => []NoDanglingReference
<1>1. DanglingInv => NoDanglingReference
  BY DEF DanglingInv
<1> QED
  BY <1>1, DanglingInit, DanglingNext, PTL DEF TSpec

-----------------------------------------------------------------------------
(***************************************************************************)
(* The history.  A used row is followed through each step: the desk only   *)
(* ends it, a purge only detaches and closes it.                           *)
(***************************************************************************)
LEMMA DeskKeepsHistory ==
  ASSUME TypeOK, [Next]_vars
  PROVE  KeepsHistory
<1>1. ASSUME NEW l \in Lendings, lendings[l].state # "unused"
      PROVE  /\ lendings'[l].state # "unused"
             /\ lendings[l].state = "returned" => lendings'[l].state = "returned"
             /\ lendings'[l].item = lendings[l].item
             /\ lendings'[l].worker = lendings[l].worker
  <2>1. lendings[l] \in Lending
    BY DEF TypeOK
  <2>2. \/ lendings'[l] = lendings[l]
        \/ lendings'[l] = [lendings[l] EXCEPT !.state = "returned"]
    BY <1>1, LendingStep
  <2> QED
    BY <1>1, <2>1, <2>2 DEF Lending
<1>2. ASSUME NEW v \in Reservations, reservations[v].used
      PROVE  /\ reservations'[v].used
             /\ ~IsOpen(v) => ~IsOpen(v)'
             /\ reservations'[v].item = reservations[v].item
             /\ reservations'[v].worker = reservations[v].worker
  <2>1. reservations[v] \in Reservation
    BY DEF TypeOK
  <2>2. \/ reservations'[v] = reservations[v]
        \/ reservations'[v] = [reservations[v] EXCEPT !.fulfilled = TRUE]
        \/ reservations'[v] = [reservations[v] EXCEPT !.cancelled = TRUE]
    BY <1>2, ReservationStep
  <2> QED
    BY <1>2, <2>1, <2>2, UsedStays DEF Reservation, IsOpen
<1> QED
  BY <1>1, <1>2 DEF KeepsHistory

LEMMA PurgeKeepsHistory ==
  ASSUME TypeOK, NEW a \in Slots, PurgeCommit(a)
  PROVE  KeepsHistory
<1>1. ASSUME NEW l \in Lendings, lendings[l].state # "unused"
      PROVE  /\ lendings'[l].state # "unused"
             /\ lendings[l].state = "returned" => lendings'[l].state = "returned"
             /\ \/ lendings'[l].item = lendings[l].item
                \/ lendings'[l].item = None /\ items'[lendings[l].item].life = "purged"
             /\ \/ lendings'[l].worker = lendings[l].worker
                \/ lendings'[l].worker = None /\ workers'[lendings[l].worker] = "purged"
  <2>1. lendings[l].item \in Items \cup {None} /\ lendings[l].worker \in Workers \cup {None}
    BY DEF TypeOK, Lending
  <2>2. lendings'[l].state \in {lendings[l].state, "returned"}
    BY PurgeLendings
  <2>3. /\ lendings'[l].item = NullIf(lendings[l].item, trash[a].items)
        /\ lendings'[l].worker = NullIf(lendings[l].worker, trash[a].users)
    BY PurgeLendings
  <2> QED
    BY <1>1, <2>1, <2>2, <2>3, PurgeRows DEF NullIf
<1>2. ASSUME NEW v \in Reservations, reservations[v].used
      PROVE  /\ reservations'[v].used
             /\ ~IsOpen(v) => ~IsOpen(v)'
             /\ \/ reservations'[v].item = reservations[v].item
                \/ reservations'[v].item = None /\ items'[reservations[v].item].life = "purged"
             /\ \/ reservations'[v].worker = reservations[v].worker
                \/ /\ reservations'[v].worker = None
                   /\ workers'[reservations[v].worker] = "purged"
  <2>1. /\ reservations[v].item \in Items \cup {None}
        /\ reservations[v].worker \in Workers \cup {None}
    BY DEF TypeOK, Reservation
  <2>2. CASE v \in trash[a].seenR
    BY <1>2, <2>1, <2>2, PurgeReservations, PurgeRows DEF NullIf, IsOpen
  <2>3. CASE v \notin trash[a].seenR
    BY <1>2, <2>3, PurgeReservations DEF IsOpen
  <2> QED
    BY <2>2, <2>3
<1> QED
  BY <1>1, <1>2 DEF KeepsHistory

\* However requests interleave, no step tears the history: used rows stay, ends
\* are final, and an item or worker is lost from a row only in the step that
\* purges it.
THEOREM HistoryKept == TSpec => HistoryIsKept
<1>1. TypeOK /\ [TNext]_tvars => [KeepsHistory]_tvars
  <2> SUFFICES ASSUME TypeOK, [TNext]_tvars PROVE KeepsHistory \/ UNCHANGED tvars
    OBVIOUS
  <2>1. ASSUME [Next]_vars
        PROVE  KeepsHistory
    BY <2>1, DeskKeepsHistory
  <2>2. ASSUME NEW a \in Slots, PurgeCommit(a)
        PROVE  KeepsHistory
    BY <2>2, PurgeKeepsHistory
  <2>3. ASSUME NEW a \in Slots, RestoreCommit(a)
        PROVE  KeepsHistory
    BY <2>3 DEF RestoreCommit, KeepsHistory, IsOpen
  <2>4. ASSUME NEW a \in Slots, Manage(a)
        PROVE  KeepsHistory
    BY <2>1, <2>2, <2>3, <2>4
       DEF Manage, TAbort, RestoreItemLoad, RestoreUserLoad, PurgeItemLoad,
           PurgeUserLoad, PurgeDepartmentLoad, PurgePlan, TKeep
  <2> QED
    BY <2>1, <2>4 DEF TNext
<1> QED
  BY <1>1, DeskTypesHold, PTL DEF TSpec, HistoryIsKept

-----------------------------------------------------------------------------
(***************************************************************************)
(* A purge opens no row, so the desk's promise survives it.                *)
(***************************************************************************)
LEMMA PurgeOpensNothing ==
  ASSUME TypeOK, NEW a \in Slots, PurgeCommit(a), NEW i \in Items
  PROVE  /\ OpenLendings(i)' \subseteq OpenLendings(i)
         /\ OpenReservations(i)' \subseteq OpenReservations(i)
<1>1. ASSUME NEW l \in Lendings, lendings'[l].state = "open", lendings'[l].item = i
      PROVE  lendings[l].state = "open" /\ lendings[l].item = i
  BY <1>1, PurgeLendings, NoneAssumption DEF NullIf
<1>2. ASSUME NEW v \in Reservations, IsOpen(v)', reservations'[v].item = i
      PROVE  IsOpen(v) /\ reservations[v].item = i
  <2>1. CASE v \in trash[a].seenR
    BY <1>2, <2>1, PurgeReservations, NoneAssumption DEF NullIf, IsOpen
  <2>2. CASE v \notin trash[a].seenR
    BY <1>2, <2>2, PurgeReservations DEF IsOpen
  <2> QED
    BY <2>1, <2>2
<1> QED
  BY <1>1, <1>2 DEF OpenLendings, OpenReservations

\* With restores and purges running beside the desk, too, of the rows of an item
\* at most one of each kind is open.
THEOREM OneOpenRowWithTrash == TSpec => []OneOpenRow
<1>1. TypeOK /\ OneOpenRow /\ [TNext]_tvars => OneOpenRow'
  <2> SUFFICES ASSUME TypeOK, OneOpenRow, [TNext]_tvars PROVE OneOpenRow'
    OBVIOUS
  <2>1. CASE [Next]_vars
    BY <2>1, OneOpenLendingNext, OneOpenReservationNext DEF OneOpenRow
  <2>2. ASSUME NEW a \in Slots, PurgeCommit(a)
        PROVE  OneOpenRow'
    BY <2>2, PurgeOpensNothing DEF OneOpenRow, OneOpenLending, OneOpenReservation
  <2>3. ASSUME NEW a \in Slots, RestoreCommit(a)
        PROVE  OneOpenRow'
    BY <2>3 DEF RestoreCommit, OneOpenRow, OneOpenLending, OneOpenReservation,
                OpenLendings, OpenReservations, IsOpen
  <2>4. ASSUME NEW a \in Slots, Manage(a)
        PROVE  OneOpenRow'
    BY <2>1, <2>2, <2>3, <2>4
       DEF Manage, TAbort, RestoreItemLoad, RestoreUserLoad, PurgeItemLoad,
           PurgeUserLoad, PurgeDepartmentLoad, PurgePlan, TKeep
  <2> QED
    BY <2>1, <2>4 DEF TNext, tvars
<1>2. TInit => OneOpenRow
  BY DEF TInit, Init, UnusedLending, UnusedReservation, OneOpenRow, OneOpenLending,
         OneOpenReservation, OpenLendings, OpenReservations, IsOpen
<1> QED
  BY <1>1, <1>2, DeskTypesHold, PTL DEF TSpec

-----------------------------------------------------------------------------
(***************************************************************************)
(* While requests do not overlap.  What the only request in flight has     *)
(* read is still true, be it one of the desk (Alone) or a purge (Planned), *)
(* and every open row is whole.                                            *)
(***************************************************************************)
LendingWhole(l) == lendings[l].state = "open" =>
  /\ lendings[l].item # None
  /\ lendings[l].worker # None
  /\ lendings[l].dept = items[lendings[l].item].dept

ReservationWhole(v) ==
  /\ IsOpen(v) => /\ reservations[v].item # None
                  /\ reservations[v].worker # None
                  /\ reservations[v].dept = items[reservations[v].item].dept
  /\ ~(reservations[v].fulfilled /\ reservations[v].cancelled)

Whole == /\ \A l \in Lendings : LendingWhole(l)
         /\ \A v \in Reservations : ReservationWhole(v)

\* A purge closes every open row that points to what it deletes.
Planned(p) == p.pc = "purge" =>
  /\ \A l \in Lendings :
       lendings[l].state = "open" /\ PointsTo(lendings[l], p.items, p.users, p.depts)
         => l \in p.closeL
  /\ \A v \in Reservations :
       IsOpen(v) /\ PointsTo(reservations[v], p.items, p.users, p.depts)
         => v \in p.closeR
  /\ \A v \in p.closeR : IsOpen(v)

OneAtATime == /\ LentShows
              /\ Whole
              /\ \A r \in Requests : Alone(requests[r])
              /\ \A a \in Slots : Planned(trash[a])

TSerial == ~overlapped => ~TOverlap /\ OneAtATime

\* The department of an item that has open rows does not change.
LEMMA DeskKeepsDepartment ==
  ASSUME TypeOK, \A r \in Requests : Alone(requests[r]), Next,
         NEW i \in Items, RowExists(i), OpenLendings(i) # {} \/ OpenReservations(i) # {}
  PROVE  items'[i].dept = items[i].dept
<1>0. items \in [Items -> Item] /\ items[i] \in Item
  BY DEF TypeOK
<1>1. ASSUME UNCHANGED items
      PROVE  items'[i].dept = items[i].dept
  BY <1>1
<1>2. ASSUME NEW r \in Requests,
             \/ \E l \in Lendings : LendCommit(r, l)
             \/ ReturnCommit(r)
             \/ \E rowFor \in [requests[r].resvs -> Lendings] : PickupCommit(r, rowFor)
             \/ DeleteCommit(r)
      PROVE  items'[i].dept = items[i].dept
  <2>1. CASE \E l \in Lendings : LendCommit(r, l)
    BY <1>0, <2>1 DEF LendCommit, Item
  <2>2. CASE ReturnCommit(r)
    BY <1>0, <2>2 DEF ReturnCommit, Item
  <2>3. CASE \E rowFor \in [requests[r].resvs -> Lendings] : PickupCommit(r, rowFor)
    BY <1>0, <2>3 DEF PickupCommit, Item
  <2>4. CASE DeleteCommit(r)
    BY <1>0, <2>4 DEF DeleteCommit, Item
  <2> QED
    BY <1>2, <2>1, <2>2, <2>3, <2>4
<1>3. ASSUME NEW r \in Requests, EditCommit(r)
      PROVE  items'[i].dept = items[i].dept
  <2>1. PICK j \in Items : j = requests[r].item
    BY <1>3 DEF EditCommit, At, TypeOK, KnowsItsRows
  <2>2. CASE i = j
    <3>1. requests[r].toDept = requests[r].dept
      BY <1>3, <2>1, <2>2 DEF EditCommit, At, Alone
    <3> QED
      BY <1>0, <1>3, <2>1, <2>2, <3>1 DEF EditCommit, Item
  <2>3. CASE i # j
    BY <1>0, <1>3, <2>1, <2>3 DEF EditCommit
  <2> QED
    BY <2>2, <2>3
<1>4. ASSUME NEW j \in Items, NEW d \in Departments, CreateItem(j, d)
      PROVE  items'[i].dept = items[i].dept
  BY <1>0, <1>4 DEF CreateItem, RowExists
<1>5. ASSUME NEW r \in Requests, Handle(r)
      PROVE  items'[i].dept = items[i].dept
  BY <1>1, <1>2, <1>3, <1>5
     DEF Handle, Abort, Load, LendCheck, ReturnFind, ReserveCheck, ReserveCommit,
         CancelLoad, PickupRemoveLoad, CancelCommit, PickupLoad, EditCheck, Keep, tables
<1> QED
  BY <1>1, <1>4, <1>5 DEF Next, ToggleWorker, DeleteWorker

\* A lending is opened with the item, the worker and the department of its item.
LEMMA DeskLendingWhole ==
  ASSUME TypeOK, LentShows, Whole, \A r \in Requests : Alone(requests[r]), Next,
         NEW l \in Lendings
  PROVE  LendingWhole(l)'
<1>0. /\ items \in [Items -> Item]
      /\ lendings \in [Lendings -> Lending] /\ lendings[l] \in Lending
      /\ reservations \in [Reservations -> Reservation]
  BY DEF TypeOK
<1>1. ASSUME lendings'[l] = lendings[l]
      PROVE  LendingWhole(l)'
  <2> SUFFICES ASSUME lendings[l].state = "open" PROVE LendingWhole(l)'
    BY <1>1 DEF LendingWhole
  <2>1. lendings[l].item \in Items /\ LendingWhole(l)
    BY <1>0 DEF Whole, LendingWhole, Lending
  <2>2. PICK i \in Items : i = lendings[l].item
    BY <2>1
  <2>3. l \in OpenLendings(i)
    BY <2>2 DEF OpenLendings
  <2>4. items'[i].dept = items[i].dept
    BY <2>3, DeskKeepsDepartment DEF LentShows
  <2> QED
    BY <1>1, <2>1, <2>2, <2>4 DEF LendingWhole
<1>2. ASSUME NEW r \in Requests, NEW k \in Lendings, LendCommit(r, k)
      PROVE  LendingWhole(l)'
  <2>1. CASE l = k
    <3>1. PICK i \in Items : i = requests[r].item
      BY <1>2 DEF LendCommit, At, TypeOK, KnowsItsRows
    <3>2. requests[r].worker \in Workers /\ items[i].dept = requests[r].dept
      BY <1>2, <3>1 DEF LendCommit, At, Alone, TypeOK, KnowsItsRows
    <3>3. items'[i].dept = items[i].dept
      BY <1>0, <1>2 DEF LendCommit, Item
    <3>4. /\ lendings'[l].item = i /\ lendings'[l].worker = requests[r].worker
          /\ lendings'[l].dept = requests[r].dept
      BY <1>0, <1>2, <2>1, <3>1 DEF LendCommit
    <3> QED
      BY <3>2, <3>3, <3>4, NoneAssumption DEF LendingWhole
  <2>2. CASE l # k
    BY <1>0, <1>1, <1>2, <2>2 DEF LendCommit
  <2> QED
    BY <2>1, <2>2
<1>3. ASSUME NEW r \in Requests, ReturnCommit(r)
      PROVE  LendingWhole(l)'
  <2>1. lendings'[l] = lendings[l] \/ lendings'[l].state # "open"
    BY <1>0, <1>3 DEF ReturnCommit, Lending
  <2> QED
    BY <1>1, <2>1 DEF LendingWhole
<1>4. ASSUME NEW r \in Requests, NEW rowFor \in [requests[r].resvs -> Lendings],
             PickupCommit(r, rowFor)
      PROVE  LendingWhole(l)'
  <2>1. CASE \E v \in requests[r].resvs : rowFor[v] = l
    <3>1. PICK v \in requests[r].resvs : lendings'[l] =
            [state |-> "open", item |-> reservations[v].item,
             worker |-> requests[r].worker, dept |-> reservations[v].dept]
      BY <1>4, <2>1 DEF PickupCommit
    <3>2. v \in Reservations /\ IsOpen(v) /\ requests[r].worker \in Workers
      BY <1>4 DEF PickupCommit, At, Alone, TypeOK, Request, KnowsItsRows
    <3>3. /\ reservations[v].item \in Items
          /\ reservations[v].dept = items[reservations[v].item].dept
      BY <1>0, <3>2 DEF Whole, ReservationWhole, Reservation
    <3>4. \A i \in Items : items'[i].dept = items[i].dept
      BY <1>0, <1>4 DEF PickupCommit, Item
    <3>5. /\ lendings'[l].item = reservations[v].item
          /\ lendings'[l].worker = requests[r].worker
          /\ lendings'[l].dept = reservations[v].dept
      BY <3>1
    <3> QED
      BY <3>2, <3>3, <3>4, <3>5, NoneAssumption DEF LendingWhole
  <2>2. CASE ~ \E v \in requests[r].resvs : rowFor[v] = l
    BY <1>1, <1>4, <2>2 DEF PickupCommit
  <2> QED
    BY <2>1, <2>2
<1>5. ASSUME NEW r \in Requests, Handle(r)
      PROVE  LendingWhole(l)'
  BY <1>1, <1>2, <1>3, <1>4, <1>5
     DEF Handle, Abort, Load, LendCheck, ReturnFind, ReserveCheck, ReserveCommit,
         CancelLoad, PickupRemoveLoad, CancelCommit, PickupLoad, EditCheck,
         EditCommit, DeleteCommit, Keep, tables
<1> QED
  BY <1>1, <1>5 DEF Next, CreateItem, ToggleWorker, DeleteWorker

\* So is a reservation, and only an open one is fulfilled or cancelled.
LEMMA DeskReservationWhole ==
  ASSUME TypeOK, NoDanglingReference, Whole, \A r \in Requests : Alone(requests[r]), Next,
         NEW v \in Reservations
  PROVE  ReservationWhole(v)'
<1>0. /\ items \in [Items -> Item]
      /\ reservations \in [Reservations -> Reservation] /\ reservations[v] \in Reservation
  BY DEF TypeOK
<1>1. ASSUME reservations'[v] = reservations[v]
      PROVE  ReservationWhole(v)'
  <2>1. CASE ~IsOpen(v)
    BY <1>1, <2>1 DEF Whole, ReservationWhole, IsOpen
  <2>2. CASE IsOpen(v)
    <3>1. reservations[v].item \in Items /\ ReservationWhole(v)
      BY <1>0, <2>2 DEF Whole, ReservationWhole, Reservation
    <3>2. PICK i \in Items : i = reservations[v].item
      BY <3>1
    <3>3. v \in OpenReservations(i) /\ RowExists(i)
      BY <2>2, <3>1, <3>2, NoneAssumption
         DEF OpenReservations, NoDanglingReference, Existing
    <3>4. items'[i].dept = items[i].dept
      BY <3>3, DeskKeepsDepartment
    <3> QED
      BY <1>1, <2>2, <3>1, <3>2, <3>4 DEF ReservationWhole, IsOpen
  <2> QED
    BY <2>1, <2>2
<1>2. ASSUME IsOpen(v),
             \/ reservations'[v] = [reservations[v] EXCEPT !.fulfilled = TRUE]
             \/ reservations'[v] = [reservations[v] EXCEPT !.cancelled = TRUE]
      PROVE  ReservationWhole(v)'
  BY <1>0, <1>2 DEF ReservationWhole, IsOpen, Reservation
<1>3. ASSUME NEW r \in Requests, NEW k \in Lendings, LendCommit(r, k)
      PROVE  ReservationWhole(v)'
  <2>1. \A u \in requests[r].resvs : IsOpen(u)
    BY <1>3 DEF LendCommit, At, Alone, OpenReservations
  <2> QED
    BY <1>1, <1>2, <1>3, <2>1 DEF LendCommit
<1>4. ASSUME NEW r \in Requests, NEW rowFor \in [requests[r].resvs -> Lendings],
             PickupCommit(r, rowFor)
      PROVE  ReservationWhole(v)'
  <2>1. \A u \in requests[r].resvs : IsOpen(u)
    BY <1>4 DEF PickupCommit, At, Alone
  <2> QED
    BY <1>1, <1>2, <1>4, <2>1 DEF PickupCommit
<1>5. ASSUME NEW r \in Requests, CancelCommit(r)
      PROVE  ReservationWhole(v)'
  <2>1. \A u \in requests[r].resvs : IsOpen(u)
    BY <1>5 DEF CancelCommit, At, Alone
  <2> QED
    BY <1>1, <1>2, <1>5, <2>1 DEF CancelCommit
<1>6. ASSUME NEW r \in Requests, NEW k \in Reservations, ReserveCommit(r, k)
      PROVE  ReservationWhole(v)'
  <2>1. CASE v = k
    <3>1. PICK i \in Items : i = requests[r].item
      BY <1>6 DEF ReserveCommit, At, TypeOK, KnowsItsRows
    <3>2. requests[r].worker \in Workers /\ items[i].dept = requests[r].dept
      BY <1>6, <3>1 DEF ReserveCommit, At, Alone, TypeOK, KnowsItsRows
    <3>3. /\ reservations'[v].item = i /\ reservations'[v].worker = requests[r].worker
          /\ reservations'[v].dept = requests[r].dept
          /\ ~reservations'[v].fulfilled
          /\ UNCHANGED items
      BY <1>0, <1>6, <2>1, <3>1 DEF ReserveCommit
    <3> QED
      BY <3>2, <3>3, NoneAssumption DEF ReservationWhole
  <2>2. CASE v # k
    BY <1>0, <1>1, <1>6, <2>2 DEF ReserveCommit
  <2> QED
    BY <2>1, <2>2
<1>7. ASSUME NEW r \in Requests, Handle(r)
      PROVE  ReservationWhole(v)'
  BY <1>1, <1>3, <1>4, <1>5, <1>6, <1>7
     DEF Handle, Abort, Load, LendCheck, ReturnFind, ReturnCommit, ReserveCheck,
         CancelLoad, PickupRemoveLoad, PickupLoad, EditCheck,
         EditCommit, DeleteCommit, Keep, tables
<1> QED
  BY <1>1, <1>7 DEF Next, CreateItem, ToggleWorker, DeleteWorker

\* A step of the desk.
LEMMA DeskOneAtATime ==
  ASSUME TypeOK, OneOpenRow, NoDanglingReference, OneAtATime, Next, UNCHANGED trash,
         ~TOverlap, ~TOverlap'
  PROVE  OneAtATime'
<1>1. LentShows' /\ \A r \in Requests : Alone(requests[r])'
  BY DeskAlone DEF OneAtATime, OneOpenRow, TOverlap
<1>2. Whole'
  BY DeskLendingWhole, DeskReservationWhole DEF OneAtATime, Whole
<1>3. ASSUME NEW a \in Slots
      PROVE  Planned(trash[a])'
  <2>1. CASE TAt(a, "idle")
    BY <2>1 DEF TAt, Planned
  <2>2. CASE ~TAt(a, "idle")
    <3>1. \A r \in Requests : At(r, "idle") /\ At(r, "idle")'
      BY <2>2 DEF TOverlap, TAt
    <3>2. UNCHANGED <<lendings, reservations>>
      BY <3>1, HandleBusy DEF Next, CreateItem, ToggleWorker, DeleteWorker
    <3> QED
      BY <3>2 DEF OneAtATime, Planned, PointsTo, IsOpen
  <2> QED
    BY <2>1, <2>2
<1> QED
  BY <1>1, <1>2, <1>3 DEF OneAtATime

-----------------------------------------------------------------------------
(***************************************************************************)
(* Steps of a trash request: the desk is idle.                             *)
(***************************************************************************)
\* What a purge of some rows finds that is open.
LEMMA PlanIsPlanned ==
  ASSUME NEW S, NEW U, NEW D, NEW L, NEW R, NEW p,
         p.items = S, p.users = U, p.depts = D, p.closeL = L, p.closeR = R,
         \A l \in Lendings :
           lendings[l].state = "open" /\ PointsTo(lendings[l], S, U, D) => l \in L,
         \A v \in Reservations :
           IsOpen(v) /\ PointsTo(reservations[v], S, U, D) => v \in R,
         \A v \in R : IsOpen(v)
  PROVE  Planned(p)
BY DEF Planned

\* A trash request loads.
LEMMA LoadPlanned ==
  ASSUME TTypeOK, Whole, NEW a \in Slots,
         \/ \E i \in Items : RestoreItemLoad(a, i)
         \/ \E w \in Workers : RestoreUserLoad(a, w)
         \/ \E i \in Items, force \in Forces : PurgeItemLoad(a, i, force)
         \/ \E w \in Workers, force \in Forces : PurgeUserLoad(a, w, force)
         \/ \E d \in Departments, force \in Forces : PurgeDepartmentLoad(a, d, force)
  PROVE  Planned(trash'[a]) /\ UNCHANGED vars /\ trash'[a].pc # "idle"
         /\ \A b \in Slots \ {a} : trash'[b] = trash[b]
<1> DEFINE Goal == Planned(trash'[a]) /\ UNCHANGED vars /\ trash'[a].pc # "idle"
                   /\ \A b \in Slots \ {a} : trash'[b] = trash[b]
<1>0. trash \in [Slots -> TrashRequest] /\ TypeOK
  BY DEF TTypeOK, PlansReal
<1>1. ASSUME NEW i \in Items, RestoreItemLoad(a, i)
      PROVE  Goal
  BY <1>0, <1>1 DEF RestoreItemLoad, TKeep, NoTrash, Planned
<1>2. ASSUME NEW w \in Workers, RestoreUserLoad(a, w)
      PROVE  Goal
  BY <1>0, <1>2 DEF RestoreUserLoad, TKeep, NoTrash, Planned
<1>3. ASSUME NEW S, NEW U, NEW D, NEW L, NEW R, PurgePlan(a, S, U, D, L, R),
             \A l \in Lendings :
               lendings[l].state = "open" /\ PointsTo(lendings[l], S, U, D) => l \in L,
             \A v \in Reservations :
               IsOpen(v) /\ PointsTo(reservations[v], S, U, D) => v \in R,
             \A v \in R : IsOpen(v)
      PROVE  Goal
  <2>1. /\ trash'[a].items = S /\ trash'[a].users = U /\ trash'[a].depts = D
        /\ trash'[a].closeL = L /\ trash'[a].closeR = R
        /\ trash'[a].pc = "purge"
        /\ \A b \in Slots \ {a} : trash'[b] = trash[b]
        /\ UNCHANGED vars
    BY <1>0, <1>3 DEF PurgePlan, TKeep
  <2> QED
    BY <1>3, <2>1, PlanIsPlanned
<1>4. ASSUME NEW i \in Items, NEW force \in Forces, PurgeItemLoad(a, i, force)
      PROVE  Goal
  <2>1. PurgePlan(a, {i}, {}, {}, OpenLendings(i), OpenReservations(i))
    BY <1>4 DEF PurgeItemLoad
  <2> HIDE DEF Goal
  <2> QED
    BY <1>3, <2>1 DEF OpenLendings, OpenReservations, PointsTo
<1>5. ASSUME NEW w \in Workers, NEW force \in Forces, PurgeUserLoad(a, w, force)
      PROVE  Goal
  <2>1. PurgePlan(a, {}, {w}, {}, OpenLendingsOf(w), ReservationsOf(w))
    BY <1>5 DEF PurgeUserLoad
  <2> HIDE DEF Goal
  <2> QED
    BY <1>3, <2>1 DEF OpenLendingsOf, ReservationsOf, PointsTo
<1>6. ASSUME NEW d \in Departments, NEW force \in Forces, PurgeDepartmentLoad(a, d, force)
      PROVE  Goal
  <2> DEFINE S == {i \in Items : RowExists(i) /\ items[i].dept = d}
             U == {w \in Workers : workers[w] # "purged" /\ Home[w] = d}
             L == {l \in Lendings : /\ lendings[l].state = "open"
                                    /\ lendings[l].dept = d \/ lendings[l].worker \in U}
             R == {v \in Reservations : /\ IsOpen(v)
                                        /\ reservations[v].dept = d \/ reservations[v].worker \in U}
  <2>1. PurgePlan(a, S, U, {d}, L, R)
    BY <1>6 DEF PurgeDepartmentLoad
  <2>2. ASSUME NEW l \in Lendings, lendings[l].state = "open", PointsTo(lendings[l], S, U, {d})
        PROVE  l \in L
    BY <2>2 DEF Whole, LendingWhole, PointsTo
  <2>3. ASSUME NEW v \in Reservations, IsOpen(v), PointsTo(reservations[v], S, U, {d})
        PROVE  v \in R
    BY <2>3 DEF Whole, ReservationWhole, PointsTo
  <2>4. \A v \in R : IsOpen(v)
    OBVIOUS
  <2> HIDE DEF S, U, L, R, Goal
  <2> QED
    BY <1>3, <2>1, <2>2, <2>3, <2>4
<1> HIDE DEF Goal
<1>7. Goal
  BY <1>1, <1>2, <1>4, <1>5, <1>6
<1> QED
  BY <1>7 DEF Goal

\* A purge that commits.
LEMMA PurgeLeavesWhole ==
  ASSUME TTypeOK, OneAtATime, NEW a \in Slots, PurgeCommit(a)
  PROVE  LentShows' /\ Whole'
<1> DEFINE p == trash[a]
<1>0. /\ TypeOK
      /\ lendings \in [Lendings -> Lending] /\ reservations \in [Reservations -> Reservation]
  BY DEF TTypeOK, TypeOK
<1>1. /\ LentShows /\ Whole
      /\ \A l \in Lendings :
           lendings[l].state = "open" /\ PointsTo(lendings[l], p.items, p.users, p.depts)
             => l \in p.closeL
      /\ \A v \in Reservations :
           IsOpen(v) /\ PointsTo(reservations[v], p.items, p.users, p.depts) => v \in p.closeR
      /\ \A v \in p.closeR : IsOpen(v)
  BY DEF OneAtATime, Planned, PurgeCommit, TAt
<1>2. ASSUME NEW i \in Items, OpenLendings(i)' # {}
      PROVE  RowExists(i)' /\ items'[i].status = "ausgeliehen"
  <2>1. PICK l \in OpenLendings(i)' : TRUE
    BY <1>2
  <2>2. l \in Lendings /\ lendings'[l].item = i /\ l \in OpenLendings(i)
    BY <1>0, <2>1, PurgeOpensNothing DEF OpenLendings
  <2>3. i \notin p.items
    BY <1>0, <2>2, PurgeLendings, NoneAssumption DEF NullIf
  <2>4. RowExists(i) /\ items[i].status = "ausgeliehen" /\ items'[i] = items[i]
    BY <1>0, <1>1, <2>2, <2>3, PurgeRows DEF LentShows
  <2> QED
    BY <2>4 DEF RowExists
<1>3. ASSUME NEW l \in Lendings
      PROVE  LendingWhole(l)'
  <2> SUFFICES ASSUME lendings'[l].state = "open" PROVE LendingWhole(l)'
    BY DEF LendingWhole
  <2>1. lendings[l].state = "open" /\ l \notin p.closeL
    BY <1>0, PurgeLendings
  <2>2. ~PointsTo(lendings[l], p.items, p.users, p.depts)
    BY <1>1, <2>1
  <2>3. /\ lendings'[l].item = lendings[l].item
        /\ lendings'[l].worker = lendings[l].worker
        /\ lendings'[l].dept = lendings[l].dept
    BY <1>0, <2>2, PurgeLendings DEF NullIf, PointsTo
  <2>4. lendings[l].item \in Items /\ LendingWhole(l)
    BY <1>0, <1>1, <2>1 DEF Whole, LendingWhole, Lending
  <2>5. items'[lendings[l].item].dept = items[lendings[l].item].dept
    BY <1>0, <2>4, PurgeRows
  <2> QED
    BY <2>1, <2>3, <2>4, <2>5 DEF LendingWhole
<1>4. ASSUME NEW v \in Reservations
      PROVE  ReservationWhole(v)'
  <2>1. ~(reservations'[v].fulfilled /\ reservations'[v].cancelled)
    <3>1. CASE v \in p.seenR
      <4>1. reservations'[v].fulfilled = reservations[v].fulfilled
        BY <1>0, <3>1, PurgeReservations
      <4>2. reservations'[v].cancelled => reservations[v].cancelled \/ IsOpen(v)
        BY <1>0, <1>1, <3>1, PurgeReservations
      <4> QED
        BY <1>1, <4>1, <4>2 DEF Whole, ReservationWhole, IsOpen
    <3>2. CASE v \notin p.seenR
      BY <1>0, <1>1, <3>2, PurgeReservations DEF Whole, ReservationWhole
    <3> QED
      BY <3>1, <3>2
  <2>2. ASSUME IsOpen(v)'
        PROVE  /\ IsOpen(v)
               /\ reservations'[v].item = reservations[v].item
               /\ reservations'[v].worker = reservations[v].worker
               /\ reservations'[v].dept = reservations[v].dept
    <3>1. CASE v \in p.seenR
      <4>1. v \notin p.closeR /\ IsOpen(v)
        BY <1>0, <2>2, <3>1, PurgeReservations DEF IsOpen
      <4>2. ~PointsTo(reservations[v], p.items, p.users, p.depts)
        BY <1>1, <4>1
      <4> QED
        BY <1>0, <3>1, <4>1, <4>2, PurgeReservations DEF NullIf, PointsTo
    <3>2. CASE v \notin p.seenR
      BY <1>0, <2>2, <3>2, PurgeReservations DEF IsOpen
    <3> QED
      BY <3>1, <3>2
  <2>3. CASE IsOpen(v)'
    <3>1. reservations[v].item \in Items /\ ReservationWhole(v) /\ IsOpen(v)
      BY <1>0, <1>1, <2>2, <2>3 DEF Whole, ReservationWhole, Reservation
    <3>2. items'[reservations[v].item].dept = items[reservations[v].item].dept
      BY <1>0, <3>1, PurgeRows
    <3> QED
      BY <2>1, <2>2, <2>3, <3>1, <3>2 DEF ReservationWhole
  <2>4. CASE ~IsOpen(v)'
    BY <2>1, <2>4 DEF ReservationWhole
  <2> QED
    BY <2>3, <2>4
<1> QED
  BY <1>2, <1>3, <1>4 DEF LentShows, Whole

\* A restore that commits.
LEMMA RestoreLeavesWhole ==
  ASSUME TTypeOK, LentShows, Whole, NEW a \in Slots, RestoreCommit(a)
  PROVE  LentShows' /\ Whole'
<1>0. TypeOK /\ UNCHANGED <<lendings, reservations>>
  BY DEF TTypeOK, RestoreCommit
<1>1. LentShows'
  BY <1>0, RestoreRows DEF LentShows, OpenLendings
<1>2. ASSUME NEW l \in Lendings
      PROVE  LendingWhole(l)'
  <2>1. lendings[l].state = "open" => lendings[l].item \in Items
    BY <1>0 DEF Whole, LendingWhole, TypeOK, Lending
  <2> QED
    BY <1>0, <2>1, RestoreRows DEF Whole, LendingWhole
<1>3. ASSUME NEW v \in Reservations
      PROVE  ReservationWhole(v)'
  <2>1. IsOpen(v) => reservations[v].item \in Items
    BY <1>0 DEF Whole, ReservationWhole, TypeOK, Reservation
  <2>2. IsOpen(v)' <=> IsOpen(v)
    BY <1>0 DEF IsOpen
  <2> QED
    BY <1>0, <2>1, <2>2, RestoreRows DEF Whole, ReservationWhole
<1> QED
  BY <1>1, <1>2, <1>3 DEF Whole

LEMMA TrashOneAtATime ==
  ASSUME TTypeOK, OneAtATime, NEW a \in Slots, Manage(a), ~TOverlap, ~TOverlap'
  PROVE  OneAtATime'
<1>0. trash \in [Slots -> TrashRequest]
  BY DEF TTypeOK, PlansReal
<1>1. \/ /\ \/ TAbort(a)
            \/ RestoreCommit(a)
            \/ PurgeCommit(a)
         /\ TFinish(a) /\ ~TAt(a, "idle")
      \/ Planned(trash'[a]) /\ UNCHANGED vars /\ trash'[a].pc # "idle"
         /\ \A b \in Slots \ {a} : trash'[b] = trash[b]
  BY LoadPlanned DEF Manage, TAbort, RestoreCommit, PurgeCommit, TAt, OneAtATime
<1>2. UNCHANGED requests /\ \A r \in Requests : At(r, "idle")
  BY <1>1 DEF TOverlap, TAt, At, TAbort, RestoreCommit, PurgeCommit, vars
<1>3. \A b \in Slots \ {a} : trash'[b] = trash[b] /\ TAt(b, "idle")
  BY <1>0, <1>1 DEF TOverlap, TAt, TFinish
<1>4. \A r \in Requests : Alone(requests[r])'
  BY <1>2 DEF Alone, At
<1>5. Planned(trash[a])'
  <2>1. CASE Planned(trash'[a]) /\ UNCHANGED vars
    BY <2>1 DEF Planned, IsOpen, vars
  <2>2. CASE TFinish(a)
    BY <1>0, <2>2 DEF TFinish, NoTrash, Planned
  <2> QED
    BY <1>1, <2>1, <2>2
<1>6. \A b \in Slots \ {a} : Planned(trash[b])'
  BY <1>3 DEF TAt, Planned
<1>7. LentShows' /\ Whole'
  <2>1. CASE UNCHANGED vars
    BY <2>1 DEF OneAtATime, LentShows, Whole, LendingWhole, ReservationWhole,
                RowExists, OpenLendings, IsOpen, vars
  <2>2. CASE RestoreCommit(a)
    BY <2>2, RestoreLeavesWhole DEF OneAtATime
  <2>3. CASE PurgeCommit(a)
    BY <2>3, PurgeLeavesWhole
  <2> QED
    BY <1>1, <2>1, <2>2, <2>3 DEF TAbort
<1> QED
  BY <1>4, <1>5, <1>6, <1>7 DEF OneAtATime

LEMMA TSerialNext ==
  ASSUME TTypeOK, OneOpenRow, NoDanglingReference, TSerial, [THNext]_<<tvars, overlapped>>
  PROVE  TSerial'
<1> SUFFICES ASSUME ~overlapped'
             PROVE  ~TOverlap' /\ OneAtATime'
  BY DEF TSerial
<1>0. THNext \/ UNCHANGED <<tvars, overlapped>>
  OBVIOUS
<1>1. CASE THNext
  <2>1. ~overlapped /\ ~TOverlap'
    BY <1>1 DEF THNext
  <2>2. ~TOverlap /\ OneAtATime
    BY <2>1 DEF TSerial
  <2>3. CASE Next /\ UNCHANGED trash
    BY <2>1, <2>2, <2>3, DeskOneAtATime DEF TTypeOK
  <2>4. ASSUME NEW a \in Slots, Manage(a)
        PROVE  OneAtATime'
    BY <2>1, <2>2, <2>4, TrashOneAtATime
  <2> QED
    BY <1>1, <2>1, <2>3, <2>4 DEF THNext, TNext
<1>2. CASE UNCHANGED <<tvars, overlapped>>
  <2>1. ~overlapped /\ UNCHANGED <<vars, trash>>
    BY <1>2 DEF tvars
  <2>2. ~TOverlap /\ OneAtATime
    BY <2>1 DEF TSerial
  <2>3. ~TOverlap'
    BY <2>1, <2>2 DEF TOverlap, Overlap, At, TAt, vars
  <2>4. LentShows' /\ \A r \in Requests : Alone(requests[r])'
    BY <2>1, <2>2, UnchangedAlone DEF OneAtATime, TOverlap
  <2>5. Whole' /\ \A a \in Slots : Planned(trash[a])'
    BY <2>1, <2>2 DEF OneAtATime, Whole, LendingWhole, ReservationWhole, Planned,
                      PointsTo, IsOpen, vars
  <2> QED
    BY <2>3, <2>4, <2>5 DEF OneAtATime
<1> QED
  BY <1>0, <1>1, <1>2

LEMMA THistoryOnly == THSpec => TSpec
<1>1. THInit => TInit
  BY DEF THInit
<1>2. [THNext]_<<tvars, overlapped>> => [TNext]_tvars
  BY DEF THNext
<1> QED
  BY <1>1, <1>2, PTL DEF THSpec, TSpec

LEMMA TSerialInvariant == THSpec => [](TypeOK /\ TSerial)
<1>1. THInit => TSerial
  BY DEF THInit, TInit, Init, TSerial, TOverlap, Overlap, OneAtATime, LentShows, Whole,
         LendingWhole, ReservationWhole, Alone, Planned, OpenLendings, IsOpen,
         UnusedLending, UnusedReservation, Idle, NoTrash, At, TAt
<1>2. TTypeOK /\ OneOpenRow /\ NoDanglingReference /\ TSerial
        /\ [THNext]_<<tvars, overlapped>> => TSerial'
  BY TSerialNext
<1>3. TTypeOK => TypeOK
  BY DEF TTypeOK
<1> QED
  BY <1>1, <1>2, <1>3, THistoryOnly, TTypeHolds, OneOpenRowWithTrash,
     NoDanglingReferenceHolds, PTL DEF THSpec

\* As long as no requests have overlapped, what is open is whole whatever is
\* thrown away, restored or purged, with force or without.
THEOREM SerialOpenRowsHolds == THSpec => []SerialOpenRows
<1>1. TypeOK /\ TSerial => SerialOpenRows
  <2> SUFFICES ASSUME TypeOK, Whole
               PROVE  OpenHasParties /\ DepartmentsAgree /\ ReservationEndsOnce
    BY DEF TSerial, OneAtATime, SerialOpenRows
  <2> QED
    BY DEF Whole, LendingWhole, ReservationWhole, OpenHasParties, DepartmentsAgree,
           ReservationEndsOnce, OpenLendings, OpenReservations
<1> QED
  BY <1>1, TSerialInvariant, PTL

\* And an item that is out shows "ausgeliehen".
THEOREM SerialOutShowsLentHolds == THSpec => []SerialOutShowsLent
<1>1. TSerial => SerialOutShowsLent
  BY DEF TSerial, OneAtATime, LentShows, SerialOutShowsLent, OutShowsLent, OutShows
<1> QED
  BY <1>1, TSerialInvariant, PTL
=============================================================================
