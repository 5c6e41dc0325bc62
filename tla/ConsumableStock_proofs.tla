------------------------ MODULE ConsumableStock_proofs ------------------------
(***************************************************************************)
(* Theorems about ConsumableStock for any consumables, rows, amounts and   *)
(* requests.  The invariant is about what a request knows after each of    *)
(* its queries (Knows), which rests on the lock of the stock row: from its *)
(* UPDATE to the end of its transaction nobody else changes the amount,    *)
(* purges the row, or uses up a reservation that it found.                 *)
(***************************************************************************)
EXTENDS MCConsumableStock, FiniteSetTheorems, TLAPS

\* The UPDATE was executed and the transaction has not ended.
Holding == {"consume.find", "consume.commit", "adjust.commit"}

\* What the UPDATE of a request has locked is there, and takes the new amount.
HoldsRow(r, q) ==
  /\ lock[q.consumable] = r
  /\ RowExists(q.consumable)
  /\ stock[q.consumable].quantity + q.delta \in 0..MaxStock

\* The reservations a withdrawal is about to fulfil: its own one, still open to it.
FoundOwn(q) ==
  /\ \A v, x \in q.resvs : v = x
  /\ \A v \in q.resvs : /\ reservations[v].consumable = q.consumable
                        /\ reservations[v].worker = q.worker
                        /\ ~reservations[v].fulfilled

\* Every reservation that a purge is about to detach is one it cancels, unless
\* it is closed.
SeenClosed(q) ==
  \A v \in q.seen : /\ reservations[v].used
                    /\ reservations[v].consumable \in {q.consumable, None}
                    /\ IsOpen(v) => v \in q.resvs

Knows(r, q) ==
  /\ q \in Request
  /\ q.pc \notin {"idle", "cancel"} => q.consumable \in Consumables
  /\ q.pc \in Loaded \cup {"consume.find"} => q.resvs = {}
  /\ q.pc \in {"consume.find", "consume.commit"} => q.worker \in Workers /\ q.delta < 0
  /\ q.pc \in Holding => HoldsRow(r, q)
  /\ q.pc = "consume.commit" => FoundOwn(q)
  /\ q.pc = "purge" => SeenClosed(q)

\* The tables, where rows that are not used yet point nowhere.
TablesOK ==
  /\ stock \in [Consumables -> Consumable]
  /\ usages \in [Usages -> Usage]
  /\ reservations \in [Reservations -> Reservation]
  /\ lock \in [Consumables -> Requests \cup {None}]
  /\ booked \in [Consumables -> Int]
  /\ \A u \in Usages : ~usages[u].used => usages[u].consumable = None
  /\ \A v \in Reservations :
       ~reservations[v].used => reservations[v].consumable = None /\ ~reservations[v].fulfilled
  /\ NoDanglingReference

LocksOK == \A c \in Consumables : lock[c] # None =>
  requests[lock[c]].consumable = c /\ requests[lock[c]].pc \in Holding

RequestsOK == /\ requests \in [Requests -> Request]
              /\ \A r \in Requests : Knows(r, requests[r])

Inv == TablesOK /\ LocksOK /\ RequestsOK

-----------------------------------------------------------------------------
\* What a step of r leaves to the requests that hold other rows.
StockKept(r) ==
  \A s \in Requests \ {r} : \A c \in Consumables : lock[c] = s =>
    /\ lock'[c] = s
    /\ stock'[c].life \in {"active", "trashed"}
    /\ stock'[c].quantity = stock[c].quantity

\* Reservations only lose their consumable, never reopen, and are not touched
\* while another request holds the row of their consumable.
ReservationsKept(r) ==
  \A v \in Reservations :
    /\ reservations[v].used =>
         /\ reservations'[v].used
         /\ reservations'[v].consumable \in {reservations[v].consumable, None}
         /\ reservations[v].fulfilled => reservations'[v].fulfilled
         /\ reservations[v].cancelled => reservations'[v].cancelled
    /\ reservations[v].consumable \in Consumables
         /\ lock[reservations[v].consumable] \in Requests \ {r} =>
           /\ reservations'[v].consumable = reservations[v].consumable
           /\ reservations'[v].worker = reservations[v].worker
           /\ reservations'[v].fulfilled = reservations[v].fulfilled

LEMMA OthersKnow ==
  ASSUME Inv, NEW r \in Requests, StockKept(r), ReservationsKept(r),
         NEW s \in Requests \ {r}, requests'[s] = requests[s]
  PROVE  Knows(s, requests[s])'
<1> DEFINE q == requests[s]
<1>1. Knows(s, q)
  BY DEF Inv, RequestsOK
<1>2. q.pc \in Holding => HoldsRow(s, q)'
  BY <1>1 DEF Knows, HoldsRow, StockKept, RowExists, Holding, Loaded
<1>3. q.pc = "consume.commit" => FoundOwn(q)'
  <2> SUFFICES ASSUME q.pc = "consume.commit", NEW v \in q.resvs
               PROVE  /\ reservations'[v].consumable = q.consumable
                      /\ reservations'[v].worker = q.worker
                      /\ ~reservations'[v].fulfilled
    BY <1>1 DEF Knows, FoundOwn
  <2>1. v \in Reservations /\ q.consumable \in Consumables /\ lock[q.consumable] = s
    BY <1>1 DEF Knows, Request, HoldsRow, Holding
  <2> QED
    BY <1>1, <2>1 DEF Knows, FoundOwn, ReservationsKept
<1>4. q.pc = "purge" => SeenClosed(q)'
  <2> SUFFICES ASSUME q.pc = "purge", NEW v \in q.seen
               PROVE  /\ reservations'[v].used
                      /\ reservations'[v].consumable \in {q.consumable, None}
                      /\ IsOpen(v)' => v \in q.resvs
    BY DEF SeenClosed
  <2>1. v \in Reservations
    BY <1>1 DEF Knows, Request
  <2> QED
    BY <1>1, <2>1 DEF Knows, SeenClosed, ReservationsKept, IsOpen
<1>5. Knows(s, q)'
  BY <1>1, <1>2, <1>3, <1>4 DEF Knows
<1> QED
  BY <1>5

LEMMA IdleIsRequest == Idle \in Request
BY StockAssumption DEF Idle, Request, PC

LEMMA LockedRowExists ==
  ASSUME Inv, NEW c \in Consumables, lock[c] \in Requests
  PROVE  RowExists(c)
<1>1. requests[lock[c]].consumable = c /\ requests[lock[c]].pc \in Holding
  BY NoneAssumption DEF Inv, LocksOK
<1> QED
  BY <1>1 DEF Inv, RequestsOK, Knows, HoldsRow

\* A request goes on and changes no table.
LEMMA KeepInv ==
  ASSUME Inv, NEW r \in Requests, NEW q, Knows(r, q), Keep(r, q),
         \A c \in Consumables : lock[c] = r => q.consumable = c /\ q.pc \in Holding
  PROVE  Inv'
<1>1. UNCHANGED <<stock, usages, reservations, lock, booked>>
  BY DEF Keep, tables
<1>2. /\ requests'[r] = q /\ requests' \in [Requests -> Request]
      /\ \A s \in Requests \ {r} : requests'[s] = requests[s]
  BY DEF Keep, Continue, Inv, RequestsOK, Knows
<1>3. TablesOK'
  BY <1>1 DEF Inv, TablesOK, NoDanglingReference, IsOpen, RowExists
<1>4. LocksOK'
  <2> SUFFICES ASSUME NEW c \in Consumables, lock[c] # None
               PROVE  requests'[lock[c]].consumable = c /\ requests'[lock[c]].pc \in Holding
    BY <1>1 DEF LocksOK
  <2>1. lock[c] \in Requests
    BY DEF Inv, TablesOK
  <2> QED
    BY <1>2, <2>1 DEF Inv, LocksOK
<1>5. StockKept(r) /\ ReservationsKept(r)
  <2>1. ASSUME NEW s \in Requests, NEW c \in Consumables, lock[c] = s
        PROVE  RowExists(c)
    BY <2>1, LockedRowExists
  <2> QED
    BY <1>1, <2>1 DEF StockKept, ReservationsKept, RowExists
<1>6. Knows(r, q)'
  <2>1. HoldsRow(r, q)' = HoldsRow(r, q)
    BY <1>1 DEF HoldsRow, RowExists
  <2>2. FoundOwn(q)' = FoundOwn(q)
    BY <1>1 DEF FoundOwn
  <2>3. SeenClosed(q)' = SeenClosed(q)
    BY <1>1 DEF SeenClosed, IsOpen
  <2> QED
    BY <2>1, <2>2, <2>3 DEF Knows
<1>7. RequestsOK'
  <2> SUFFICES ASSUME NEW s \in Requests PROVE Knows(s, requests[s])'
    BY <1>2 DEF RequestsOK
  <2>1. CASE s = r
    BY <1>2, <1>6, <2>1
  <2>2. CASE s # r
    BY <1>2, <1>5, <2>2, OthersKnow
  <2> QED
    BY <2>1, <2>2
<1> QED
  BY <1>3, <1>4, <1>7 DEF Inv

\* A transaction ends.
LEMMA FinishInv ==
  ASSUME Inv, NEW r \in Requests, Finish(r), TablesOK', ReservationsKept(r),
         \A s \in Requests \ {r} : \A c \in Consumables : lock[c] = s =>
           /\ stock'[c].life \in {"active", "trashed"}
           /\ stock'[c].quantity = stock[c].quantity
  PROVE  Inv'
<1>1. /\ requests'[r] = Idle /\ requests' \in [Requests -> Request]
      /\ \A s \in Requests \ {r} : requests'[s] = requests[s]
  BY IdleIsRequest DEF Finish, Inv, RequestsOK
<1>2. \A c \in Consumables : lock'[c] = IF lock[c] = r THEN None ELSE lock[c]
  BY DEF Finish, Locks
<1>3. LocksOK'
  <2> SUFFICES ASSUME NEW c \in Consumables, lock'[c] # None
               PROVE  requests'[lock'[c]].consumable = c /\ requests'[lock'[c]].pc \in Holding
    BY DEF LocksOK
  <2>1. lock'[c] = lock[c] /\ lock[c] \in Requests \ {r}
    BY <1>2 DEF Inv, TablesOK
  <2> QED
    BY <1>1, <2>1 DEF Inv, LocksOK
<1>4. StockKept(r)
  BY <1>2 DEF StockKept
<1>5. Knows(r, Idle)'
  <2>1. Idle.pc = "idle"
    BY DEF Idle
  <2> QED
    BY <2>1, IdleIsRequest DEF Knows, Loaded, Holding
<1>6. RequestsOK'
  <2> SUFFICES ASSUME NEW s \in Requests PROVE Knows(s, requests[s])'
    BY <1>1 DEF RequestsOK
  <2>1. CASE s = r
    BY <1>1, <1>5, <2>1
  <2>2. CASE s # r
    BY <1>1, <1>4, <2>2, OthersKnow
  <2> QED
    BY <2>1, <2>2
<1> QED
  BY <1>3, <1>6 DEF Inv

LEMMA HoldsNothing ==
  ASSUME Inv, NEW r \in Requests, requests[r].pc \notin Holding
  PROVE  \A c \in Consumables : lock[c] # r
BY NoneAssumption DEF Inv, LocksOK

\* The UPDATE locks the row of the request.
LEMMA UpdateInv ==
  ASSUME Inv, NEW r \in Requests, NEW q, requests[r].pc \notin Holding,
         q.pc \in {"consume.find", "adjust.commit"}, q \in Request,
         q.consumable \in Consumables, lock[q.consumable] = None, RowExists(q.consumable),
         stock[q.consumable].quantity + q.delta \in 0..MaxStock,
         q.pc = "consume.find" => q.resvs = {} /\ q.worker \in Workers /\ q.delta < 0,
         lock' = [lock EXCEPT ![q.consumable] = r], Continue(r, q), UNCHANGED <<tables, booked>>
  PROVE  Inv'
<1>1. UNCHANGED <<stock, usages, reservations, booked>>
  BY DEF tables
<1>2. /\ requests'[r] = q /\ requests' \in [Requests -> Request]
      /\ \A s \in Requests \ {r} : requests'[s] = requests[s]
  BY DEF Continue, Inv, RequestsOK
<1>3. /\ lock' \in [Consumables -> Requests \cup {None}]
      /\ \A c \in Consumables : lock'[c] = IF c = q.consumable THEN r ELSE lock[c]
  BY DEF Inv, TablesOK
<1>4. TablesOK'
  BY <1>1, <1>3 DEF Inv, TablesOK, NoDanglingReference, IsOpen, RowExists
<1>5. LocksOK'
  <2> SUFFICES ASSUME NEW c \in Consumables, lock'[c] # None
               PROVE  requests'[lock'[c]].consumable = c /\ requests'[lock'[c]].pc \in Holding
    BY DEF LocksOK
  <2>1. CASE c = q.consumable
    BY <1>2, <1>3, <2>1 DEF Holding
  <2>2. CASE c # q.consumable
    <3>1. lock'[c] = lock[c] /\ lock[c] \in Requests \ {r}
      BY <1>3, <2>2, HoldsNothing DEF Inv, TablesOK
    <3> QED
      BY <1>2, <3>1 DEF Inv, LocksOK
  <2> QED
    BY <2>1, <2>2
<1>6. StockKept(r) /\ ReservationsKept(r)
  <2>1. ASSUME NEW s \in Requests, NEW c \in Consumables, lock[c] = s
        PROVE  RowExists(c) /\ lock'[c] = s
    BY <1>3, <2>1, LockedRowExists, NoneAssumption
  <2> QED
    BY <1>1, <2>1 DEF StockKept, ReservationsKept, RowExists
<1>7. Knows(r, q)'
  BY <1>1, <1>3 DEF Knows, HoldsRow, RowExists, Holding, Loaded
<1>8. RequestsOK'
  <2> SUFFICES ASSUME NEW s \in Requests PROVE Knows(s, requests[s])'
    BY <1>2 DEF RequestsOK
  <2>1. CASE s = r
    BY <1>2, <1>7, <2>1
  <2>2. CASE s # r
    BY <1>2, <1>6, <2>2, OthersKnow
  <2> QED
    BY <2>1, <2>2
<1> QED
  BY <1>4, <1>5, <1>8 DEF Inv

-----------------------------------------------------------------------------
(* The actions that only read. *)

LEMMA LoadInv ==
  ASSUME Inv, NEW r \in Requests, NEW op \in Loaded, NEW c \in Consumables, Load(r, op, c)
  PROVE  Inv'
<1> DEFINE q == [Idle EXCEPT !.pc = op, !.consumable = c,
                             !.quantity = stock[c].quantity, !.dept = stock[c].dept]
<1>1. Knows(r, q)
  <2>1. q \in Request
    BY IdleIsRequest DEF Inv, TablesOK, Consumable, Request, PC
  <2>2. q.pc = op /\ q.consumable = c /\ q.resvs = {}
    BY DEF Idle
  <2> QED
    BY <2>1, <2>2 DEF Knows, Loaded, Holding
<1>2. \A x \in Consumables : lock[x] # r
  BY HoldsNothing DEF Load, At, Holding
<1>3. Keep(r, q)
  BY DEF Load
<1> QED
  BY <1>1, <1>2, <1>3, KeepInv

LEMMA ConsumeFindInv ==
  ASSUME Inv, NEW r \in Requests, ConsumeFind(r)
  PROVE  Inv'
<1> DEFINE q == requests[r]
           own == {v \in OpenReservations(q.consumable) : reservations[v].worker = q.worker}
<1>1. Knows(r, q) /\ q.pc = "consume.find" /\ q \in Request
  BY DEF Inv, RequestsOK, ConsumeFind, At, Knows
<1>2. \A c \in Consumables : lock[c] = r => c = q.consumable
  BY NoneAssumption DEF Inv, LocksOK
<1>3. ASSUME NEW S \in SUBSET own, \A v, x \in S : v = x,
             Keep(r, [q EXCEPT !.pc = "consume.commit", !.resvs = S])
      PROVE  Inv'
  <2> DEFINE n == [q EXCEPT !.pc = "consume.commit", !.resvs = S]
  <2>1. /\ n \in Request /\ n.pc = "consume.commit" /\ n.resvs = S
        /\ n.consumable = q.consumable /\ n.worker = q.worker /\ n.delta = q.delta
    BY <1>1 DEF Request, PC, OpenReservations
  <2>2. HoldsRow(r, n) /\ n.consumable \in Consumables /\ n.worker \in Workers /\ n.delta < 0
    BY <1>1, <2>1 DEF Knows, HoldsRow, Holding
  <2>3. FoundOwn(n)
    BY <1>3, <2>1 DEF FoundOwn, OpenReservations, IsOpen
  <2> HIDE DEF n
  <2>4. Knows(r, n)
    BY <2>1, <2>2, <2>3 DEF Knows, Loaded, Holding
  <2>5. Keep(r, n)
    BY <1>3 DEF n
  <2>6. \A c \in Consumables : lock[c] = r => n.consumable = c /\ n.pc \in Holding
    BY <1>2, <2>1 DEF Holding
  <2> QED
    BY <2>4, <2>5, <2>6, KeepInv
<1>4. CASE Keep(r, [q EXCEPT !.pc = "consume.commit"])
  <2>1. [q EXCEPT !.pc = "consume.commit"] = [q EXCEPT !.pc = "consume.commit", !.resvs = {}]
    BY <1>1 DEF Knows, Request
  <2> QED
    BY <1>3, <1>4, <2>1
<1>5. ASSUME NEW v \in own, Keep(r, [q EXCEPT !.pc = "consume.commit", !.resvs = {v}])
      PROVE  Inv'
  <2>1. {v} \in SUBSET own /\ \A x, y \in {v} : x = y
    OBVIOUS
  <2> HIDE DEF own, q
  <2> QED
    BY <1>3, <1>5, <2>1
<1> QED
  <2> HIDE DEF own, q
  <2>1. \/ Keep(r, [q EXCEPT !.pc = "consume.commit"])
        \/ \E v \in own : Keep(r, [q EXCEPT !.pc = "consume.commit", !.resvs = {v}])
    BY DEF ConsumeFind, own, q
  <2> QED
    BY <1>4, <1>5, <2>1

\* The units that are reserved are finitely many.
LEMMA ReservedFinite ==
  ASSUME NEW c
  PROVE  IsFiniteSet(ReservedUnits(c)) /\ Reserved(c) \in Nat
<1>1. IsFiniteSet(1..MaxStock)
  BY StockAssumption, FS_Interval
<1>2. IsFiniteSet(OpenReservations(c))
  BY StockAssumption, FS_Subset DEF OpenReservations
<1>3. IsFiniteSet(OpenReservations(c) \X (1..MaxStock))
  BY <1>1, <1>2, FS_Product
<1>4. ReservedUnits(c) \in SUBSET (OpenReservations(c) \X (1..MaxStock))
  BY DEF ReservedUnits
<1>5. IsFiniteSet(ReservedUnits(c))
  BY <1>3, <1>4, FS_Subset
<1> QED
  BY <1>5, FS_CardinalityType DEF Reserved

LEMMA ReserveCheckInv ==
  ASSUME Inv, NEW r \in Requests, NEW w \in Workers, NEW n \in Amounts, ReserveCheck(r, w, n)
  PROVE  Inv'
<1> DEFINE q == [requests[r] EXCEPT !.pc = "reserve.commit", !.worker = w, !.amount = n]
<1>1. Knows(r, requests[r]) /\ requests[r].pc = "reserve" /\ requests[r] \in Request
  BY DEF Inv, RequestsOK, ReserveCheck, At, Knows
<1>a. n \in 0..MaxStock
  <2>1. Reserved(requests[r].consumable) \in Nat /\ requests[r].quantity \in 0..MaxStock
    BY <1>1, ReservedFinite DEF Request
  <2>2. Reserved(requests[r].consumable) + n <= requests[r].quantity
    BY DEF ReserveCheck
  <2> QED
    BY <2>1, <2>2, StockAssumption
<1>2. /\ q \in Request /\ q.pc = "reserve.commit" /\ q.consumable = requests[r].consumable
  BY <1>1, <1>a DEF Request, PC
<1>3. q.consumable \in Consumables
  BY <1>1, <1>2 DEF Knows
<1>4. Keep(r, q)
  BY DEF ReserveCheck
<1> HIDE DEF q
<1>5. Knows(r, q)
  BY <1>2, <1>3 DEF Knows, Loaded, Holding
<1>6. \A x \in Consumables : lock[x] # r
  BY <1>1, HoldsNothing DEF Holding
<1> QED
  BY <1>4, <1>5, <1>6, KeepInv

LEMMA CancelLoadInv ==
  ASSUME Inv, NEW r \in Requests, NEW v \in Reservations, CancelLoad(r, v)
  PROVE  Inv'
<1> DEFINE q == [Idle EXCEPT !.pc = "cancel", !.resvs = {v}]
<1>1. q \in Request /\ q.pc = "cancel"
  BY IdleIsRequest DEF Request, PC
<1>2. Keep(r, q)
  BY DEF CancelLoad
<1> HIDE DEF q
<1>3. Knows(r, q)
  BY <1>1 DEF Knows, Loaded, Holding
<1>4. \A x \in Consumables : lock[x] # r
  BY HoldsNothing DEF CancelLoad, At, Holding
<1> QED
  BY <1>2, <1>3, <1>4, KeepInv

LEMMA EditCheckInv ==
  ASSUME Inv, NEW r \in Requests, NEW d \in Departments, EditCheck(r, d)
  PROVE  Inv'
<1> DEFINE q == [requests[r] EXCEPT !.pc = "edit.commit", !.toDept = d]
<1>1. Knows(r, requests[r]) /\ requests[r].pc = "edit" /\ requests[r] \in Request
  BY DEF Inv, RequestsOK, EditCheck, At, Knows
<1>2. /\ q \in Request /\ q.pc = "edit.commit" /\ q.consumable = requests[r].consumable
  BY <1>1 DEF Request, PC
<1>3. q.consumable \in Consumables
  BY <1>1, <1>2 DEF Knows
<1>4. Keep(r, q)
  BY DEF EditCheck
<1> HIDE DEF q
<1>5. Knows(r, q)
  BY <1>2, <1>3 DEF Knows, Loaded, Holding
<1>6. \A x \in Consumables : lock[x] # r
  BY <1>1, HoldsNothing DEF Holding
<1> QED
  BY <1>4, <1>5, <1>6, KeepInv

LEMMA RestoreLoadInv ==
  ASSUME Inv, NEW r \in Requests, NEW c \in Consumables, RestoreLoad(r, c)
  PROVE  Inv'
<1> DEFINE q == [Idle EXCEPT !.pc = "restore", !.consumable = c]
<1>1. q \in Request /\ q.pc = "restore" /\ q.consumable = c
  BY IdleIsRequest DEF Request, PC, Idle
<1>2. Keep(r, q)
  BY DEF RestoreLoad
<1> HIDE DEF q
<1>3. Knows(r, q)
  BY <1>1 DEF Knows, Loaded, Holding
<1>4. \A x \in Consumables : lock[x] # r
  BY HoldsNothing DEF RestoreLoad, At, Holding
<1> QED
  BY <1>2, <1>3, <1>4, KeepInv

LEMMA PurgeLoadInv ==
  ASSUME Inv, NEW r \in Requests, NEW c \in Consumables, NEW force \in Forces,
         PurgeLoad(r, c, force)
  PROVE  Inv'
<1> DEFINE open == OpenReservations(c)
           all  == {v \in Reservations : reservations[v].consumable = c}
           q    == [Idle EXCEPT !.pc = "purge", !.consumable = c,
                                !.resvs = open, !.seen = all]
<1>1. /\ q \in Request /\ q.pc = "purge" /\ q.consumable = c
      /\ q.resvs = open /\ q.seen = all
  BY IdleIsRequest DEF Request, PC, Idle, OpenReservations
<1>2. Keep(r, q)
  BY DEF PurgeLoad
<1>3. SeenClosed(q)
  <2> SUFFICES ASSUME NEW v \in all
               PROVE  /\ reservations[v].used /\ reservations[v].consumable = c
                      /\ IsOpen(v) => v \in open
    BY <1>1 DEF SeenClosed
  <2> QED
    BY NoneAssumption DEF Inv, TablesOK, OpenReservations
<1> HIDE DEF q
<1>4. Knows(r, q)
  BY <1>1, <1>3 DEF Knows, Loaded, Holding
<1>5. \A x \in Consumables : lock[x] # r
  BY HoldsNothing DEF PurgeLoad, At, Holding
<1> QED
  BY <1>2, <1>4, <1>5, KeepInv

-----------------------------------------------------------------------------
(* The UPDATEs of the stock. *)

LEMMA ConsumeUpdateInv ==
  ASSUME Inv, NEW r \in Requests, NEW w \in Workers, NEW n \in Amounts, ConsumeUpdate(r, w, n)
  PROVE  Inv'
<1> DEFINE q == [requests[r] EXCEPT !.pc = "consume.find", !.worker = w, !.delta = -n]
           c == requests[r].consumable
<1>1. /\ Knows(r, requests[r]) /\ requests[r].pc = "consume" /\ requests[r] \in Request
      /\ c \in Consumables /\ requests[r].resvs = {}
  BY DEF Inv, RequestsOK, ConsumeUpdate, At, Knows, Loaded
<1>2. n \in Nat /\ n > 0 /\ stock[c].quantity \in 0..MaxStock
  BY <1>1, StockAssumption DEF Inv, TablesOK, Consumable
<1>3. /\ q \in Request /\ q.pc = "consume.find" /\ q.consumable = c
      /\ q.worker = w /\ q.delta = -n /\ q.resvs = {}
  <2>1. -n \in Int /\ "consume.find" \in PC
    BY <1>2 DEF PC
  <2> QED
    BY <1>1, <2>1 DEF Request
<1>4. /\ lock[c] = None /\ RowExists(c) /\ stock[c].quantity >= n
      /\ lock' = [lock EXCEPT ![c] = r] /\ Continue(r, q) /\ UNCHANGED <<tables, booked>>
  BY DEF ConsumeUpdate
<1>5. stock[c].quantity + q.delta \in 0..MaxStock /\ q.delta < 0
  BY <1>2, <1>3, <1>4, StockAssumption
<1>6. requests[r].pc \notin Holding
  BY <1>1 DEF Holding
<1> HIDE DEF q
<1> QED
  BY <1>1, <1>3, <1>4, <1>5, <1>6, UpdateInv

LEMMA AdjustUpdateInv ==
  ASSUME Inv, NEW r \in Requests, NEW delta \in Deltas, NEW w \in Workers \cup {None},
         AdjustUpdate(r, delta, w)
  PROVE  Inv'
<1> DEFINE q == [requests[r] EXCEPT !.pc = "adjust.commit", !.worker = w, !.delta = delta]
           c == requests[r].consumable
<1>1. /\ Knows(r, requests[r]) /\ requests[r].pc = "adjust" /\ requests[r] \in Request
      /\ c \in Consumables
  BY DEF Inv, RequestsOK, AdjustUpdate, At, Knows
<1>2. delta \in Int
  BY StockAssumption DEF Deltas
<1>3. /\ q \in Request /\ q.pc = "adjust.commit" /\ q.consumable = c /\ q.delta = delta
  BY <1>1, <1>2 DEF Request, PC
<1>4. /\ lock[c] = None /\ RowExists(c) /\ stock[c].quantity + delta \in 0..MaxStock
      /\ lock' = [lock EXCEPT ![c] = r] /\ Continue(r, q) /\ UNCHANGED <<tables, booked>>
  BY DEF AdjustUpdate
<1>5. requests[r].pc \notin Holding
  BY <1>1 DEF Holding
<1> HIDE DEF q
<1> QED
  BY <1>1, <1>3, <1>4, <1>5, UpdateInv

-----------------------------------------------------------------------------
(* The commits. *)

LEMMA FinishLock ==
  ASSUME Inv, NEW r \in Requests, Finish(r)
  PROVE  lock' \in [Consumables -> Requests \cup {None}]
BY DEF Inv, TablesOK, Finish

LEMMA AbortInv ==
  ASSUME Inv, NEW r \in Requests, Abort(r)
  PROVE  Inv'
<1>1. UNCHANGED <<stock, usages, reservations, booked>> /\ Finish(r)
  BY DEF Abort, tables
<1>2. TablesOK'
  BY <1>1, FinishLock DEF Inv, TablesOK, NoDanglingReference, IsOpen, RowExists
<1>3. ReservationsKept(r)
  BY <1>1 DEF ReservationsKept
<1>4. \A s \in Requests \ {r} : \A c \in Consumables : lock[c] = s => RowExists(c)
  BY LockedRowExists
<1> QED
  BY <1>1, <1>2, <1>3, <1>4, FinishInv DEF RowExists

LEMMA ConsumeCommitInv ==
  ASSUME Inv, NEW r \in Requests, NEW u \in Usages, ConsumeCommit(r, u)
  PROVE  Inv'
<1> DEFINE q == requests[r]
           c == q.consumable
<1>1. /\ Knows(r, q) /\ q.pc = "consume.commit" /\ q \in Request /\ c \in Consumables
      /\ HoldsRow(r, q) /\ FoundOwn(q) /\ q.worker \in Workers /\ q.delta < 0
  BY DEF Inv, RequestsOK, ConsumeCommit, At, Knows, Holding
<1>2. /\ Finish(r) /\ ~usages[u].used /\ booked' = booked
      /\ usages' = [usages EXCEPT ![u] = [used |-> TRUE, consumable |-> c,
                                          worker |-> q.worker, quantity |-> -q.delta]]
      /\ stock' = [stock EXCEPT ![c].quantity = @ + q.delta]
      /\ reservations' = Fulfil(q.resvs)
  BY DEF ConsumeCommit, LogUsage
<1>3. /\ q.delta \in Int /\ stock[c].quantity \in 0..MaxStock
      /\ stock[c].quantity + q.delta \in 0..MaxStock /\ -q.delta \in 0..MaxStock
  <2>1. /\ q.delta \in Int /\ stock[c].quantity \in 0..MaxStock
        /\ stock[c].quantity + q.delta \in 0..MaxStock
    BY <1>1 DEF Inv, TablesOK, Consumable, Request, HoldsRow
  <2> QED
    BY <1>1, <2>1, StockAssumption
<1>4. /\ stock' \in [Consumables -> Consumable]
      /\ \A x \in Consumables : stock'[x].life = stock[x].life
      /\ \A x \in Consumables \ {c} : stock'[x] = stock[x]
  BY <1>2, <1>3 DEF Inv, TablesOK, Consumable
<1>5. /\ usages' \in [Usages -> Usage]
      /\ \A x \in Usages \ {u} : usages'[x] = usages[x]
      /\ usages'[u].used /\ usages'[u].consumable = c
  BY <1>1, <1>2, <1>3 DEF Inv, TablesOK, Usage
<1>6. /\ reservations' \in [Reservations -> Reservation]
      /\ \A v \in Reservations :
           /\ reservations'[v].consumable = reservations[v].consumable
           /\ reservations'[v].used = reservations[v].used
           /\ reservations'[v].worker = reservations[v].worker
           /\ reservations'[v].cancelled = reservations[v].cancelled
           /\ v \in q.resvs => reservations'[v].fulfilled
           /\ v \notin q.resvs => reservations'[v] = reservations[v]
           /\ reservations[v].fulfilled => reservations'[v].fulfilled
  <2>1. reservations \in [Reservations -> Reservation]
    BY DEF Inv, TablesOK
  <2>2. \A v \in Reservations :
          reservations'[v] = IF v \in q.resvs THEN [reservations[v] EXCEPT !.fulfilled = TRUE]
                                              ELSE reservations[v]
    BY <1>2 DEF Fulfil
  <2>3. reservations' = [v \in Reservations |-> reservations'[v]]
    BY <1>2 DEF Fulfil
  <2>4. \A v \in Reservations : reservations'[v] \in Reservation
    BY <2>1, <2>2 DEF Reservation
  <2> HIDE DEF q
  <2> QED
    BY <2>1, <2>2, <2>3, <2>4 DEF Reservation
<1>7. TablesOK'
  <2>1. NoDanglingReference'
    <3>1. \A x \in Consumables : RowExists(x) => RowExists(x)'
      BY <1>4 DEF RowExists
    <3>2. \A v \in Reservations : IsOpen(v)' => IsOpen(v)
      BY <1>6 DEF IsOpen
    <3>3. /\ \A x \in Usages : usages[x].consumable \in Consumables \cup {None}
          /\ \A v \in Reservations : reservations[v].consumable \in Consumables \cup {None}
      BY DEF Inv, TablesOK, Usage, Reservation
    <3>4. \A x \in Usages : usages'[x].consumable # None => (RowExists(usages[x].consumable))'
      BY <1>1, <1>5, <3>1, <3>3 DEF Inv, TablesOK, NoDanglingReference, RowExists, HoldsRow
    <3>5. NoDanglingReference
      BY DEF Inv, TablesOK
    <3> QED
      BY <1>6, <3>1, <3>2, <3>3, <3>4, <3>5 DEF NoDanglingReference
  <2>2. \A v \in Reservations : v \in q.resvs => reservations[v].used
    BY <1>1, NoneAssumption DEF Inv, TablesOK, FoundOwn
  <2> QED
    BY <1>2, <1>4, <1>5, <1>6, <2>1, <2>2, FinishLock DEF Inv, TablesOK
<1>8. ReservationsKept(r)
  <2>1. \A v \in q.resvs : lock[reservations[v].consumable] = r
    BY <1>1 DEF FoundOwn, HoldsRow
  <2> QED
    BY <1>6, <2>1 DEF ReservationsKept
<1>9. \A s \in Requests \ {r} : \A x \in Consumables : lock[x] = s => RowExists(x) /\ x # c
  BY <1>1, LockedRowExists DEF HoldsRow
<1> QED
  BY <1>2, <1>4, <1>7, <1>8, <1>9, FinishInv DEF RowExists

LEMMA AdjustCommitInv ==
  ASSUME Inv, NEW r \in Requests, AdjustCommit(r)
  PROVE  Inv'
<1> DEFINE q == requests[r]
           c == q.consumable
<1>1. /\ Knows(r, q) /\ q.pc = "adjust.commit" /\ q \in Request /\ c \in Consumables
      /\ HoldsRow(r, q)
  BY DEF Inv, RequestsOK, AdjustCommit, At, Knows, Holding
<1>2. /\ Finish(r) /\ reservations' = reservations
      /\ stock' = [stock EXCEPT ![c].quantity = @ + q.delta]
  BY DEF AdjustCommit
<1>3. /\ q.delta \in Int /\ stock[c].quantity \in 0..MaxStock
      /\ stock[c].quantity + q.delta \in 0..MaxStock
  BY <1>1, StockAssumption DEF Inv, TablesOK, Consumable, Request, HoldsRow
<1>4. /\ stock' \in [Consumables -> Consumable]
      /\ \A x \in Consumables : stock'[x].life = stock[x].life
      /\ \A x \in Consumables \ {c} : stock'[x] = stock[x]
  BY <1>2, <1>3 DEF Inv, TablesOK, Consumable
<1>5. /\ usages' \in [Usages -> Usage]
      /\ \A x \in Usages : \/ usages'[x] = usages[x]
                           \/ usages'[x].used /\ usages'[x].consumable = c
  <2>1. CASE usages' = usages
    BY <2>1 DEF Inv, TablesOK
  <2>2. ASSUME q.delta < 0, NEW u \in Usages, LogUsage(u, q)
        PROVE  /\ usages' \in [Usages -> Usage]
               /\ \A x \in Usages : \/ usages'[x] = usages[x]
                                    \/ usages'[x].used /\ usages'[x].consumable = c
    <3>1. -q.delta \in 0..MaxStock
      BY <1>3, <2>2, StockAssumption
    <3>2. [used |-> TRUE, consumable |-> c, worker |-> q.worker, quantity |-> -q.delta] \in Usage
      BY <1>1, <3>1 DEF Usage, Request
    <3>3. usages \in [Usages -> Usage]
      BY DEF Inv, TablesOK
    <3> QED
      BY <2>2, <3>2, <3>3 DEF LogUsage
  <2> QED
    BY <2>1, <2>2 DEF AdjustCommit
<1>6. booked' \in [Consumables -> Int]
  BY <1>1, <1>3 DEF AdjustCommit, Inv, TablesOK
<1>7. TablesOK'
  <2>1. NoDanglingReference'
    <3>1. RowExists(c)
      BY <1>1 DEF HoldsRow
    <3>2. /\ usages \in [Usages -> Usage] /\ reservations \in [Reservations -> Reservation]
          /\ NoDanglingReference
      BY DEF Inv, TablesOK
    <3>3. ASSUME NEW x \in Usages, usages'[x].consumable # None
          PROVE  usages'[x].consumable \in Consumables /\ RowExists(usages'[x].consumable)
      <4>1. CASE usages'[x] = usages[x]
        BY <3>2, <3>3, <4>1 DEF NoDanglingReference, Usage
      <4>2. CASE usages'[x].consumable = c
        BY <1>1, <3>1, <4>2
      <4> QED
        BY <1>5, <4>1, <4>2
    <3>4. ASSUME NEW v \in Reservations, reservations[v].consumable # None
          PROVE  /\ reservations[v].consumable \in Consumables
                 /\ RowExists(reservations[v].consumable)
      BY <3>2, <3>4 DEF NoDanglingReference, Reservation
    <3>5. \A v \in Reservations : IsOpen(v)' => reservations'[v].consumable # None
      BY <1>2, <3>2 DEF NoDanglingReference, IsOpen
    <3> HIDE DEF q, c
    <3> QED
      BY <1>2, <1>4, <3>3, <3>4, <3>5 DEF NoDanglingReference, RowExists, IsOpen
  <2> QED
    BY <1>2, <1>4, <1>5, <1>6, <2>1, FinishLock DEF Inv, TablesOK
<1>8. ReservationsKept(r)
  BY <1>2 DEF ReservationsKept
<1>9. \A s \in Requests \ {r} : \A x \in Consumables : lock[x] = s => RowExists(x) /\ x # c
  BY <1>1, LockedRowExists DEF HoldsRow
<1> QED
  BY <1>2, <1>4, <1>7, <1>8, <1>9, FinishInv DEF RowExists

LEMMA ReserveCommitInv ==
  ASSUME Inv, NEW r \in Requests, NEW v \in Reservations, ReserveCommit(r, v)
  PROVE  Inv'
<1> DEFINE q == requests[r]
           c == q.consumable
<1>1. Knows(r, q) /\ q.pc = "reserve.commit" /\ q \in Request /\ c \in Consumables
  BY DEF Inv, RequestsOK, ReserveCommit, At, Knows
<1>2. /\ Finish(r) /\ RowExists(c) /\ ~reservations[v].used
      /\ UNCHANGED <<stock, usages, booked>>
  BY DEF ReserveCommit
<1>3. /\ reservations' \in [Reservations -> Reservation]
      /\ \A x \in Reservations \ {v} : reservations'[x] = reservations[x]
      /\ reservations'[v].used /\ reservations'[v].consumable = c
  <2>1. [used |-> TRUE, consumable |-> q.consumable, worker |-> q.worker, dept |-> q.dept,
         quantity |-> q.amount, fulfilled |-> FALSE, cancelled |-> FALSE] \in Reservation
    BY <1>1 DEF Request, Reservation
  <2>2. reservations \in [Reservations -> Reservation]
    BY DEF Inv, TablesOK
  <2> QED
    BY <2>1, <2>2 DEF ReserveCommit
<1>4. TablesOK'
  <2>1. NoDanglingReference'
    <3>1. \A x \in Reservations \ {v} : IsOpen(x)' => IsOpen(x)
      BY <1>3 DEF IsOpen
    <3> QED
      BY <1>1, <1>2, <1>3, <3>1, NoneAssumption
      DEF Inv, TablesOK, NoDanglingReference, RowExists
  <2> QED
    BY <1>2, <1>3, <2>1, FinishLock DEF Inv, TablesOK
<1>5. ReservationsKept(r)
  BY <1>2, <1>3, NoneAssumption DEF ReservationsKept, Inv, TablesOK
<1>6. \A s \in Requests \ {r} : \A x \in Consumables : lock[x] = s => RowExists(x)
  BY LockedRowExists
<1> QED
  BY <1>2, <1>4, <1>5, <1>6, FinishInv DEF RowExists

LEMMA CancelCommitInv ==
  ASSUME Inv, NEW r \in Requests, CancelCommit(r)
  PROVE  Inv'
<1>1. Finish(r) /\ UNCHANGED <<stock, usages, booked>>
  BY DEF CancelCommit
<1>2. /\ reservations' \in [Reservations -> Reservation]
      /\ \A v \in Reservations :
           /\ reservations'[v].consumable = reservations[v].consumable
           /\ reservations'[v].used = reservations[v].used
           /\ reservations'[v].worker = reservations[v].worker
           /\ reservations'[v].fulfilled = reservations[v].fulfilled
           /\ reservations[v].cancelled => reservations'[v].cancelled
  <2>1. PICK S : reservations' = Cancel(S)
    BY DEF CancelCommit
  <2>2. reservations \in [Reservations -> Reservation]
    BY DEF Inv, TablesOK
  <2>3. \A x \in Reservation : LET y == [x EXCEPT !.cancelled = TRUE] IN
          /\ y \in Reservation /\ y.cancelled
          /\ y.consumable = x.consumable /\ y.used = x.used /\ y.worker = x.worker
          /\ y.fulfilled = x.fulfilled
    BY DEF Reservation
  <2> QED
    BY <2>1, <2>2, <2>3 DEF Cancel
<1>3. TablesOK'
  <2>1. NoDanglingReference'
    <3>1. \A v \in Reservations : IsOpen(v)' => IsOpen(v)
      BY <1>2 DEF IsOpen
    <3> QED
      BY <1>1, <1>2, <3>1 DEF Inv, TablesOK, NoDanglingReference, RowExists
  <2> QED
    BY <1>1, <1>2, <2>1, FinishLock DEF Inv, TablesOK
<1>4. ReservationsKept(r)
  BY <1>2 DEF ReservationsKept
<1>5. \A s \in Requests \ {r} : \A x \in Consumables : lock[x] = s => RowExists(x)
  BY LockedRowExists
<1> QED
  BY <1>1, <1>3, <1>4, <1>5, FinishInv DEF RowExists

\* update_consumable, delete_entity and restore_consumable write one row that is
\* there and that nobody holds.
LEMMA RowInv ==
  ASSUME Inv, NEW r \in Requests, NEW c \in Consumables, NEW row \in Consumable,
         Finish(r), UNCHANGED <<usages, reservations, booked>>,
         lock[c] = None, row.life \in {"active", "trashed"}, row.quantity = stock[c].quantity,
         stock' = [stock EXCEPT ![c] = row]
  PROVE  Inv'
<1>1. /\ stock' \in [Consumables -> Consumable]
      /\ \A x \in Consumables : RowExists(x) => RowExists(x)'
      /\ \A x \in Consumables : stock'[x].quantity = stock[x].quantity
  BY DEF Inv, TablesOK, RowExists
<1>2. TablesOK'
  <2>1. NoDanglingReference'
    <3>1. /\ \A x \in Usages : usages[x].consumable \in Consumables \cup {None}
          /\ \A v \in Reservations : reservations[v].consumable \in Consumables \cup {None}
      BY DEF Inv, TablesOK, Usage, Reservation
    <3> QED
      BY <1>1, <3>1 DEF Inv, TablesOK, NoDanglingReference, IsOpen, RowExists
  <2> QED
    BY <1>1, <2>1, FinishLock DEF Inv, TablesOK
<1>3. ReservationsKept(r)
  BY DEF ReservationsKept
<1>4. \A s \in Requests \ {r} : \A x \in Consumables : lock[x] = s => RowExists(x)
  BY LockedRowExists
<1> QED
  BY <1>1, <1>2, <1>3, <1>4, FinishInv DEF RowExists

LEMMA RowCommitsInv ==
  ASSUME Inv, NEW r \in Requests, EditCommit(r) \/ DeleteCommit(r) \/ RestoreCommit(r)
  PROVE  Inv'
<1> DEFINE q == requests[r]
           c == q.consumable
<1>1. q \in Request /\ c \in Consumables /\ stock[c] \in Consumable
  BY DEF Inv, RequestsOK, TablesOK, EditCommit, DeleteCommit, RestoreCommit, At, Knows
<1>2. CASE EditCommit(r)
  <2> DEFINE row == [stock[c] EXCEPT !.dept = IF q.toDept = q.dept THEN @ ELSE q.toDept]
  <2>1. row \in Consumable /\ row.life = stock[c].life /\ row.quantity = stock[c].quantity
    BY <1>1 DEF Consumable, Request
  <2>2. /\ Finish(r) /\ UNCHANGED <<usages, reservations, booked>>
        /\ lock[c] = None /\ RowExists(c)
        /\ stock' = [stock EXCEPT ![c] = row]
    BY <1>2 DEF EditCommit
  <2> HIDE DEF row
  <2> QED
    BY <1>1, <2>1, <2>2, RowInv DEF RowExists
<1>3. CASE DeleteCommit(r)
  <2> DEFINE row == [stock[c] EXCEPT !.life = "trashed"]
  <2>1. row \in Consumable /\ row.life = "trashed" /\ row.quantity = stock[c].quantity
    BY <1>1 DEF Consumable, Life
  <2>2. /\ Finish(r) /\ UNCHANGED <<usages, reservations, booked>>
        /\ lock[c] = None /\ stock' = [stock EXCEPT ![c] = row]
    BY <1>3 DEF DeleteCommit
  <2> HIDE DEF row
  <2> QED
    BY <1>1, <2>1, <2>2, RowInv
<1>4. CASE RestoreCommit(r)
  <2> DEFINE row == [stock[c] EXCEPT !.life = "active"]
  <2>1. row \in Consumable /\ row.life = "active" /\ row.quantity = stock[c].quantity
    BY <1>1 DEF Consumable, Life
  <2>2. /\ Finish(r) /\ UNCHANGED <<usages, reservations, booked>>
        /\ lock[c] = None /\ stock' = [stock EXCEPT ![c] = row]
    BY <1>4 DEF RestoreCommit
  <2> HIDE DEF row
  <2> QED
    BY <1>1, <2>1, <2>2, RowInv
<1> QED
  BY <1>2, <1>3, <1>4

\* What purge_consumable leaves of the usages and reservations.
LEMMA PurgeCommitTables ==
  ASSUME Inv, NEW r \in Requests, PurgeCommit(r), NEW c, c = requests[r].consumable
  PROVE  /\ stock' \in [Consumables -> Consumable]
         /\ \A x \in Consumables \ {c} : stock'[x] = stock[x]
         /\ usages' \in [Usages -> Usage]
         /\ \A u \in Usages :
              /\ usages[u].consumable = c => usages'[u].consumable = None
              /\ usages[u].consumable # c => usages'[u] = usages[u]
              /\ usages'[u].used = usages[u].used
         /\ reservations' \in [Reservations -> Reservation]
         /\ \A v \in Reservations \ requests[r].seen : reservations'[v] = reservations[v]
         /\ \A v \in requests[r].seen :
              /\ reservations'[v].consumable = None
              /\ reservations'[v].used = reservations[v].used
              /\ reservations'[v].worker = reservations[v].worker
              /\ reservations'[v].fulfilled = reservations[v].fulfilled
              /\ reservations[v].cancelled => reservations'[v].cancelled
              /\ v \in requests[r].resvs => reservations'[v].cancelled
<1>1. requests[r].seen \subseteq Reservations /\ c \in Consumables
  BY DEF Inv, RequestsOK, PurgeCommit, At, Knows, Request
<1>2. /\ stock \in [Consumables -> Consumable] /\ usages \in [Usages -> Usage]
      /\ reservations \in [Reservations -> Reservation]
  BY DEF Inv, TablesOK
<1>3. /\ stock' \in [Consumables -> Consumable]
      /\ \A x \in Consumables \ {c} : stock'[x] = stock[x]
  BY <1>1, <1>2 DEF PurgeCommit, Consumable, Life
<1>4. /\ usages' \in [Usages -> Usage]
      /\ \A u \in Usages :
           /\ usages[u].consumable = c => usages'[u].consumable = None
           /\ usages[u].consumable # c => usages'[u] = usages[u]
           /\ usages'[u].used = usages[u].used
  BY <1>2 DEF PurgeCommit, Usage
<1>5. /\ reservations' \in [Reservations -> Reservation]
      /\ \A v \in Reservations \ requests[r].seen : reservations'[v] = reservations[v]
      /\ \A v \in requests[r].seen :
           /\ reservations'[v].consumable = None
           /\ reservations'[v].used = reservations[v].used
           /\ reservations'[v].worker = reservations[v].worker
           /\ reservations'[v].fulfilled = reservations[v].fulfilled
           /\ reservations[v].cancelled => reservations'[v].cancelled
           /\ v \in requests[r].resvs => reservations'[v].cancelled
  <2>1. reservations' = [v \in Reservations |-> IF v \in requests[r].seen
          THEN [Cancel(requests[r].resvs)[v] EXCEPT !.consumable = None] ELSE reservations[v]]
    BY DEF PurgeCommit
  <2>2. ASSUME NEW v \in Reservations
        PROVE  /\ Cancel(requests[r].resvs)[v] \in Reservation
               /\ v \in requests[r].resvs =>
                    Cancel(requests[r].resvs)[v] = [reservations[v] EXCEPT !.cancelled = TRUE]
               /\ v \notin requests[r].resvs => Cancel(requests[r].resvs)[v] = reservations[v]
    BY <1>2 DEF Cancel, Reservation
  <2> DEFINE gone(v) == [Cancel(requests[r].resvs)[v] EXCEPT !.consumable = None]
  <2>3. ASSUME NEW v \in Reservations
        PROVE  /\ gone(v) \in Reservation
               /\ gone(v).consumable = None
               /\ gone(v).used = reservations[v].used
               /\ gone(v).worker = reservations[v].worker
               /\ gone(v).fulfilled = reservations[v].fulfilled
               /\ reservations[v].cancelled => gone(v).cancelled
               /\ v \in requests[r].resvs => gone(v).cancelled
    <3>1. reservations[v] \in Reservation
      BY <1>2
    <3>2. CASE v \in requests[r].resvs
      BY <2>2, <3>1, <3>2 DEF Reservation
    <3>3. CASE v \notin requests[r].resvs
      BY <2>2, <3>1, <3>3 DEF Reservation
    <3> QED
      BY <3>2, <3>3
  <2>4. \A v \in Reservations :
          reservations'[v] = IF v \in requests[r].seen THEN gone(v) ELSE reservations[v]
    BY <2>1
  <2>5. reservations' = [v \in Reservations |->
                           IF v \in requests[r].seen THEN gone(v) ELSE reservations[v]]
    BY <2>1
  <2> HIDE DEF gone
  <2>6. reservations' \in [Reservations -> Reservation]
    BY <1>2, <2>3, <2>5
  <2> QED
    BY <1>1, <2>3, <2>4, <2>6
<1> QED
  BY <1>3, <1>4, <1>5

LEMMA PurgeCommitInv ==
  ASSUME Inv, NEW r \in Requests, PurgeCommit(r)
  PROVE  Inv'
<1> DEFINE q == requests[r]
           c == q.consumable
<1>1. /\ Knows(r, q) /\ q \in Request /\ c \in Consumables /\ SeenClosed(q)
  BY DEF Inv, RequestsOK, PurgeCommit, At, Knows
<1>2. /\ Finish(r) /\ lock[c] = None /\ PurgeForeignKey(q) /\ booked' = booked
  BY DEF PurgeCommit
<1>3. /\ stock' \in [Consumables -> Consumable]
      /\ \A x \in Consumables \ {c} : stock'[x] = stock[x]
      /\ usages' \in [Usages -> Usage]
      /\ \A u \in Usages :
           /\ usages[u].consumable = c => usages'[u].consumable = None
           /\ usages[u].consumable # c => usages'[u] = usages[u]
           /\ usages'[u].used = usages[u].used
  BY PurgeCommitTables
<1>4. /\ reservations' \in [Reservations -> Reservation]
      /\ \A v \in Reservations \ q.seen : reservations'[v] = reservations[v]
      /\ \A v \in q.seen :
           /\ reservations'[v].consumable = None
           /\ reservations'[v].used = reservations[v].used
           /\ reservations'[v].fulfilled = reservations[v].fulfilled
           /\ reservations[v].cancelled => reservations'[v].cancelled
           /\ v \in q.resvs => reservations'[v].cancelled
  BY PurgeCommitTables
<1>5. NoDanglingReference'
  <2>1. \A u \in Usages : usages'[u].consumable # None => (RowExists(usages[u].consumable))'
    BY <1>3 DEF Inv, TablesOK, NoDanglingReference, RowExists, Usage
  <2>2. ASSUME NEW v \in Reservations
        PROVE  /\ reservations'[v].consumable # None => (RowExists(reservations[v].consumable))'
               /\ IsOpen(v)' => reservations'[v].consumable # None
    <3>1. CASE v \in q.seen
      BY <1>1, <1>4, <3>1 DEF SeenClosed, IsOpen
    <3>2. CASE v \notin q.seen
      <4>1. reservations'[v] = reservations[v] /\ reservations[v].consumable # c
        BY <1>2, <1>4, <3>2 DEF PurgeForeignKey
      <4>2. reservations[v].consumable \in Consumables \cup {None}
        BY DEF Inv, TablesOK, Reservation
      <4> QED
        BY <1>3, <4>1, <4>2 DEF Inv, TablesOK, NoDanglingReference, IsOpen, RowExists
    <3> QED
      BY <3>1, <3>2
  <2> QED
    BY <2>1, <2>2 DEF NoDanglingReference
<1>6. TablesOK'
  <2>1. \A v \in Reservations : ~reservations'[v].used =>
          reservations'[v].consumable = None /\ ~reservations'[v].fulfilled
    BY <1>1, <1>4 DEF Inv, TablesOK, SeenClosed
  <2>2. \A u \in Usages : ~usages'[u].used => usages'[u].consumable = None
    BY <1>3 DEF Inv, TablesOK
  <2> QED
    BY <1>2, <1>3, <1>4, <1>5, <2>1, <2>2, FinishLock DEF Inv, TablesOK
<1>7. ReservationsKept(r)
  <2>1. \A v \in q.seen : reservations[v].consumable \in {c, None}
    BY <1>1 DEF SeenClosed
  <2> QED
    BY <1>2, <1>4, <2>1, NoneAssumption DEF ReservationsKept
<1>8. \A s \in Requests \ {r} : \A x \in Consumables : lock[x] = s => RowExists(x) /\ x # c
  BY <1>2, LockedRowExists, NoneAssumption
<1> QED
  BY <1>2, <1>3, <1>6, <1>7, <1>8, FinishInv DEF RowExists

\* create_consumable adds a row that nothing points to.
LEMMA CreateConsumableInv ==
  ASSUME Inv, NEW c \in Consumables, NEW n \in 0..MaxStock, NEW d \in Departments,
         CreateConsumable(c, n, d)
  PROVE  Inv'
<1>1. /\ stock' \in [Consumables -> Consumable] /\ booked' \in [Consumables -> Int]
      /\ \A x \in Consumables : RowExists(x) => stock'[x] = stock[x]
      /\ UNCHANGED <<usages, reservations, lock, requests>>
  BY StockAssumption DEF CreateConsumable, Inv, TablesOK, Consumable, Life, RowExists
<1>2. TablesOK'
  <2>1. /\ \A x \in Usages : usages[x].consumable \in Consumables \cup {None}
        /\ \A v \in Reservations : reservations[v].consumable \in Consumables \cup {None}
    BY DEF Inv, TablesOK, Usage, Reservation
  <2>2. NoDanglingReference'
    BY <1>1, <2>1 DEF Inv, TablesOK, NoDanglingReference, IsOpen, RowExists
  <2> QED
    BY <1>1, <2>2 DEF Inv, TablesOK
<1>3. LocksOK'
  BY <1>1 DEF Inv, LocksOK
<1>4. RequestsOK'
  <2> SUFFICES ASSUME NEW s \in Requests PROVE Knows(s, requests[s])'
    BY <1>1 DEF RequestsOK, Inv
  <2>1. Knows(s, requests[s])
    BY DEF Inv, RequestsOK
  <2>2. requests[s].pc \in Holding => HoldsRow(s, requests[s])'
    BY <1>1, <2>1 DEF Knows, HoldsRow, RowExists, Holding, Loaded
  <2>3. FoundOwn(requests[s])' = FoundOwn(requests[s])
    BY <1>1 DEF FoundOwn
  <2>4. SeenClosed(requests[s])' = SeenClosed(requests[s])
    BY <1>1 DEF SeenClosed, IsOpen
  <2> QED
    BY <1>1, <2>1, <2>2, <2>3, <2>4 DEF Knows
<1> QED
  BY <1>2, <1>3, <1>4 DEF Inv

-----------------------------------------------------------------------------
LEMMA HandleInv ==
  ASSUME Inv, NEW r \in Requests, Handle(r)
  PROVE  Inv'
<1>1. CASE Abort(r)
  BY <1>1, AbortInv
<1>2. CASE \E op \in Loaded, c \in Consumables : Load(r, op, c)
  BY <1>2, LoadInv
<1>3. CASE \E w \in Workers, n \in Amounts : ConsumeUpdate(r, w, n)
  BY <1>3, ConsumeUpdateInv
<1>4. CASE ConsumeFind(r)
  BY <1>4, ConsumeFindInv
<1>5. CASE \E u \in Usages : ConsumeCommit(r, u)
  BY <1>5, ConsumeCommitInv
<1>6. CASE \E delta \in Deltas, w \in Workers \cup {None} : AdjustUpdate(r, delta, w)
  BY <1>6, AdjustUpdateInv
<1>7. CASE AdjustCommit(r)
  BY <1>7, AdjustCommitInv
<1>8. CASE \E w \in Workers, n \in Amounts : ReserveCheck(r, w, n)
  BY <1>8, ReserveCheckInv
<1>9. CASE \E v \in Reservations : ReserveCommit(r, v)
  BY <1>9, ReserveCommitInv
<1>10. CASE \E v \in Reservations : CancelLoad(r, v)
  BY <1>10, CancelLoadInv
<1>11. CASE CancelCommit(r)
  BY <1>11, CancelCommitInv
<1>12. CASE \E d \in Departments : EditCheck(r, d)
  BY <1>12, EditCheckInv
<1>13. CASE EditCommit(r) \/ DeleteCommit(r) \/ RestoreCommit(r)
  BY <1>13, RowCommitsInv
<1>14. CASE \E c \in Consumables : RestoreLoad(r, c)
  BY <1>14, RestoreLoadInv
<1>15. CASE \E c \in Consumables, force \in Forces : PurgeLoad(r, c, force)
  BY <1>15, PurgeLoadInv
<1>16. CASE PurgeCommit(r)
  BY <1>16, PurgeCommitInv
<1> QED
  BY <1>1, <1>2, <1>3, <1>4, <1>5, <1>6, <1>7, <1>8, <1>9, <1>10, <1>11, <1>12,
     <1>13, <1>14, <1>15, <1>16 DEF Handle

LEMMA InitInv == Init => Inv
<1> SUFFICES ASSUME Init PROVE Inv
  OBVIOUS
<1>1. TablesOK
  <2>1. stock \in [Consumables -> Consumable]
    BY StockAssumption DEF Init, Consumable, Life
  <2>2. usages \in [Usages -> Usage]
    BY StockAssumption DEF Init, Usage
  <2>3. reservations \in [Reservations -> Reservation]
    BY StockAssumption DEF Init, Reservation
  <2>4. NoDanglingReference
    BY DEF Init, NoDanglingReference, IsOpen
  <2>5. /\ lock \in [Consumables -> Requests \cup {None}]
        /\ booked \in [Consumables -> Int]
    BY DEF Init
  <2>6. /\ \A u \in Usages : usages[u].consumable = None
        /\ \A v \in Reservations : reservations[v].consumable = None /\ ~reservations[v].fulfilled
    BY DEF Init
  <2> QED
    BY <2>1, <2>2, <2>3, <2>4, <2>5, <2>6 DEF TablesOK
<1>2. LocksOK
  BY DEF Init, LocksOK
<1>3. RequestsOK
  <2>1. Idle \in Request /\ Idle.pc = "idle"
    BY IdleIsRequest DEF Idle
  <2>2. \A r \in Requests : Knows(r, Idle)
    BY <2>1 DEF Knows, Holding, Loaded
  <2> QED
    BY <2>1, <2>2 DEF Init, RequestsOK
<1> QED
  BY <1>1, <1>2, <1>3 DEF Inv

LEMMA StutterInv ==
  ASSUME Inv, UNCHANGED vars
  PROVE  Inv'
BY DEF Inv, vars, tables, TablesOK, NoDanglingReference, IsOpen, RowExists, LocksOK,
       RequestsOK, Knows, HoldsRow, FoundOwn, SeenClosed

LEMMA NextInv ==
  ASSUME Inv, [Next]_vars
  PROVE  Inv'
<1>1. CASE \E r \in Requests : Handle(r)
  BY <1>1, HandleInv
<1>2. CASE \E c \in Consumables, n \in 0..MaxStock, d \in Departments : CreateConsumable(c, n, d)
  BY <1>2, CreateConsumableInv
<1>3. CASE UNCHANGED vars
  BY <1>3, StutterInv
<1> QED
  BY <1>1, <1>2, <1>3 DEF Next

LEMMA InvHolds == Spec => []Inv
BY InitInv, NextInv, PTL DEF Spec

\* However withdrawals, adjustments, reservations, edits and purges interleave,
\* the stock of a row stays between zero and what its column holds, a row is
\* locked only by the request that is about to commit its new amount, and no
\* usage or reservation points to a consumable that is gone.
THEOREM TypeCorrect == Spec => []TypeOK
<1>1. Inv => TypeOK
  BY DEF Inv, TablesOK, LocksOK, RequestsOK, TypeOK, Holding
<1> QED
  BY <1>1, InvHolds, PTL

-----------------------------------------------------------------------------
\* What a request that holds a row knows of it when it commits.
LEMMA Holder ==
  ASSUME Inv, NEW r \in Requests, requests[r].pc \in {"consume.commit", "adjust.commit"},
         NEW c, c = requests[r].consumable
  PROVE  /\ c \in Consumables
         /\ requests[r] \in Request /\ HoldsRow(r, requests[r])
         /\ stock[c].quantity \in 0..MaxStock /\ requests[r].delta \in Int
         /\ requests[r].delta < 0 => -requests[r].delta \in 1..MaxStock
<1>1. c \in Consumables /\ requests[r] \in Request /\ HoldsRow(r, requests[r])
  BY DEF Inv, RequestsOK, Knows, Holding, Loaded
<1>2. stock[c].quantity \in 0..MaxStock /\ requests[r].delta \in Int
  BY <1>1 DEF Inv, TablesOK, Consumable, Request
<1> QED
  BY <1>1, <1>2, StockAssumption DEF HoldsRow

\* A withdrawal adds one usage, of the row and the worker of the request.
LEMMA LogUsageTable ==
  ASSUME Inv, NEW r \in Requests, requests[r].pc \in {"consume.commit", "adjust.commit"},
         requests[r].delta < 0, NEW u \in Usages, LogUsage(u, requests[r]),
         NEW c, c = requests[r].consumable
  PROVE  /\ usages[u].consumable = None
         /\ usages'[u].consumable = c
         /\ usages'[u].worker = requests[r].worker
         /\ usages'[u].quantity = -requests[r].delta
         /\ \A x \in Usages \ {u} : usages'[x] = usages[x]
BY DEF Inv, TablesOK, LogUsage

\* The units that were withdrawn are finitely many.
LEMMA WithdrawnFinite ==
  ASSUME NEW c
  PROVE  IsFiniteSet(Withdrawn(c)) /\ Cardinality(Withdrawn(c)) \in Nat
<1>1. IsFiniteSet(1..MaxStock)
  BY StockAssumption, FS_Interval
<1>2. IsFiniteSet(Usages \X (1..MaxStock))
  BY <1>1, StockAssumption, FS_Product
<1>3. Withdrawn(c) \in SUBSET (Usages \X (1..MaxStock))
  BY DEF Withdrawn
<1>4. IsFiniteSet(Withdrawn(c))
  BY <1>2, <1>3, FS_Subset
<1> QED
  BY <1>4, FS_CardinalityType

\* A new usage of n units adds n to what was withdrawn of its consumable, and
\* nothing to what was withdrawn of others.
LEMMA LogWithdraws ==
  ASSUME NEW c \in Consumables, NEW n \in 1..MaxStock, NEW u \in Usages,
         usages[u].consumable = None, usages'[u].consumable = c, usages'[u].quantity = n,
         \A x \in Usages \ {u} : usages'[x] = usages[x]
  PROVE  /\ Cardinality(Withdrawn(c)') = Cardinality(Withdrawn(c)) + n
         /\ \A x \in Consumables \ {c} : Withdrawn(x)' = Withdrawn(x)
<1> DEFINE new == {u} \X (1..n)
<1>1. n \in Nat /\ n >= 1 /\ (1..n) \subseteq (1..MaxStock)
  BY StockAssumption
<1>2. IsFiniteSet(new) /\ Cardinality(new) = n
  <2>1. IsFiniteSet(1..n) /\ Cardinality(1..n) = n
    BY <1>1, FS_Interval
  <2>2. IsFiniteSet({u}) /\ Cardinality({u}) = 1
    BY FS_Singleton
  <2>3. IsFiniteSet({u} \X (1..n)) /\ Cardinality({u} \X (1..n)) = 1 * n
    BY <2>1, <2>2, FS_Product
  <2> QED
    BY <1>1, <2>3
<1>3. \A unit \in Usages \X (1..MaxStock) :
        /\ unit[1] \in Usages /\ unit[2] \in 1..MaxStock
        /\ unit \in new <=> unit[1] = u /\ unit[2] <= n
  BY <1>1
<1>4. new \subseteq Usages \X (1..MaxStock)
  BY <1>1
<1>5. Withdrawn(c)' = Withdrawn(c) \cup new
  <2>1. \A unit \in Usages \X (1..MaxStock) :
          unit \in Withdrawn(c)' <=> unit \in Withdrawn(c) \cup new
    BY <1>3, NoneAssumption DEF Withdrawn
  <2>2. Withdrawn(c)' \subseteq Usages \X (1..MaxStock)
    BY DEF Withdrawn
  <2>3. Withdrawn(c) \subseteq Usages \X (1..MaxStock)
    BY DEF Withdrawn
  <2> QED
    BY <1>4, <2>1, <2>2, <2>3
<1>6. Withdrawn(c) \cap new = {}
  <2>1. Withdrawn(c) \subseteq Usages \X (1..MaxStock)
    BY DEF Withdrawn
  <2>2. \A unit \in Withdrawn(c) : unit[1] # u
    BY NoneAssumption DEF Withdrawn
  <2> QED
    BY <1>3, <2>1, <2>2
<1>7. Cardinality(Withdrawn(c) \cup new) = Cardinality(Withdrawn(c)) + Cardinality(new)
                                             - Cardinality(Withdrawn(c) \cap new)
  BY <1>2, WithdrawnFinite, FS_Union
<1>8. Cardinality(Withdrawn(c)') = Cardinality(Withdrawn(c)) + n
  <2> HIDE DEF new
  <2>1. Cardinality(Withdrawn(c) \cup new) = Cardinality(Withdrawn(c)) + n - 0
    BY <1>2, <1>6, <1>7, FS_EmptySet
  <2>2. Cardinality(Withdrawn(c)) \in Nat
    BY WithdrawnFinite
  <2>3. Cardinality(Withdrawn(c) \cup new) = Cardinality(Withdrawn(c)) + n
    BY <1>1, <2>1, <2>2
  <2>4. Cardinality(Withdrawn(c)') = Cardinality(Withdrawn(c) \cup new)
    BY <1>5
  <2> QED
    BY <2>3, <2>4
<1>9. ASSUME NEW x \in Consumables \ {c}
      PROVE  Withdrawn(x)' = Withdrawn(x)
  <2>1. \A unit \in Usages \X (1..MaxStock) : unit \in Withdrawn(x)' <=> unit \in Withdrawn(x)
    BY <1>3, NoneAssumption DEF Withdrawn
  <2>2. Withdrawn(x)' \subseteq Usages \X (1..MaxStock)
    BY DEF Withdrawn
  <2>3. Withdrawn(x) \subseteq Usages \X (1..MaxStock)
    BY DEF Withdrawn
  <2> QED
    BY <2>1, <2>2, <2>3
<1> QED
  BY <1>8, <1>9

-----------------------------------------------------------------------------
\* A step that moves no stock, logs no withdrawal and fulfils no reservation.
Quiet ==
  /\ UNCHANGED <<usages, booked>>
  /\ \A c \in Consumables : stock'[c].quantity = stock[c].quantity /\ (RowExists(c)' => RowExists(c))
  /\ \A v \in Reservations : reservations'[v].fulfilled =>
       /\ reservations[v].fulfilled
       /\ reservations'[v].consumable = reservations[v].consumable
       /\ reservations'[v].worker = reservations[v].worker

LEMMA TablesQuiet ==
  ASSUME UNCHANGED <<tables, booked>>
  PROVE  Quiet
BY DEF Quiet, tables, RowExists

\* Every handler but the three commits below is quiet.
LEMMA HandlersQuiet ==
  ASSUME Inv, NEW r \in Requests, Handle(r), \A u \in Usages : ~ConsumeCommit(r, u),
         ~AdjustCommit(r), ~PurgeCommit(r)
  PROVE  Quiet
<1>0. stock \in [Consumables -> Consumable] /\ reservations \in [Reservations -> Reservation]
  BY DEF Inv, TablesOK
<1>1. CASE Abort(r)
  BY <1>1, TablesQuiet DEF Abort
<1>2. CASE \/ \E op \in Loaded, c \in Consumables : Load(r, op, c)
           \/ \E v \in Reservations : CancelLoad(r, v)
           \/ \E c \in Consumables : RestoreLoad(r, c)
  BY <1>2, TablesQuiet DEF Load, CancelLoad, RestoreLoad, Keep, tables
<1>3. CASE \/ \E w \in Workers, n \in Amounts : ReserveCheck(r, w, n)
           \/ \E d \in Departments : EditCheck(r, d)
  BY <1>3, TablesQuiet DEF ReserveCheck, EditCheck, Keep, tables
<1>4. CASE ConsumeFind(r)
  BY <1>4, TablesQuiet DEF ConsumeFind, Keep, tables
<1>5. CASE \E c \in Consumables, force \in Forces : PurgeLoad(r, c, force)
  BY <1>5, TablesQuiet DEF PurgeLoad, Keep, tables
<1>6. CASE \E w \in Workers, n \in Amounts : ConsumeUpdate(r, w, n)
  BY <1>6, TablesQuiet DEF ConsumeUpdate, tables
<1>7. CASE \E delta \in Deltas, w \in Workers \cup {None} : AdjustUpdate(r, delta, w)
  BY <1>7, TablesQuiet DEF AdjustUpdate, tables
<1>8. CASE \E v \in Reservations : ReserveCommit(r, v)
  <2>1. PICK v \in Reservations : ReserveCommit(r, v)
    BY <1>8
  <2>2. /\ \A x \in Reservations \ {v} : reservations'[x] = reservations[x]
        /\ ~reservations'[v].fulfilled /\ UNCHANGED <<stock, usages, booked>>
    BY <1>0, <2>1 DEF ReserveCommit
  <2> QED
    BY <2>2 DEF Quiet, RowExists
<1>9. CASE CancelCommit(r)
  <2>1. /\ reservations' = Cancel(requests[r].resvs) /\ UNCHANGED <<stock, usages, booked>>
    BY <1>9 DEF CancelCommit
  <2>2. \A v \in Reservations :
          /\ reservations'[v].fulfilled = reservations[v].fulfilled
          /\ reservations'[v].consumable = reservations[v].consumable
          /\ reservations'[v].worker = reservations[v].worker
    BY <1>0, <2>1 DEF Cancel, Reservation
  <2> QED
    BY <2>1, <2>2 DEF Quiet, RowExists
<1>10. CASE EditCommit(r) \/ DeleteCommit(r) \/ RestoreCommit(r)
  <2>1. RowExists(requests[r].consumable) /\ UNCHANGED <<usages, reservations, booked>>
    BY <1>10 DEF EditCommit, DeleteCommit, RestoreCommit
  <2>2. \A c \in Consumables : /\ stock'[c].quantity = stock[c].quantity
                               /\ c # requests[r].consumable => stock'[c] = stock[c]
    BY <1>0, <1>10 DEF EditCommit, DeleteCommit, RestoreCommit, Consumable
  <2> QED
    BY <2>1, <2>2 DEF Quiet, RowExists
<1> QED
  BY <1>1, <1>2, <1>3, <1>4, <1>5, <1>6, <1>7, <1>8, <1>9, <1>10 DEF Handle

\* What the commit of a withdrawal or an adjustment does to the row it locked.
LEMMA CommitStock ==
  ASSUME Inv, NEW r \in Requests, requests[r].pc \in {"consume.commit", "adjust.commit"},
         NEW c, c = requests[r].consumable,
         stock' = [stock EXCEPT ![c].quantity = @ + requests[r].delta]
  PROVE  /\ c \in Consumables
         /\ stock'[c].quantity = stock[c].quantity + requests[r].delta
         /\ \A x \in Consumables \ {c} : stock'[x] = stock[x]
         /\ \A x \in Consumables : RowExists(x)' <=> RowExists(x)
<1>1. c \in Consumables
  BY Holder
<1> QED
  BY <1>1 DEF Inv, TablesOK, Consumable, RowExists

\* A withdrawal takes from the stock as many units as its usage says.
LEMMA WithdrawalBalances ==
  ASSUME Inv, StockBalances, NEW r \in Requests,
         requests[r].pc \in {"consume.commit", "adjust.commit"}, requests[r].delta < 0,
         NEW u \in Usages, LogUsage(u, requests[r]),
         stock' = [stock EXCEPT ![requests[r].consumable].quantity = @ + requests[r].delta],
         booked' = booked
  PROVE  StockBalances'
<1>0. PICK c \in Consumables : c = requests[r].consumable
  BY Holder
<1>00. PICK n \in 1..MaxStock : n = -requests[r].delta
  BY Holder
<1>1. /\ c \in Consumables /\ n \in 1..MaxStock /\ requests[r].delta \in Int
      /\ stock[c].quantity \in 0..MaxStock /\ RowExists(c)
  BY <1>0, <1>00, Holder DEF HoldsRow
<1>2. /\ stock'[c].quantity = stock[c].quantity + requests[r].delta
      /\ \A x \in Consumables \ {c} : stock'[x] = stock[x]
      /\ \A x \in Consumables : RowExists(x)' <=> RowExists(x)
  BY <1>0, CommitStock
<1>3. /\ Cardinality(Withdrawn(c)') = Cardinality(Withdrawn(c)) + n
      /\ \A x \in Consumables \ {c} : Withdrawn(x)' = Withdrawn(x)
  <2>1. /\ usages[u].consumable = None /\ usages'[u].consumable = c
        /\ usages'[u].quantity = n
        /\ \A x \in Usages \ {u} : usages'[x] = usages[x]
    BY <1>0, <1>00, LogUsageTable
  <2> QED
    BY <1>1, <2>1, LogWithdraws
<1>4. stock[c].quantity = booked[c] - Cardinality(Withdrawn(c))
  BY <1>1 DEF StockBalances
<1>5. booked[c] \in Int /\ Cardinality(Withdrawn(c)) \in Nat
  BY <1>1, WithdrawnFinite DEF Inv, TablesOK
<1>6. stock'[c].quantity = booked'[c] - Cardinality(Withdrawn(c)')
  BY <1>00, <1>1, <1>2, <1>3, <1>4, <1>5
<1>7. ASSUME NEW x \in Consumables \ {c}, RowExists(x)'
      PROVE  stock'[x].quantity = booked'[x] - Cardinality(Withdrawn(x)')
  BY <1>2, <1>3, <1>7 DEF StockBalances
<1> QED
  BY <1>6, <1>7 DEF StockBalances

\* An adjustment that logs no usage is booked.
LEMMA AdjustmentBalances ==
  ASSUME Inv, StockBalances, NEW r \in Requests, requests[r].pc = "adjust.commit",
         stock' = [stock EXCEPT ![requests[r].consumable].quantity = @ + requests[r].delta],
         booked' = [booked EXCEPT ![requests[r].consumable] = @ + requests[r].delta],
         usages' = usages
  PROVE  StockBalances'
<1>0. PICK c \in Consumables : c = requests[r].consumable
  BY Holder
<1>1. /\ c \in Consumables /\ requests[r].delta \in Int
      /\ stock[c].quantity \in 0..MaxStock /\ RowExists(c)
  BY <1>0, Holder DEF HoldsRow
<1>2. /\ stock'[c].quantity = stock[c].quantity + requests[r].delta
      /\ \A x \in Consumables \ {c} : stock'[x] = stock[x]
      /\ \A x \in Consumables : RowExists(x)' <=> RowExists(x)
  BY <1>0, CommitStock
<1>3. \A x \in Consumables : Withdrawn(x)' = Withdrawn(x)
  BY DEF Withdrawn
<1>4. /\ booked \in [Consumables -> Int] /\ booked'[c] = booked[c] + requests[r].delta
      /\ \A x \in Consumables \ {c} : booked'[x] = booked[x]
  BY <1>0, <1>1 DEF Inv, TablesOK
<1>5. stock[c].quantity = booked[c] - Cardinality(Withdrawn(c))
  BY <1>1 DEF StockBalances
<1>6. booked[c] \in Int /\ Cardinality(Withdrawn(c)) \in Nat
  BY <1>1, <1>4, WithdrawnFinite
<1>7. stock'[c].quantity = booked'[c] - Cardinality(Withdrawn(c)')
  BY <1>1, <1>2, <1>3, <1>4, <1>5, <1>6
<1>8. ASSUME NEW x \in Consumables \ {c}, RowExists(x)'
      PROVE  stock'[x].quantity = booked'[x] - Cardinality(Withdrawn(x)')
  BY <1>2, <1>3, <1>4, <1>8 DEF StockBalances
<1> QED
  BY <1>7, <1>8 DEF StockBalances

\* A purge takes the row away and leaves the usages of other rows alone.
LEMMA PurgeBalances ==
  ASSUME Inv, StockBalances, NEW r \in Requests, PurgeCommit(r)
  PROVE  StockBalances'
<1>1. PICK c \in Consumables : c = requests[r].consumable
  BY DEF Inv, RequestsOK, PurgeCommit, At, Knows
<1>2. /\ \A x \in Consumables \ {c} : stock'[x] = stock[x]
      /\ \A u \in Usages : /\ usages[u].consumable = c => usages'[u].consumable = None
                           /\ usages[u].consumable # c => usages'[u] = usages[u]
  BY <1>1, PurgeCommitTables
<1>3. ~RowExists(c)' /\ booked' = booked
  BY <1>1 DEF PurgeCommit, RowExists, Inv, TablesOK, Consumable
<1>4. ASSUME NEW x \in Consumables \ {c}
      PROVE  Withdrawn(x)' = Withdrawn(x)
  <2>1. \A unit \in Usages \X (1..MaxStock) : unit \in Withdrawn(x)' <=> unit \in Withdrawn(x)
    BY <1>2, NoneAssumption DEF Withdrawn
  <2>2. Withdrawn(x)' \subseteq Usages \X (1..MaxStock)
    BY DEF Withdrawn
  <2>3. Withdrawn(x) \subseteq Usages \X (1..MaxStock)
    BY DEF Withdrawn
  <2> QED
    BY <2>1, <2>2, <2>3
<1> SUFFICES ASSUME NEW x \in Consumables, RowExists(x)'
             PROVE  stock'[x].quantity = booked'[x] - Cardinality(Withdrawn(x)')
  BY DEF StockBalances
<1>5. x # c
  BY <1>3
<1>6. RowExists(x) /\ stock'[x] = stock[x]
  BY <1>2, <1>5 DEF RowExists
<1> QED
  BY <1>3, <1>4, <1>5, <1>6 DEF StockBalances

\* Nothing was withdrawn of a consumable that is just being created.
LEMMA CreateBalances ==
  ASSUME Inv, StockBalances, NEW c \in Consumables, NEW n \in 0..MaxStock,
         NEW d \in Departments, CreateConsumable(c, n, d)
  PROVE  StockBalances'
<1>1. /\ stock'[c].quantity = n /\ booked'[c] = n /\ ~RowExists(c) /\ usages' = usages
      /\ \A x \in Consumables \ {c} : stock'[x] = stock[x] /\ booked'[x] = booked[x]
  BY DEF CreateConsumable, RowExists, Inv, TablesOK
<1>2. \A x \in Consumables : Withdrawn(x)' = Withdrawn(x)
  BY <1>1 DEF Withdrawn
<1>3. Withdrawn(c) = {}
  BY <1>1, NoneAssumption DEF Withdrawn, Inv, TablesOK, NoDanglingReference
<1>4. Cardinality(Withdrawn(c)') = 0
  BY <1>2, <1>3, FS_EmptySet
<1>5. n \in Int /\ n = n - 0
  OBVIOUS
<1>6. stock'[c].quantity = booked'[c] - Cardinality(Withdrawn(c)')
  BY <1>1, <1>4, <1>5
<1>7. ASSUME NEW x \in Consumables \ {c}, RowExists(x)'
      PROVE  stock'[x].quantity = booked'[x] - Cardinality(Withdrawn(x)')
  BY <1>1, <1>2, <1>7 DEF StockBalances, RowExists
<1> QED
  BY <1>6, <1>7 DEF StockBalances

LEMMA QuietBalances ==
  ASSUME StockBalances, Quiet
  PROVE  StockBalances'
<1>1. \A c \in Consumables : Withdrawn(c)' = Withdrawn(c)
  BY DEF Quiet, Withdrawn
<1> QED
  BY <1>1 DEF Quiet, StockBalances

LEMMA StepBalances ==
  ASSUME Inv, StockBalances, [Next]_vars
  PROVE  StockBalances'
<1>1. ASSUME NEW r \in Requests, Handle(r)
      PROVE  StockBalances'
  <2>1. CASE \E u \in Usages : ConsumeCommit(r, u)
    <3>1. PICK u \in Usages : ConsumeCommit(r, u)
      BY <2>1
    <3>2. requests[r].pc = "consume.commit" /\ requests[r].delta < 0
      BY <3>1 DEF ConsumeCommit, At, Inv, RequestsOK, Knows
    <3> QED
      BY <3>1, <3>2, WithdrawalBalances DEF ConsumeCommit
  <2>2. CASE AdjustCommit(r)
    <3>1. requests[r].pc = "adjust.commit"
      BY <2>2 DEF AdjustCommit, At
    <3>2. CASE requests[r].delta < 0 /\ \E u \in Usages : LogUsage(u, requests[r]) /\ booked' = booked
      BY <2>2, <3>1, <3>2, WithdrawalBalances DEF AdjustCommit
    <3>3. CASE usages' = usages
               /\ booked' = [booked EXCEPT ![requests[r].consumable] = @ + requests[r].delta]
      BY <2>2, <3>1, <3>3, AdjustmentBalances DEF AdjustCommit
    <3> QED
      BY <2>2, <3>2, <3>3 DEF AdjustCommit
  <2>3. CASE PurgeCommit(r)
    BY <2>3, PurgeBalances
  <2> QED
    BY <1>1, <2>1, <2>2, <2>3, HandlersQuiet, QuietBalances
<1>2. CASE \E c \in Consumables, n \in 0..MaxStock, d \in Departments : CreateConsumable(c, n, d)
  BY <1>2, CreateBalances
<1>3. CASE UNCHANGED vars
  BY <1>3, TablesQuiet, QuietBalances DEF vars
<1> QED
  BY <1>1, <1>2, <1>3 DEF Next

\* No update of the stock is lost or applied twice, however many withdrawals,
\* adjustments and edits of one row overlap: what is there is what was booked
\* in minus the logged withdrawals (scan_consume and adjust_consumable add a
\* delta in the database, under the lock of the row).
THEOREM StockBalancesHolds == Spec => []StockBalances
<1>1. Init => StockBalances
  BY DEF Init, StockBalances, RowExists
<1> QED
  BY <1>1, InvHolds, StepBalances, PTL DEF Spec

-----------------------------------------------------------------------------
\* The two sides of FulfilledMeansWithdrawn.
UsedUp(c, w) == {v \in Reservations : /\ reservations[v].fulfilled
                                      /\ reservations[v].consumable = c
                                      /\ reservations[v].worker = w}

TakenBy(c, w) == {u \in Usages : usages[u].consumable = c /\ usages[u].worker = w}

LEMMA CountsFinite ==
  ASSUME NEW c, NEW w
  PROVE  /\ IsFiniteSet(UsedUp(c, w)) /\ Cardinality(UsedUp(c, w)) \in Nat
         /\ IsFiniteSet(TakenBy(c, w)) /\ Cardinality(TakenBy(c, w)) \in Nat
<1>1. UsedUp(c, w) \in SUBSET Reservations /\ TakenBy(c, w) \in SUBSET Usages
  BY DEF UsedUp, TakenBy
<1>2. IsFiniteSet(UsedUp(c, w)) /\ IsFiniteSet(TakenBy(c, w))
  BY <1>1, StockAssumption, FS_Subset
<1> QED
  BY <1>2, FS_CardinalityType

\* A set that loses elements, or gains one where the other gains one too, is
\* still no larger than the other.
LEMMA StillCovered ==
  ASSUME NEW F, IsFiniteSet(F), NEW G, NEW T, IsFiniteSet(T), NEW U, IsFiniteSet(U),
         Cardinality(F) <= Cardinality(T), T \subseteq U,
         \/ G \subseteq F
         \/ \E x : G \subseteq F \cup {x} /\ \E u \in U : u \notin T
  PROVE  Cardinality(G) <= Cardinality(U)
<1>1. Cardinality(F) \in Nat /\ Cardinality(T) \in Nat /\ Cardinality(U) \in Nat
  BY FS_CardinalityType
<1>2. Cardinality(T) <= Cardinality(U)
  BY FS_Subset
<1>3. CASE G \subseteq F
  <2>1. Cardinality(G) <= Cardinality(F) /\ Cardinality(G) \in Nat
    BY <1>3, FS_Subset, FS_CardinalityType
  <2> QED
    BY <1>1, <1>2, <2>1
<1>4. CASE \E x : G \subseteq F \cup {x} /\ \E u \in U : u \notin T
  <2>1. PICK x : G \subseteq F \cup {x} /\ \E u \in U : u \notin T
    BY <1>4
  <2>2. PICK u \in U : u \notin T
    BY <2>1
  <2>3. IsFiniteSet(F \cup {x}) /\ Cardinality(F \cup {x}) <= Cardinality(F) + 1
    <3>1. /\ IsFiniteSet(F \cup {x})
          /\ Cardinality(F \cup {x}) = IF x \in F THEN Cardinality(F) ELSE Cardinality(F) + 1
      BY FS_AddElement
    <3> QED
      BY <1>1, <3>1
  <2>4. /\ IsFiniteSet(G) /\ Cardinality(G) \in Nat
        /\ Cardinality(F \cup {x}) \in Nat /\ Cardinality(G) <= Cardinality(F \cup {x})
    BY <2>1, <2>3, FS_Subset, FS_CardinalityType
  <2>5. IsFiniteSet(T \cup {u}) /\ Cardinality(T \cup {u}) = Cardinality(T) + 1
    BY <2>2, FS_AddElement
  <2>6. Cardinality(T \cup {u}) <= Cardinality(U)
    BY <2>2, FS_Subset
  <2> QED
    BY <1>1, <2>3, <2>4, <2>5, <2>6
<1> QED
  BY <1>3, <1>4

\* A withdrawal that commits uses up at most the reservation it found, which is
\* one of its own worker, and logs a usage of that worker.
LEMMA ConsumeCovers ==
  ASSUME Inv, NEW r \in Requests, NEW u \in Usages, ConsumeCommit(r, u),
         NEW c \in Consumables, NEW w \in Workers
  PROVE  /\ TakenBy(c, w) \subseteq TakenBy(c, w)'
         /\ \/ UsedUp(c, w)' \subseteq UsedUp(c, w)
            \/ \E x : /\ UsedUp(c, w)' \subseteq UsedUp(c, w) \cup {x}
                      /\ \E y \in TakenBy(c, w)' : y \notin TakenBy(c, w)
<1> DEFINE q == requests[r]
<1>1. /\ q.pc = "consume.commit" /\ q.delta < 0 /\ q.resvs \subseteq Reservations
      /\ FoundOwn(q)
  BY DEF ConsumeCommit, At, Inv, RequestsOK, Knows, Request
<1>2. /\ usages[u].consumable = None /\ usages'[u].consumable = q.consumable
      /\ usages'[u].worker = q.worker
      /\ \A x \in Usages \ {u} : usages'[x] = usages[x]
  BY <1>1, LogUsageTable DEF ConsumeCommit
<1>3. \A v \in Reservations :
        /\ reservations'[v].consumable = reservations[v].consumable
        /\ reservations'[v].worker = reservations[v].worker
        /\ v \notin q.resvs => reservations'[v].fulfilled = reservations[v].fulfilled
  BY DEF ConsumeCommit, Fulfil, Inv, TablesOK, Reservation
<1>4. TakenBy(c, w) \subseteq TakenBy(c, w)'
  BY <1>2, NoneAssumption DEF TakenBy
<1>5. CASE c = q.consumable /\ w = q.worker
  <2>1. u \in TakenBy(c, w)' /\ u \notin TakenBy(c, w)
    BY <1>2, <1>5, NoneAssumption DEF TakenBy
  <2>2. CASE q.resvs = {}
    BY <1>3, <1>4, <2>2 DEF UsedUp
  <2>3. CASE q.resvs # {}
    <3>1. PICK x : x \in q.resvs
      BY <2>3
    <3>2. \A v \in q.resvs : v = x
      BY <1>1, <3>1 DEF FoundOwn
    <3>3. UsedUp(c, w)' \subseteq UsedUp(c, w) \cup {x}
      BY <1>3, <3>2 DEF UsedUp
    <3> QED
      BY <1>4, <2>1, <3>3
  <2> QED
    BY <2>2, <2>3
<1>6. CASE ~(c = q.consumable /\ w = q.worker)
  <2>1. UsedUp(c, w)' \subseteq UsedUp(c, w)
    BY <1>1, <1>3, <1>6 DEF UsedUp, FoundOwn
  <2> QED
    BY <1>4, <2>1
<1> QED
  BY <1>5, <1>6

\* No other step uses up a reservation or takes a usage from a row that is left.
LEMMA OthersCover ==
  ASSUME Inv, [Next]_vars, \A r \in Requests, u \in Usages : ~ConsumeCommit(r, u),
         NEW c \in Consumables, NEW w \in Workers
  PROVE  /\ UsedUp(c, w)' \subseteq UsedUp(c, w)
         /\ TakenBy(c, w) \subseteq TakenBy(c, w)' \/ UsedUp(c, w)' = {}
<1>1. CASE Quiet
  BY <1>1 DEF Quiet, UsedUp, TakenBy
<1>2. ASSUME NEW r \in Requests, AdjustCommit(r)
      PROVE  /\ UsedUp(c, w)' \subseteq UsedUp(c, w)
             /\ TakenBy(c, w) \subseteq TakenBy(c, w)'
  <2>1. UsedUp(c, w)' = UsedUp(c, w)
    BY <1>2 DEF AdjustCommit, UsedUp
  <2>2. CASE usages' = usages
    BY <2>1, <2>2 DEF TakenBy
  <2>3. ASSUME NEW u \in Usages, LogUsage(u, requests[r]), requests[r].delta < 0
        PROVE  TakenBy(c, w) \subseteq TakenBy(c, w)'
    <3>1. requests[r].pc = "adjust.commit"
      BY <1>2 DEF AdjustCommit, At
    <3>2. usages[u].consumable = None /\ \A x \in Usages \ {u} : usages'[x] = usages[x]
      BY <2>3, <3>1, LogUsageTable
    <3> QED
      BY <3>2, NoneAssumption DEF TakenBy
  <2> QED
    BY <1>2, <2>1, <2>2, <2>3 DEF AdjustCommit
<1>3. ASSUME NEW r \in Requests, PurgeCommit(r)
      PROVE  /\ UsedUp(c, w)' \subseteq UsedUp(c, w)
             /\ TakenBy(c, w) \subseteq TakenBy(c, w)' \/ UsedUp(c, w)' = {}
  <2>1. PICK x \in Consumables : x = requests[r].consumable
    BY <1>3 DEF Inv, RequestsOK, PurgeCommit, At, Knows
  <2>2. /\ \A u \in Usages : usages[u].consumable # x => usages'[u] = usages[u]
        /\ \A v \in Reservations \ requests[r].seen : reservations'[v] = reservations[v]
        /\ \A v \in requests[r].seen : reservations'[v].consumable = None
    BY <1>3, <2>1, PurgeCommitTables
  <2>3. \A v \in Reservations : reservations[v].consumable = x => v \in requests[r].seen
    BY <1>3, <2>1 DEF PurgeCommit, PurgeForeignKey
  <2>4. UsedUp(c, w)' \subseteq UsedUp(c, w)
    BY <2>2, NoneAssumption DEF UsedUp
  <2>5. c = x => UsedUp(c, w)' = {}
    BY <2>2, <2>3, NoneAssumption DEF UsedUp
  <2>6. c # x => TakenBy(c, w) \subseteq TakenBy(c, w)'
    BY <2>2 DEF TakenBy
  <2> QED
    BY <2>4, <2>5, <2>6
<1>4. CASE \E x \in Consumables, n \in 0..MaxStock, d \in Departments : CreateConsumable(x, n, d)
  BY <1>4 DEF CreateConsumable, UsedUp, TakenBy
<1>5. CASE UNCHANGED vars
  BY <1>1, <1>5, TablesQuiet DEF vars
<1>6. ASSUME NEW r \in Requests, Handle(r)
      PROVE  /\ UsedUp(c, w)' \subseteq UsedUp(c, w)
             /\ TakenBy(c, w) \subseteq TakenBy(c, w)' \/ UsedUp(c, w)' = {}
  BY <1>1, <1>2, <1>3, <1>6, HandlersQuiet
<1> QED
  BY <1>4, <1>5, <1>6 DEF Next

LEMMA FulfilledStep ==
  ASSUME Inv, FulfilledMeansWithdrawn, [Next]_vars
  PROVE  FulfilledMeansWithdrawn'
<1> SUFFICES ASSUME NEW c \in Consumables, NEW w \in Workers
             PROVE  Cardinality(UsedUp(c, w)') <= Cardinality(TakenBy(c, w)')
  BY DEF FulfilledMeansWithdrawn, UsedUp, TakenBy
<1>1. Cardinality(UsedUp(c, w)) <= Cardinality(TakenBy(c, w))
  BY DEF FulfilledMeansWithdrawn, UsedUp, TakenBy
<1>2. IsFiniteSet(UsedUp(c, w)) /\ IsFiniteSet(TakenBy(c, w))
  BY CountsFinite
<1>3. IsFiniteSet(TakenBy(c, w)') /\ Cardinality(TakenBy(c, w)') \in Nat
  <2>1. TakenBy(c, w)' \in SUBSET Usages
    BY DEF TakenBy
  <2>2. IsFiniteSet(TakenBy(c, w)')
    BY <2>1, StockAssumption, FS_Subset
  <2> QED
    BY <2>2, FS_CardinalityType
<1>4. CASE \E r \in Requests, u \in Usages : ConsumeCommit(r, u)
  <2>1. /\ TakenBy(c, w) \subseteq TakenBy(c, w)'
        /\ \/ UsedUp(c, w)' \subseteq UsedUp(c, w)
           \/ \E x : /\ UsedUp(c, w)' \subseteq UsedUp(c, w) \cup {x}
                     /\ \E y \in TakenBy(c, w)' : y \notin TakenBy(c, w)
    BY <1>4, ConsumeCovers
  <2> QED
    BY <1>1, <1>2, <1>3, <2>1, StillCovered
<1>5. CASE \A r \in Requests, u \in Usages : ~ConsumeCommit(r, u)
  <2>1. CASE UsedUp(c, w)' = {}
    BY <1>3, <2>1, FS_EmptySet
  <2>2. CASE TakenBy(c, w) \subseteq TakenBy(c, w)' /\ UsedUp(c, w)' \subseteq UsedUp(c, w)
    BY <1>1, <1>2, <1>3, <2>2, StillCovered
  <2> QED
    BY <1>5, <2>1, <2>2, OthersCover
<1> QED
  BY <1>4, <1>5

\* However withdrawals of one worker interleave, with each other and with
\* cancellations and purges, no two of them use up the same reservation, and a
\* reservation is fulfilled only together with a usage of its own worker
\* (scan_consume looks for it under the lock that its UPDATE took).
THEOREM UsedUpByOneWithdrawalHolds == Spec => []UsedUpByOneWithdrawal
<1>1. Inv => ReservationUsedUpOnce
  BY DEF Inv, RequestsOK, Knows, FoundOwn, ReservationUsedUpOnce, At
<1>2. Init => FulfilledMeansWithdrawn
  <2> SUFFICES ASSUME Init, NEW c \in Consumables, NEW w \in Workers
               PROVE  Cardinality(UsedUp(c, w)) <= Cardinality(TakenBy(c, w))
    BY DEF FulfilledMeansWithdrawn, UsedUp, TakenBy
  <2>1. UsedUp(c, w) = {}
    BY DEF Init, UsedUp
  <2> QED
    BY <2>1, CountsFinite, FS_EmptySet
<1> QED
  BY <1>1, <1>2, InvHolds, FulfilledStep, PTL DEF Spec, UsedUpByOneWithdrawal

-----------------------------------------------------------------------------
(* While requests do not overlap: what the request in flight has loaded and  *)
(* compared is still so when it commits.                                     *)

OneAtATime == \A r, s \in Requests : r # s => At(r, "idle") \/ At(s, "idle")

Current(q) ==
  /\ q.pc \in {"reserve", "reserve.commit", "edit", "edit.commit"} =>
       RowExists(q.consumable) /\ q.dept = stock[q.consumable].dept
  /\ q.pc = "edit.commit" => q.toDept = q.dept \/ OpenReservations(q.consumable) = {}
  /\ q.pc \in {"consume.commit", "cancel", "purge"} => \A v \in q.resvs : IsOpen(v)

Coherent == /\ DepartmentsAgree
            /\ ReservationEndsOnce
            /\ \A r \in Requests : Current(requests[r])

SerialInv == ~overlapped => OneAtATime /\ Coherent

LEMMA HistoryOnly == HSpec => Spec
<1>1. HInit => Init
  BY DEF HInit
<1>2. [HNext]_<<vars, overlapped>> => [Next]_vars
  BY DEF HNext, vars, tables
<1> QED
  BY <1>1, <1>2, PTL DEF HSpec, Spec

\* Steps between the queries of a request: no row changes, the other requests
\* do not notice, and what the request has now read or compared is so.
Quietly(r) == \E q : /\ requests' = [requests EXCEPT ![r] = q]
                     /\ Current(q)
                     /\ UNCHANGED <<stock, reservations>>

LEMMA IdleCurrent == Current(Idle)
BY DEF Current, Idle

LEMMA ReadsQuietly ==
  ASSUME Inv, NEW r \in Requests, Current(requests[r]),
         \/ Abort(r) \/ ConsumeFind(r)
         \/ \E op \in Loaded, c \in Consumables : Load(r, op, c)
         \/ \E w \in Workers, n \in Amounts : ConsumeUpdate(r, w, n) \/ ReserveCheck(r, w, n)
         \/ \E delta \in Deltas, w \in Workers \cup {None} : AdjustUpdate(r, delta, w)
         \/ \E v \in Reservations : CancelLoad(r, v)
         \/ \E d \in Departments : EditCheck(r, d)
         \/ \E c \in Consumables : RestoreLoad(r, c)
         \/ \E c \in Consumables, force \in Forces : PurgeLoad(r, c, force)
  PROVE  Quietly(r)
<1> DEFINE q == requests[r]
<1>0. q \in Request
  BY DEF Inv, RequestsOK
<1>1. ASSUME NEW p, p.pc \notin {"reserve", "reserve.commit", "edit", "edit.commit"},
             p.pc \in {"consume.commit", "cancel", "purge"} => \A v \in p.resvs : IsOpen(v),
             requests' = [requests EXCEPT ![r] = p], UNCHANGED <<stock, reservations>>
      PROVE  Quietly(r)
  BY <1>1 DEF Quietly, Current
<1>2. CASE Abort(r)
  BY <1>2, IdleCurrent DEF Abort, Finish, tables, Quietly
<1>3. CASE ConsumeFind(r)
  <2>1. ASSUME NEW v \in Reservations, IsOpen(v),
               Keep(r, [q EXCEPT !.pc = "consume.commit", !.resvs = {v}])
        PROVE  Quietly(r)
    <3> DEFINE p == [q EXCEPT !.pc = "consume.commit", !.resvs = {v}]
    <3>1. p.pc = "consume.commit" /\ p.resvs = {v}
      BY <1>0 DEF Request
    <3>2. requests' = [requests EXCEPT ![r] = p] /\ UNCHANGED <<stock, reservations>>
      BY <2>1 DEF Keep, Continue, tables
    <3> HIDE DEF p
    <3> QED
      BY <1>1, <2>1, <3>1, <3>2
  <2>2. CASE Keep(r, [q EXCEPT !.pc = "consume.commit"])
    <3> DEFINE p == [q EXCEPT !.pc = "consume.commit"]
    <3>1. p.pc = "consume.commit" /\ p.resvs = {}
      BY <1>0, <1>3 DEF Request, ConsumeFind, At, Inv, RequestsOK, Knows
    <3>2. requests' = [requests EXCEPT ![r] = p] /\ UNCHANGED <<stock, reservations>>
      BY <2>2 DEF Keep, Continue, tables
    <3> HIDE DEF p
    <3> QED
      BY <1>1, <3>1, <3>2
  <2>3. \/ Keep(r, [q EXCEPT !.pc = "consume.commit"])
        \/ \E v \in Reservations :
             IsOpen(v) /\ Keep(r, [q EXCEPT !.pc = "consume.commit", !.resvs = {v}])
    BY <1>3 DEF ConsumeFind, OpenReservations
  <2> QED
    BY <2>1, <2>2, <2>3
<1>4. ASSUME NEW op \in Loaded, NEW c \in Consumables, Load(r, op, c)
      PROVE  Quietly(r)
  <2> DEFINE p == [Idle EXCEPT !.pc = op, !.consumable = c,
                               !.quantity = stock[c].quantity, !.dept = stock[c].dept]
  <2>1. p.pc = op /\ p.consumable = c /\ p.dept = stock[c].dept
    BY DEF Idle
  <2>2. requests' = [requests EXCEPT ![r] = p] /\ UNCHANGED <<stock, reservations>>
    BY <1>4 DEF Load, Keep, Continue, tables
  <2>3. RowExists(c)
    BY <1>4 DEF Load, RowExists
  <2> HIDE DEF p
  <2> QED
    BY <2>1, <2>2, <2>3 DEF Quietly, Current, Loaded
<1>5. ASSUME NEW w \in Workers, NEW n \in Amounts, ConsumeUpdate(r, w, n)
      PROVE  Quietly(r)
  <2>1. [q EXCEPT !.pc = "consume.find", !.worker = w, !.delta = -n].pc = "consume.find"
    BY <1>0 DEF Request
  <2> QED
    BY <1>1, <1>5, <2>1 DEF ConsumeUpdate, Continue, tables
<1>6. ASSUME NEW w \in Workers, NEW n \in Amounts, ReserveCheck(r, w, n)
      PROVE  Quietly(r)
  <2> DEFINE p == [q EXCEPT !.pc = "reserve.commit", !.worker = w, !.amount = n]
  <2>1. p.pc = "reserve.commit" /\ p.consumable = q.consumable /\ p.dept = q.dept
    BY <1>0 DEF Request
  <2>2. requests' = [requests EXCEPT ![r] = p] /\ UNCHANGED <<stock, reservations>>
    BY <1>6 DEF ReserveCheck, Keep, Continue, tables
  <2>3. q.pc = "reserve"
    BY <1>6 DEF ReserveCheck, At
  <2> HIDE DEF p
  <2> QED
    BY <2>1, <2>2, <2>3 DEF Quietly, Current
<1>7. ASSUME NEW delta \in Deltas, NEW w \in Workers \cup {None}, AdjustUpdate(r, delta, w)
      PROVE  Quietly(r)
  <2>1. [q EXCEPT !.pc = "adjust.commit", !.worker = w, !.delta = delta].pc = "adjust.commit"
    BY <1>0 DEF Request
  <2> QED
    BY <1>1, <1>7, <2>1 DEF AdjustUpdate, Continue, tables
<1>8. ASSUME NEW v \in Reservations, CancelLoad(r, v)
      PROVE  Quietly(r)
  <2> DEFINE p == [Idle EXCEPT !.pc = "cancel", !.resvs = {v}]
  <2>1. p.pc = "cancel" /\ p.resvs = {v}
    BY DEF Idle
  <2>2. /\ IsOpen(v) /\ requests' = [requests EXCEPT ![r] = p]
        /\ UNCHANGED <<stock, reservations>>
    BY <1>8 DEF CancelLoad, Keep, Continue, tables
  <2> HIDE DEF p
  <2> QED
    BY <1>1, <2>1, <2>2
<1>9. ASSUME NEW d \in Departments, EditCheck(r, d)
      PROVE  Quietly(r)
  <2> DEFINE p == [q EXCEPT !.pc = "edit.commit", !.toDept = d]
  <2>1. /\ p.pc = "edit.commit" /\ p.consumable = q.consumable /\ p.toDept = d
        /\ p.dept = q.dept
    BY <1>0 DEF Request
  <2>2. requests' = [requests EXCEPT ![r] = p] /\ UNCHANGED <<stock, reservations>>
    BY <1>9 DEF EditCheck, Keep, Continue, tables
  <2>3. q.pc = "edit" /\ (d # q.dept => OpenReservations(q.consumable) = {})
    BY <1>9 DEF EditCheck, At
  <2> HIDE DEF p
  <2> QED
    BY <2>1, <2>2, <2>3 DEF Quietly, Current
<1>10. ASSUME NEW c \in Consumables, RestoreLoad(r, c)
       PROVE  Quietly(r)
  <2>1. [Idle EXCEPT !.pc = "restore", !.consumable = c].pc = "restore"
    BY DEF Idle
  <2> QED
    BY <1>1, <1>10, <2>1 DEF RestoreLoad, Keep, Continue, tables
<1>11. ASSUME NEW c \in Consumables, NEW force \in Forces, PurgeLoad(r, c, force)
       PROVE  Quietly(r)
  <2> DEFINE p == [Idle EXCEPT !.pc = "purge", !.consumable = c,
                               !.resvs = OpenReservations(c),
                               !.seen = {v \in Reservations : reservations[v].consumable = c}]
  <2>1. p.pc = "purge" /\ \A v \in p.resvs : IsOpen(v)
    BY DEF Idle, OpenReservations
  <2>2. requests' = [requests EXCEPT ![r] = p] /\ UNCHANGED <<stock, reservations>>
    BY <1>11 DEF PurgeLoad, Keep, Continue, tables
  <2> HIDE DEF p
  <2> QED
    BY <1>1, <2>1, <2>2
<1> QED
  BY <1>2, <1>3, <1>4, <1>5, <1>6, <1>7, <1>8, <1>9, <1>10, <1>11

LEMMA QuietlyCoherent ==
  ASSUME Inv, Coherent, NEW r \in Requests, Quietly(r)
  PROVE  Coherent'
<1>1. PICK q : requests' = [requests EXCEPT ![r] = q] /\ Current(q)
  BY DEF Quietly
<1>2. UNCHANGED <<stock, reservations>>
  BY DEF Quietly
<1>3. /\ \A c : OpenReservations(c)' = OpenReservations(c) /\ RowExists(c)' = RowExists(c)
      /\ \A v : IsOpen(v)' = IsOpen(v)
  BY <1>2 DEF OpenReservations, IsOpen, RowExists
<1>4. DepartmentsAgree' /\ ReservationEndsOnce'
  BY <1>2, <1>3 DEF Coherent, DepartmentsAgree, ReservationEndsOnce
<1>5. ASSUME NEW s \in Requests PROVE Current(requests[s])'
  <2>1. requests'[s] = q \/ requests'[s] = requests[s]
    BY <1>1 DEF Inv, RequestsOK
  <2>2. Current(requests'[s])
    BY <1>1, <2>1 DEF Coherent
  <2> QED
    BY <1>2, <1>3, <2>2 DEF Current
<1> QED
  BY <1>4, <1>5 DEF Coherent

\* After a commit of the only request in flight nothing is in flight.
LEMMA FinishedCurrent ==
  ASSUME Inv, OneAtATime, NEW r \in Requests, ~At(r, "idle"), Finish(r)
  PROVE  \A s \in Requests : Current(requests[s])'
<1>1. \A s \in Requests : requests'[s].pc = "idle"
  BY DEF Finish, Inv, RequestsOK, OneAtATime, At, Idle
<1> QED
  BY <1>1 DEF Current

\* Nothing opens and no row moves.
LEMMA NothingOpens ==
  ASSUME DepartmentsAgree,
         \A c \in Consumables : stock'[c].dept = stock[c].dept,
         \A v \in Reservations : IsOpen(v)' /\ reservations'[v].consumable \in Consumables =>
           /\ IsOpen(v)
           /\ reservations'[v].consumable = reservations[v].consumable
           /\ reservations'[v].dept = reservations[v].dept
  PROVE  DepartmentsAgree'
BY DEF DepartmentsAgree, OpenReservations

\* The commits of a request that is alone keep what is open in the department of
\* its consumable.
LEMMA CommitsAgree ==
  ASSUME Inv, Coherent, NEW r \in Requests,
         \/ \E u \in Usages : ConsumeCommit(r, u)
         \/ \E v \in Reservations : ReserveCommit(r, v)
         \/ AdjustCommit(r) \/ CancelCommit(r) \/ EditCommit(r) \/ DeleteCommit(r)
         \/ RestoreCommit(r) \/ PurgeCommit(r)
  PROVE  DepartmentsAgree'
<1> DEFINE q == requests[r]
<1>0. /\ stock \in [Consumables -> Consumable] /\ reservations \in [Reservations -> Reservation]
      /\ Current(q) /\ DepartmentsAgree
  BY DEF Inv, TablesOK, Coherent
<1>1. CASE \E u \in Usages : ConsumeCommit(r, u)
  <2>1. reservations' = Fulfil(q.resvs) /\ \A c \in Consumables : stock'[c].dept = stock[c].dept
    BY <1>0, <1>1 DEF ConsumeCommit, Consumable
  <2> QED
    BY <1>0, <2>1, NothingOpens DEF Fulfil, IsOpen, Reservation
<1>2. ASSUME NEW v \in Reservations, ReserveCommit(r, v)
      PROVE  DepartmentsAgree'
  <2>1. /\ \A x \in Reservations \ {v} : reservations'[x] = reservations[x]
        /\ reservations'[v].consumable = q.consumable /\ reservations'[v].dept = q.dept
        /\ stock' = stock /\ q.pc = "reserve.commit"
    BY <1>0, <1>2 DEF ReserveCommit, At
  <2> QED
    BY <1>0, <2>1 DEF Current, DepartmentsAgree, OpenReservations, IsOpen
<1>3. CASE AdjustCommit(r)
  BY <1>0, <1>3, NothingOpens DEF AdjustCommit, Consumable, IsOpen
<1>4. CASE CancelCommit(r)
  BY <1>0, <1>4, NothingOpens DEF CancelCommit, Cancel, IsOpen, Reservation
<1>5. CASE EditCommit(r)
  <2>1. /\ \A c \in Consumables \ {q.consumable} : stock'[c] = stock[c]
        /\ q.toDept = q.dept => \A c \in Consumables : stock'[c].dept = stock[c].dept
        /\ reservations' = reservations /\ q.pc = "edit.commit"
    BY <1>0, <1>5 DEF EditCommit, Consumable, At
  <2> QED
    BY <1>0, <2>1 DEF Current, DepartmentsAgree, OpenReservations, IsOpen
<1>6. CASE DeleteCommit(r) \/ RestoreCommit(r)
  <2>1. \A c \in Consumables : stock'[c].dept = stock[c].dept
    BY <1>0, <1>6 DEF DeleteCommit, RestoreCommit, Consumable
  <2> QED
    BY <1>0, <1>6, <2>1, NothingOpens DEF DeleteCommit, RestoreCommit, IsOpen
<1>7. CASE PurgeCommit(r)
  <2>1. \A c \in Consumables : stock'[c].dept = stock[c].dept
    BY <1>0, <1>7 DEF PurgeCommit, Consumable
  <2>2. \A v \in Reservations : /\ v \in q.seen => reservations'[v].consumable = None
                                /\ v \notin q.seen => reservations'[v] = reservations[v]
    BY <1>0, <1>7 DEF PurgeCommit, Cancel, Reservation
  <2> QED
    <3>1. ASSUME NEW v \in Reservations, IsOpen(v)', reservations'[v].consumable \in Consumables
          PROVE  IsOpen(v) /\ reservations'[v] = reservations[v]
      <4>0. reservations'[v].consumable # None
        BY <3>1, NoneAssumption
      <4>1. v \notin q.seen
        BY <2>2, <4>0
      <4>2. reservations'[v] = reservations[v]
        BY <2>2, <4>1
      <4> QED
        BY <3>1, <4>2 DEF IsOpen
    <3> QED
      BY <1>0, <2>1, <3>1, NothingOpens
<1> QED
  BY <1>1, <1>2, <1>3, <1>4, <1>5, <1>6, <1>7

\* And they end only what is open.
LEMMA CommitsEndOnce ==
  ASSUME Inv, Coherent, NEW r \in Requests,
         \/ \E u \in Usages : ConsumeCommit(r, u)
         \/ \E v \in Reservations : ReserveCommit(r, v)
         \/ AdjustCommit(r) \/ CancelCommit(r) \/ EditCommit(r) \/ DeleteCommit(r)
         \/ RestoreCommit(r) \/ PurgeCommit(r)
  PROVE  ReservationEndsOnce'
<1> DEFINE q == requests[r]
<1>0. /\ reservations \in [Reservations -> Reservation]
      /\ Current(q) /\ ReservationEndsOnce
  BY DEF Inv, TablesOK, Coherent
<1>1. CASE \E u \in Usages : ConsumeCommit(r, u)
  BY <1>0, <1>1
     DEF ConsumeCommit, Fulfil, Current, IsOpen, At, ReservationEndsOnce, Reservation
<1>2. ASSUME NEW v \in Reservations, ReserveCommit(r, v)
      PROVE  ReservationEndsOnce'
  <2>1. /\ \A x \in Reservations \ {v} : reservations'[x] = reservations[x]
        /\ ~reservations'[v].fulfilled
    BY <1>0, <1>2 DEF ReserveCommit
  <2> QED
    BY <1>0, <2>1 DEF ReservationEndsOnce
<1>3. CASE CancelCommit(r)
  BY <1>0, <1>3 DEF CancelCommit, Cancel, Current, IsOpen, At, ReservationEndsOnce, Reservation
<1>4. CASE PurgeCommit(r)
  <2>1. ASSUME NEW v \in Reservations
        PROVE  /\ reservations'[v].fulfilled = reservations[v].fulfilled
               /\ \/ reservations'[v].cancelled = reservations[v].cancelled
                  \/ v \in q.resvs
    <3> DEFINE row == Cancel(q.resvs)[v]
    <3>1. /\ row \in Reservation
          /\ row.fulfilled = reservations[v].fulfilled
          /\ row.cancelled = reservations[v].cancelled \/ v \in q.resvs
      BY <1>0 DEF Cancel, Reservation
    <3>2. reservations'[v] = [row EXCEPT !.consumable = None] \/ reservations'[v] = reservations[v]
      BY <1>4 DEF PurgeCommit
    <3> HIDE DEF row
    <3> QED
      BY <3>1, <3>2 DEF Reservation
  <2>2. \A v \in q.resvs : IsOpen(v)
    BY <1>0, <1>4 DEF PurgeCommit, Current, At
  <2> QED
    BY <1>0, <2>1, <2>2 DEF ReservationEndsOnce, IsOpen
<1>5. CASE UNCHANGED reservations
  BY <1>0, <1>5 DEF ReservationEndsOnce
<1>6. ASSUME AdjustCommit(r) \/ EditCommit(r) \/ DeleteCommit(r) \/ RestoreCommit(r)
      PROVE  UNCHANGED reservations
  BY <1>6 DEF AdjustCommit, EditCommit, DeleteCommit, RestoreCommit
<1> QED
  BY <1>1, <1>2, <1>3, <1>4, <1>5, <1>6

\* A new consumable has nothing that is open, and no request knows it yet.
LEMMA CreateCoherent ==
  ASSUME Inv, Coherent, NEW c \in Consumables, NEW n \in 0..MaxStock, NEW d \in Departments,
         CreateConsumable(c, n, d)
  PROVE  Coherent'
<1>1. /\ \A x \in Consumables \ {c} : stock'[x] = stock[x]
      /\ ~RowExists(c) /\ UNCHANGED <<reservations, requests>>
  BY DEF CreateConsumable, RowExists, Inv, TablesOK
<1>2. OpenReservations(c) = {}
  BY <1>1 DEF OpenReservations, Inv, TablesOK, NoDanglingReference, Reservation
<1>3. /\ \A x : OpenReservations(x)' = OpenReservations(x)
      /\ \A v : IsOpen(v)' = IsOpen(v)
  BY <1>1 DEF OpenReservations, IsOpen
<1>4. DepartmentsAgree' /\ ReservationEndsOnce'
  BY <1>1, <1>2, <1>3 DEF Coherent, DepartmentsAgree, ReservationEndsOnce
<1>5. ASSUME NEW s \in Requests PROVE Current(requests[s])'
  <2>1. Current(requests[s]) /\ Knows(s, requests[s])
    BY DEF Coherent, Inv, RequestsOK
  <2>2. requests[s].pc \in {"reserve", "reserve.commit", "edit", "edit.commit"} =>
          requests[s].consumable \in Consumables \ {c}
    BY <1>1, <2>1 DEF Current, Knows
  <2> QED
    BY <1>1, <1>3, <2>1, <2>2 DEF Current, RowExists
<1> QED
  BY <1>4, <1>5 DEF Coherent

LEMMA NextCoherent ==
  ASSUME Inv, OneAtATime, Coherent, [Next]_vars
  PROVE  Coherent'
<1>1. ASSUME NEW r \in Requests, Handle(r)
      PROVE  Coherent'
  <2>1. Current(requests[r])
    BY DEF Coherent
  <2>2. CASE \/ \E u \in Usages : ConsumeCommit(r, u)
             \/ \E v \in Reservations : ReserveCommit(r, v)
             \/ AdjustCommit(r) \/ CancelCommit(r) \/ EditCommit(r) \/ DeleteCommit(r)
             \/ RestoreCommit(r) \/ PurgeCommit(r)
    <3>1. Finish(r) /\ ~At(r, "idle")
      BY <2>2 DEF ConsumeCommit, ReserveCommit, AdjustCommit, CancelCommit, EditCommit,
                  DeleteCommit, RestoreCommit, PurgeCommit, At
    <3> QED
      BY <2>2, <3>1, CommitsAgree, CommitsEndOnce, FinishedCurrent DEF Coherent
  <2> QED
    BY <1>1, <2>1, <2>2, ReadsQuietly, QuietlyCoherent DEF Handle
<1>2. ASSUME NEW c \in Consumables, NEW n \in 0..MaxStock, NEW d \in Departments,
             CreateConsumable(c, n, d)
      PROVE  Coherent'
  BY <1>2, CreateCoherent
<1>3. CASE UNCHANGED vars
  <2>1. /\ \A x : OpenReservations(x)' = OpenReservations(x) /\ RowExists(x)' = RowExists(x)
        /\ \A v : IsOpen(v)' = IsOpen(v)
    BY <1>3 DEF vars, tables, OpenReservations, IsOpen, RowExists
  <2> QED
    BY <1>3, <2>1 DEF vars, tables, Coherent, DepartmentsAgree, ReservationEndsOnce, Current
<1> QED
  BY <1>1, <1>2, <1>3 DEF Next

LEMMA SerialStep ==
  ASSUME Inv, SerialInv, [HNext]_<<vars, overlapped>>
  PROVE  SerialInv'
<1> SUFFICES ASSUME ~overlapped' PROVE OneAtATime' /\ Coherent'
  BY DEF SerialInv
<1>1. ~overlapped
  BY DEF HNext
<1>2. OneAtATime'
  <2>1. CASE UNCHANGED <<vars, overlapped>>
    BY <1>1, <2>1 DEF SerialInv, OneAtATime, At, vars
  <2>2. CASE HNext
    BY <2>2 DEF HNext, Overlap, OneAtATime, At
  <2> QED
    BY <2>1, <2>2
<1>3. [Next]_vars
  BY DEF HNext, vars, tables
<1> QED
  BY <1>1, <1>2, <1>3, NextCoherent DEF SerialInv

\* For any consumables, amounts and number of requests: while requests do not
\* overlap, what is open carries the department of its consumable, and what ends
\* was open.
THEOREM SerialReservationsHolds == HSpec => []SerialReservations
<1>1. HInit => SerialInv
  BY DEF HInit, Init, SerialInv, OneAtATime, Coherent, DepartmentsAgree, ReservationEndsOnce,
         OpenReservations, IsOpen, Current, At, Idle
<1>2. Spec => []Inv
  BY InvHolds
<1>3. Inv /\ SerialInv /\ [HNext]_<<vars, overlapped>> => SerialInv'
  BY SerialStep
<1>4. SerialInv => SerialReservations
  BY DEF SerialInv, Coherent, SerialReservations
<1> QED
  BY <1>1, <1>2, <1>3, <1>4, HistoryOnly, PTL DEF HSpec
=============================================================================
