--------------------------- MODULE Inventory_proofs ---------------------------
(***************************************************************************)
(* Proofs about Inventory, for any sets of things, codes, presets and      *)
(* requests: the types with the references of the schema, and that no two  *)
(* active rows of a table have one code.                                   *)
(***************************************************************************)
EXTENDS MCInventory, TLAPS

\* TypeOK in parts: the rows of things, the presets, the values, the requests.
ThingsOK == things \in [Things -> Thing]

PresetsOK ==
  /\ categories \in [Categories -> Names \cup {None}]
  /\ fields \in [Fields -> Categories \cup {None, "deleted"}]
  /\ \A f \in Fields : fields[f] \in Categories => categories[fields[f]] # None

ValuesOK ==
  /\ values \subseteq Items \X Fields
  /\ \A v \in values : RowExists(v[1]) /\ fields[v[2]] \in Categories

RequestsOK == /\ requests \in [Requests -> Request]
              /\ \A r \in Requests : KnowsItsRow(requests[r])

LEMMA Parts == TypeOK <=> ThingsOK /\ PresetsOK /\ ValuesOK /\ RequestsOK
  BY DEF TypeOK, ThingsOK, PresetsOK, ValuesOK, RequestsOK

LEMMA PartsNext == TypeOK' <=> ThingsOK' /\ PresetsOK' /\ ValuesOK' /\ RequestsOK'
  BY DEF TypeOK, ThingsOK, PresetsOK, ValuesOK, RequestsOK

\* An idle slot is well typed.
LEMMA IdleOK == Idle \in Request /\ KnowsItsRow(Idle)
  BY DEF Idle, Request, KnowsItsRow, Unwritten, Thing, IsNew

\* Storing a well-typed record in a slot keeps the slots well typed.
LEMMA KeepOK ==
  ASSUME RequestsOK, NEW r \in Requests, NEW q \in Request, KnowsItsRow(q),
         requests' = [requests EXCEPT ![r] = q]
  PROVE  RequestsOK'
  <1>1. requests' \in [Requests -> Request]
    BY DEF RequestsOK
  <1>2. ASSUME NEW s \in Requests PROVE KnowsItsRow(requests'[s])
    <2>1. requests'[s] = q \/ requests'[s] = requests[s]
      BY DEF RequestsOK
    <2> QED
      BY <2>1 DEF RequestsOK
  <1> QED
    BY <1>1, <1>2 DEF RequestsOK, KnowsItsRow, IsNew

\* Storing a well-typed record is all such a step does.
LEMMA KeepStep ==
  ASSUME TypeOK, NEW r \in Requests, NEW q \in Request, KnowsItsRow(q), Keep(r, q)
  PROVE  TypeOK'
  <1>1. RequestsOK'
    BY KeepOK, Parts DEF Keep
  <1>2. ThingsOK' /\ PresetsOK' /\ ValuesOK'
    BY Parts DEF Keep, presets, ThingsOK, PresetsOK, ValuesOK, RowExists
  <1> QED
    BY <1>1, <1>2, PartsNext

\* A handler that ends leaves well-typed slots.
LEMMA FinishOK ==
  ASSUME RequestsOK, NEW r \in Requests, Finish(r)
  PROVE  RequestsOK'
  BY IdleOK, KeepOK DEF Finish

\* The initial state is well typed.
LEMMA TypeInit == Init => TypeOK
  <1> SUFFICES ASSUME Init PROVE TypeOK
    OBVIOUS
  <1>1. ThingsOK
    BY DEF Init, ThingsOK, Unwritten, Thing
  <1>2. PresetsOK /\ ValuesOK
    BY NoneAssumption DEF Init, PresetsOK, ValuesOK
  <1>3. RequestsOK
    BY IdleOK DEF Init, RequestsOK
  <1> QED
    BY <1>1, <1>2, <1>3, Parts

\* The commit of a form writes a well-typed row, loses no row, and leaves the
\* row that it writes or extends in place.
LEMMA WriteRowOK ==
  ASSUME ThingsOK, NEW q \in Request, KnowsItsRow(q),
         q.pc \in {"store", "save"}, WriteRow(q)
  PROVE  /\ ThingsOK'
         /\ \A x \in Things : RowExists(x) => RowExists(x)'
         /\ IsNew(q) => RowExists(q.thing)'
  <1> DEFINE x == q.thing
             row == [things[x] EXCEPT
                       !.life     = IF IsNew(q) THEN "active" ELSE @,
                       !.code     = IF q.code = q.old.code THEN @ ELSE q.code,
                       !.category = IF q.category = q.old.category THEN @ ELSE q.category]
  <1>1. x \in Things /\ things[x] \in Thing /\ q.code \in Codes /\ q.category \in Names \cup {None}
    BY DEF KnowsItsRow, ThingsOK, Request
  <1>2. things' = [things EXCEPT ![x] = row]
    BY <1>1 DEF WriteRow, ThingsOK, Thing
  <1>3. row \in Thing
    BY <1>1 DEF Thing
  <1>4. ThingsOK'
    BY <1>2, <1>3 DEF ThingsOK
  <1>5. row.life = IF IsNew(q) THEN "active" ELSE things[x].life
    BY <1>1 DEF Thing
  <1>6. \A y \in Things : things'[y] = IF y = x THEN row ELSE things[y]
    BY <1>2 DEF ThingsOK
  <1> HIDE DEF row
  <1> QED
    BY <1>1, <1>4, <1>5, <1>6 DEF RowExists

\* The values that a form saves have their item and their field.
LEMMA SaveValuesOK ==
  ASSUME TypeOK, NEW q \in Request, KnowsItsRow(q), q.pc = "save",
         NEW filled \in SUBSET q.defs, WriteRow(q), SaveValues(q, filled),
         UNCHANGED presets
  PROVE  ValuesOK'
  <1>1. q.thing \in Items /\ q.thing \in Things /\ q.seen \subseteq Fields /\ filled \subseteq Fields
    BY DEF KnowsItsRow, Request, Things
  <1>2. /\ \A x \in Things : RowExists(x) => RowExists(x)'
        /\ IsNew(q) => RowExists(q.thing)'
    BY WriteRowOK, Parts
  <1>3. values' \subseteq values \cup ({q.thing} \X (filled \ q.seen))
    BY DEF SaveValues
  <1>4. ASSUME NEW v \in values
        PROVE  v \in Items \X Fields /\ RowExists(v[1])' /\ fields'[v[2]] \in Categories
    BY <1>2, Parts DEF ValuesOK, Things, presets
  <1>5. ASSUME NEW v \in {q.thing} \X (filled \ q.seen)
        PROVE  v \in Items \X Fields /\ RowExists(v[1])' /\ fields'[v[2]] \in Categories
    <2>1. v[1] = q.thing /\ v[2] \in filled \ q.seen /\ v = <<v[1], v[2]>>
      OBVIOUS
    <2>2. RowExists(q.thing) \/ IsNew(q)
      BY <2>1 DEF SaveValues
    <2>3. fields[v[2]] \in Categories
      BY <2>1 DEF SaveValues
    <2> QED
      BY <1>1, <1>2, <2>1, <2>2, <2>3 DEF presets
  <1> QED
    BY <1>3, <1>4, <1>5 DEF ValuesOK

\* Every step of a form preserves the types.
LEMMA TypeHandle ==
  ASSUME TypeOK, NEW r \in Requests, Handle(r)
  PROVE  TypeOK'
  <1> DEFINE q == requests[r]
  <1>0. q \in Request /\ KnowsItsRow(q)
    BY Parts DEF RequestsOK
  <1>1. CASE Abort(r)
    BY <1>1, IdleOK, KeepStep DEF Abort
  <1>2. ASSUME NEW x \in Things, NEW code \in Codes, NEW n \in Names \cup {None},
               CreateCheck(r, x, code, n)
        PROVE  TypeOK'
    <2> DEFINE p == [Idle EXCEPT !.pc = "store", !.thing = x, !.code = code, !.category = n]
    <2>1. p \in Request /\ KnowsItsRow(p)
      BY DEF Idle, Request, KnowsItsRow, Unwritten, Thing, IsNew
    <2> QED
      BY <1>2, <2>1, KeepStep DEF CreateCheck
  <1>3. ASSUME NEW x \in Things, UpdateLoad(r, x)
        PROVE  TypeOK'
    <2> DEFINE p == [Idle EXCEPT !.pc = "edit", !.thing = x, !.old = things[x]]
    <2>1. things[x] \in Thing /\ things[x].life = "active"
      BY <1>3, Parts DEF ThingsOK, UpdateLoad, Active
    <2>2. p \in Request /\ KnowsItsRow(p)
      BY <2>1 DEF Idle, Request, KnowsItsRow, Unwritten, IsNew
    <2> QED
      BY <1>3, <2>2, KeepStep DEF UpdateLoad
  <1>4. ASSUME NEW code \in Codes, NEW n \in Names \cup {None}, UpdateCheck(r, code, n)
        PROVE  TypeOK'
    <2> DEFINE p == [q EXCEPT !.pc = "store", !.code = code, !.category = n]
    <2>1. q.pc = "edit"
      BY <1>4 DEF UpdateCheck, At
    <2>2. p \in Request /\ KnowsItsRow(p)
      BY <1>0, <2>1 DEF Request, KnowsItsRow, IsNew
    <2> QED
      BY <1>4, <2>2, KeepStep DEF UpdateCheck
  <1>5. CASE Define(r)
    <2>1. q.pc = "store" /\ q.thing \in Items
      BY <1>5 DEF Define, At
    <2>2. ASSUME NEW S \in SUBSET Fields, Keep(r, [q EXCEPT !.pc = "defined", !.defs = S])
          PROVE  TypeOK'
      <3>1. /\ [q EXCEPT !.pc = "defined", !.defs = S] \in Request
            /\ KnowsItsRow([q EXCEPT !.pc = "defined", !.defs = S])
        BY <1>0, <2>1 DEF Request, KnowsItsRow, IsNew
      <3> QED
        BY <2>2, <3>1, KeepStep
    <2>3. CASE Keep(r, [q EXCEPT !.pc = "defined"])
      <3>1. [q EXCEPT !.pc = "defined"] \in Request /\ KnowsItsRow([q EXCEPT !.pc = "defined"])
        BY <1>0, <2>1 DEF Request, KnowsItsRow, IsNew
      <3> QED
        BY <2>3, <3>1, KeepStep
    <2> QED
      BY <1>5, <2>2, <2>3 DEF Define
  <1>6. CASE SeeValues(r)
    <2> DEFINE p == [q EXCEPT !.pc = "save",
                              !.seen = {f \in Fields : <<q.thing, f>> \in values}]
    <2>1. q.pc = "defined"
      BY <1>6 DEF SeeValues, At
    <2>2. p \in Request /\ KnowsItsRow(p)
      BY <1>0, <2>1 DEF Request, KnowsItsRow, IsNew
    <2> QED
      BY <1>6, <2>2, KeepStep DEF SeeValues
  <1>7. CASE StoreConsumable(r)
    <2>1. q.pc = "store" /\ WriteRow(q)
      BY <1>7 DEF StoreConsumable, At
    <2>2. ThingsOK' /\ \A x \in Things : RowExists(x) => RowExists(x)'
      BY <1>0, <2>1, WriteRowOK, Parts
    <2>3. PresetsOK' /\ ValuesOK'
      BY <1>7, <2>2, Parts DEF StoreConsumable, presets, PresetsOK, ValuesOK, Things
    <2>4. RequestsOK'
      BY <1>7, FinishOK, Parts DEF StoreConsumable
    <2> QED
      BY <2>2, <2>3, <2>4, PartsNext
  <1>8. ASSUME NEW filled \in SUBSET requests[r].defs, StoreItem(r, filled)
        PROVE  TypeOK'
    <2>1. q.pc = "save" /\ WriteRow(q) /\ SaveValues(q, filled) /\ UNCHANGED presets
      BY <1>8 DEF StoreItem, At
    <2>2. ThingsOK'
      BY <1>0, <2>1, WriteRowOK, Parts
    <2>3. ValuesOK'
      BY <1>0, <2>1, SaveValuesOK
    <2>4. PresetsOK'
      BY <2>1, Parts DEF presets, PresetsOK
    <2>5. RequestsOK'
      BY <1>8, FinishOK, Parts DEF StoreItem
    <2> QED
      BY <2>2, <2>3, <2>4, <2>5, PartsNext
  <1> QED
    BY <1>1, <1>2, <1>3, <1>4, <1>5, <1>6, <1>7, <1>8 DEF Handle

\* The trash keeps the rows that values hang on, or takes the values along.
LEMMA TypeTrash ==
  ASSUME TypeOK, NEW x \in Things, Delete(x) \/ Restore(x) \/ Purge(x)
  PROVE  TypeOK'
  <1>1. PresetsOK' /\ RequestsOK'
    BY Parts DEF Delete, Restore, Purge, Bury, presets, PresetsOK, RequestsOK
  <1>2. PICK row \in Thing : things' = [things EXCEPT ![x] = row]
    <2>1. /\ [things[x] EXCEPT !.life = "trashed"] \in Thing
          /\ [things[x] EXCEPT !.life = "active"] \in Thing
          /\ [Unwritten EXCEPT !.life = "purged"] \in Thing
      BY Parts DEF ThingsOK, Thing, Unwritten
    <2> QED
      BY <2>1 DEF Delete, Restore, Purge, Bury
  <1>3. /\ ThingsOK'
        /\ \A y \in Things \ {x} : RowExists(y) => RowExists(y)'
    BY <1>2, Parts DEF ThingsOK, Thing, RowExists
  <1>4. ValuesOK'
    <2>1. CASE Delete(x) \/ Restore(x)
      <3>1. RowExists(x)'
        BY <2>1, Parts DEF Delete, Restore, Bury, ThingsOK, Thing, RowExists
      <3> QED
        BY <1>3, <2>1, <3>1, Parts DEF Delete, Restore, Bury, presets, ValuesOK, Things
    <2>2. CASE Purge(x)
      BY <1>3, <2>2, Parts DEF Purge, Bury, presets, ValuesOK, Things
    <2> QED
      BY <2>1, <2>2
  <1> QED
    BY <1>1, <1>3, <1>4, PartsNext

\* The presets keep the references to them, or refuse.
LEMMA TypePresets ==
  ASSUME TypeOK,
         \/ \E g \in Categories : \/ \E n \in Names, padded \in BOOLEAN : CreateCategory(g, n, padded)
                                  \/ DeleteCategory(g)
                                  \/ \E f \in Fields : CreateField(f, g)
         \/ \E f \in Fields : DeleteField(f)
  PROVE  TypeOK'
  <1>1. ThingsOK' /\ RequestsOK'
    BY Parts DEF CreateCategory, DeleteCategory, CreateField, DeleteField, ThingsOK, RequestsOK
  <1>2. ASSUME NEW g \in Categories, NEW n \in Names, NEW padded \in BOOLEAN,
               CreateCategory(g, n, padded)
        PROVE  PresetsOK' /\ ValuesOK'
    BY <1>2, Parts DEF CreateCategory, PresetsOK, ValuesOK, RowExists
  <1>3. ASSUME NEW g \in Categories, DeleteCategory(g)
        PROVE  PresetsOK' /\ ValuesOK'
    BY <1>3, Parts DEF DeleteCategory, PresetsOK, ValuesOK, RowExists
  <1>4. ASSUME NEW g \in Categories, NEW f \in Fields, CreateField(f, g)
        PROVE  PresetsOK' /\ ValuesOK'
    BY <1>4, Parts DEF CreateField, PresetsOK, ValuesOK, RowExists
  <1>5. ASSUME NEW f \in Fields, DeleteField(f)
        PROVE  PresetsOK' /\ ValuesOK'
    BY <1>5, Parts, NoneAssumption DEF DeleteField, PresetsOK, ValuesOK, RowExists
  <1> QED
    BY <1>1, <1>2, <1>3, <1>4, <1>5, PartsNext

LEMMA TypeStep == TypeOK /\ [Next]_vars => TypeOK'
  <1> SUFFICES ASSUME TypeOK, [Next]_vars PROVE TypeOK'
    OBVIOUS
  <1>1. CASE UNCHANGED vars
    BY <1>1, Parts, PartsNext
       DEF vars, ThingsOK, PresetsOK, ValuesOK, RequestsOK, RowExists
  <1>2. CASE Next
    BY <1>2, TypeHandle, TypeTrash, TypePresets DEF Next
  <1> QED
    BY <1>1, <1>2

\* The types hold and no reference dangles: a value has its item and its
\* field, a field its category, however forms, trash and presets interleave.
THEOREM TypeCorrect == Spec => []TypeOK
  BY TypeInit, TypeStep, PTL DEF Spec
-----------------------------------------------------------------------------
\* The commit of a form: a code that is new to an active row is one that the
\* index of its table admits.
LEMMA UniqueWriteRow ==
  ASSUME TypeOK, OneCodePerTable, NEW q \in Request, KnowsItsRow(q),
         q.pc \in {"store", "save"}, WriteRow(q)
  PROVE  OneCodePerTable'
  <1> DEFINE x == q.thing
  <1>1. x \in Things /\ things[x] \in Thing /\ q.code \in Codes
    BY Parts DEF KnowsItsRow, ThingsOK
  <1>2. \A y \in Things \ {x} : things'[y] = things[y]
    BY <1>1, Parts DEF WriteRow, ThingsOK
  <1>3. /\ things'[x].life = IF IsNew(q) THEN "active" ELSE things[x].life
        /\ things'[x].code = IF q.code = q.old.code THEN things[x].code ELSE q.code
    BY <1>1, Parts DEF WriteRow, ThingsOK, Thing
  <1>4. IsNew(q) => q.old.code = None /\ q.code # None
    BY <1>1, NoneAssumption DEF KnowsItsRow, Unwritten
  <1>5. ASSUME NEW y \in Things \ {x}, Active(x)', Active(y), SameTable(x) = SameTable(y)
        PROVE  things'[x].code # things[y].code
    <2>1. y \in SameTable(x) \ {x}
      BY <1>5 DEF SameTable, Things
    <2>2. CASE IsNew(q) \/ (Active(x) /\ q.code # q.old.code)
      <3>1. UniqueAmongActive(x, q.code)
        BY <2>2 DEF WriteRow
      <3>2. things'[x].code = q.code
        BY <1>3, <1>4, <2>2
      <3> QED
        BY <1>5, <2>1, <3>1, <3>2 DEF UniqueAmongActive, ActiveWith
    <2>3. CASE ~IsNew(q) /\ ~(Active(x) /\ q.code # q.old.code)
      <3>1. Active(x) /\ things'[x].code = things[x].code
        BY <1>3, <1>5, <2>3 DEF Active
      <3> QED
        BY <1>1, <1>5, <3>1 DEF OneCodePerTable
    <2> QED
      BY <2>2, <2>3
  <1> SUFFICES ASSUME NEW y \in Things, NEW z \in Things, Active(y)', Active(z)', y # z,
                      SameTable(y) = SameTable(z)
               PROVE  things'[y].code # things'[z].code
    BY DEF OneCodePerTable, SameTable
  <1>6. CASE y = x
    BY <1>2, <1>5, <1>6 DEF Active
  <1>7. CASE z = x
    BY <1>2, <1>5, <1>7 DEF Active
  <1>8. CASE y # x /\ z # x
    BY <1>2, <1>8 DEF Active, OneCodePerTable
  <1> QED
    BY <1>6, <1>7, <1>8

\* What leaves the table cannot collide; what comes back passes the index.
LEMMA UniqueTrash ==
  ASSUME TypeOK, OneCodePerTable, NEW x \in Things, Delete(x) \/ Restore(x) \/ Purge(x)
  PROVE  OneCodePerTable'
  <1>1. \A y \in Things : Active(y)' => /\ things'[y].code = things[y].code
                                        /\ Active(y) \/ (y = x /\ Restore(x))
    <2> USE Parts DEF Bury, ThingsOK, Thing, Active
    <2>1. CASE Delete(x)
      BY <2>1 DEF Delete
    <2>2. CASE Restore(x)
      BY <2>2 DEF Restore
    <2>3. CASE Purge(x)
      BY <2>3 DEF Purge, Unwritten
    <2> QED
      BY <2>1, <2>2, <2>3
  <1>2. ASSUME Restore(x), NEW y \in Things \ {x}, Active(y), SameTable(x) = SameTable(y)
        PROVE  things[x].code # things[y].code
    <2>1. y \in SameTable(x) \ {x}
      BY <1>2 DEF SameTable, Things
    <2> QED
      BY <1>2, <2>1 DEF Restore, UniqueAmongActive, ActiveWith
  <1>3. ASSUME NEW y \in Things, NEW z \in Things, Active(y)', Active(z)', y # z,
               SameTable(y) = SameTable(z)
        PROVE  things[y].code # things[z].code
    <2>1. CASE Active(y) /\ Active(z)
      BY <1>3, <2>1 DEF OneCodePerTable
    <2>2. CASE y = x /\ Restore(x) /\ Active(z)
      BY <1>2, <1>3, <2>2
    <2>3. CASE z = x /\ Restore(x) /\ Active(y)
      BY <1>2, <1>3, <2>3
    <2> QED
      BY <1>1, <1>3, <2>1, <2>2, <2>3
  <1> QED
    BY <1>1, <1>3 DEF OneCodePerTable, SameTable, Active

LEMMA UniqueStep == TypeOK /\ OneCodePerTable /\ [Next]_vars => OneCodePerTable'
  <1> SUFFICES ASSUME TypeOK, OneCodePerTable, [Next]_vars PROVE OneCodePerTable'
    OBVIOUS
  <1>1. CASE UNCHANGED things
    BY <1>1 DEF OneCodePerTable, Active, SameTable
  <1>2. ASSUME NEW r \in Requests, Handle(r)
        PROVE  OneCodePerTable'
    <2>1. requests[r] \in Request /\ KnowsItsRow(requests[r])
      BY Parts DEF RequestsOK
    <2>2. CASE StoreConsumable(r)
      BY <2>1, <2>2, UniqueWriteRow DEF StoreConsumable, At
    <2>3. CASE \E filled \in SUBSET requests[r].defs : StoreItem(r, filled)
      BY <2>1, <2>3, UniqueWriteRow DEF StoreItem, At
    <2>4. CASE UNCHANGED things
      BY <1>1, <2>4
    <2> QED
      BY <1>2, <2>2, <2>3, <2>4
         DEF Handle, Abort, CreateCheck, UpdateLoad, UpdateCheck, Define, SeeValues, Keep
  <1>3. ASSUME NEW x \in Things, Delete(x) \/ Restore(x) \/ Purge(x)
        PROVE  OneCodePerTable'
    BY <1>3, UniqueTrash
  <1> QED
    BY <1>1, <1>2, <1>3
       DEF Next, CreateCategory, DeleteCategory, CreateField, DeleteField, vars

\* No two active items and no two active consumables ever have one code.
THEOREM OneCodePerTableHolds == Spec => []OneCodePerTable
  <1>1. Init => OneCodePerTable
    BY DEF Init, OneCodePerTable, Active, Unwritten
  <1> QED
    BY <1>1, UniqueStep, TypeCorrect, PTL DEF Spec
-----------------------------------------------------------------------------
(* While requests do not overlap.  Only what a request that is alone has    *)
(* read is still true: the one that is overtaken may hold anything, and the *)
(* next step then ends the promise.                                         *)

Solo(r) == \A s \in Requests \ {r} : At(s, "idle")

\* One request at most is in flight.
OneAtATime == \A r, s \in Requests : r # s => At(r, "idle") \/ At(s, "idle")

\* No code is on two active things, of whatever table.
CodesDiffer ==
  \A x, y \in Things : Active(x) /\ Active(y) /\ x # y => things[x].code # things[y].code

\* What a form has passed its checks with is still free.
CodeFree(q) == q.pc \in {"store", "defined", "save"} => ~CodeTaken(q.thing, q.code)

ScanInv ==
  history = "serial" => /\ CodesDiffer
                        /\ \A r \in Requests : Solo(r) => CodeFree(requests[r])

\* A row that was never there has nothing in it.
AbsentBare == \A x \in Things : things[x].life = "absent" => things[x] = Unwritten

\* What a form has read is still so: the row, the fields of the category it is
\* about to write, and the values of its item.
ReadsHold(q) ==
  /\ q.pc # "idle" => q.old = things[q.thing]
  /\ q.pc \in {"edit", "store"} => q.defs = {}
  /\ q.pc \in {"defined", "save"} =>
       \A f \in q.defs : fields[f] \in Categories /\ categories[fields[f]] = q.category
  /\ q.pc = "save" => \A f \in Fields : f \in q.seen <=> <<q.thing, f>> \in values

FitInv ==
  history # "overlapped" => /\ ValuesFit
                            /\ AbsentBare
                            /\ \A r \in Requests : Solo(r) => ReadsHold(requests[r])

\* The history forgets the types and only grows worse.
LEMMA HistoryOnly == HSpec => Spec
  <1>1. HInit => Init
    BY DEF HInit
  <1>2. [HNext]_<<vars, history>> => [Next]_vars
    BY DEF HNext, vars
  <1> QED
    BY <1>1, <1>2, PTL DEF HSpec, Spec

\* A step after which nothing has overlapped starts with one request in flight
\* at most, and with none if it is a step of the administration.
LEMMA AloneNext ==
  ASSUME HNext, history' # "overlapped"
  PROVE  /\ history # "overlapped"
         /\ OneAtATime
         /\ requests' = requests => \A r \in Requests : At(r, "idle")
         /\ history' = "serial" =>
              /\ history = "serial"
              /\ \A x \in Things : ~(things[x].life = "trashed" /\ Active(x)')
  <1>1. ~(history = "overlapped" \/ Overlap)
    BY DEF HNext
  <1>2. OneAtATime /\ (requests' = requests => \A r \in Requests : At(r, "idle"))
    BY <1>1 DEF Overlap, OneAtATime
  <1>3. ASSUME history' = "serial"
        PROVE  /\ history = "serial"
               /\ \A x \in Things : ~(things[x].life = "trashed" /\ Active(x)')
    BY <1>1, <1>3 DEF HNext
  <1> QED
    BY <1>1, <1>2, <1>3

\* A step of a form changes its own slot, and one that begins fills it.
LEMMA HandleSlot ==
  ASSUME TypeOK, NEW r \in Requests, Handle(r)
  PROVE  /\ \A s \in Requests \ {r} : requests'[s] = requests[s]
         /\ At(r, "idle") => ~At(r, "idle")'
  <1> USE DEF TypeOK, Keep, At
  <1>1. CASE Abort(r)
    BY <1>1 DEF Abort
  <1>2. ASSUME NEW x \in Things, NEW code \in Codes, NEW n \in Names \cup {None},
               CreateCheck(r, x, code, n)
        PROVE  /\ \A s \in Requests \ {r} : requests'[s] = requests[s]
               /\ requests'[r].pc = "store"
    BY <1>2 DEF CreateCheck, Idle
  <1>3. ASSUME NEW x \in Things, UpdateLoad(r, x)
        PROVE  /\ \A s \in Requests \ {r} : requests'[s] = requests[s]
               /\ requests'[r].pc = "edit"
    BY <1>3 DEF UpdateLoad, Idle
  <1>4. CASE \E code \in Codes, n \in Names \cup {None} : UpdateCheck(r, code, n)
    BY <1>4 DEF UpdateCheck
  <1>5. CASE Define(r) \/ SeeValues(r)
    BY <1>5 DEF Define, SeeValues
  <1>6. CASE StoreConsumable(r) \/ \E filled \in SUBSET requests[r].defs : StoreItem(r, filled)
    BY <1>6 DEF StoreConsumable, StoreItem, Finish
  <1> QED
    BY <1>1, <1>2, <1>3, <1>4, <1>5, <1>6 DEF Handle

\* Who is alone in flight after a step of a form is that form, and was alone.
LEMMA SoloNext ==
  ASSUME TypeOK, OneAtATime, NEW r \in Requests, Handle(r), NEW t \in Requests, Solo(t)'
  PROVE  At(t, "idle")' \/ (t = r /\ Solo(r))
  <1> SUFFICES ASSUME ~At(t, "idle")' PROVE t = r /\ Solo(r)
    OBVIOUS
  <1>1. \A s \in Requests \ {t} : requests'[s].pc = "idle"
    BY DEF Solo, At
  <1>2. t = r
    <2> SUFFICES ASSUME t # r PROVE FALSE
      OBVIOUS
    <2>1. ~At(t, "idle")
      BY HandleSlot DEF At
    <2>2. At(r, "idle")
      BY <2>1 DEF OneAtATime
    <2> QED
      BY <1>1, <2>2, HandleSlot DEF At
  <1> QED
    BY <1>1, <1>2, HandleSlot DEF Solo, At
-----------------------------------------------------------------------------
\* A commit whose code is free gives no code to a second thing.
LEMMA CodesWriteRow ==
  ASSUME TypeOK, CodesDiffer, NEW q \in Request, KnowsItsRow(q),
         q.pc \in {"store", "save"}, WriteRow(q), CodeFree(q)
  PROVE  CodesDiffer'
  <1> DEFINE x == q.thing
  <1>1. x \in Things /\ things[x] \in Thing /\ q.code \in Codes
    BY Parts DEF KnowsItsRow, ThingsOK
  <1>2. \A y \in Things \ {x} : things'[y] = things[y]
    BY <1>1, Parts DEF WriteRow, ThingsOK
  <1>3. /\ things'[x].life = IF IsNew(q) THEN "active" ELSE things[x].life
        /\ things'[x].code = IF q.code = q.old.code THEN things[x].code ELSE q.code
    BY <1>1, Parts DEF WriteRow, ThingsOK, Thing
  <1>4. IsNew(q) => q.old.code = None /\ q.code # None
    BY <1>1, NoneAssumption DEF KnowsItsRow, Unwritten
  <1>5. ASSUME NEW y \in Things \ {x}, Active(x)', Active(y)
        PROVE  things'[x].code # things[y].code
    <2>1. CASE things'[x].code = q.code
      <3>1. ActiveWith(q.code, Things \ {x}) = {}
        BY DEF CodeFree, CodeTaken
      <3> QED
        BY <1>5, <2>1, <3>1 DEF ActiveWith
    <2>2. CASE things'[x].code # q.code
      <3>1. Active(x) /\ things'[x].code = things[x].code
        BY <1>3, <1>4, <1>5, <2>2 DEF Active
      <3> QED
        BY <1>1, <1>5, <3>1 DEF CodesDiffer
    <2> QED
      BY <2>1, <2>2
  <1> SUFFICES ASSUME NEW y \in Things, NEW z \in Things, Active(y)', Active(z)', y # z
               PROVE  things'[y].code # things'[z].code
    BY DEF CodesDiffer
  <1>6. CASE y = x
    BY <1>2, <1>5, <1>6 DEF Active
  <1>7. CASE z = x
    BY <1>2, <1>5, <1>7 DEF Active
  <1>8. CASE y # x /\ z # x
    BY <1>2, <1>8 DEF Active, CodesDiffer
  <1> QED
    BY <1>6, <1>7, <1>8

\* A step of a form that is alone: what it keeps was free when it was checked,
\* and what it stores still is.
LEMMA ScanHandle ==
  ASSUME TypeOK, OneAtATime, CodesDiffer, NEW r \in Requests, Handle(r),
         \A t \in Requests : Solo(t) => CodeFree(requests[t])
  PROVE  CodesDiffer' /\ \A t \in Requests : Solo(t)' => CodeFree(requests[t])'
  <1> DEFINE q == requests[r]
  <1>0. q \in Request /\ KnowsItsRow(q) /\ requests \in [Requests -> Request]
    BY Parts DEF RequestsOK
  <1>1. CASE At(r, "idle")
    <2>1. UNCHANGED things
      BY <1>1 DEF At, Handle, Abort, CreateCheck, UpdateLoad, UpdateCheck, Define, SeeValues,
                  StoreConsumable, StoreItem, Keep
    <2>2. CodesDiffer'
      BY <2>1 DEF CodesDiffer, Active
    <2>3. CodeFree(requests[r])'
      <3>1. CASE \E x \in Things, code \in Codes, n \in Names \cup {None} : CreateCheck(r, x, code, n)
        <4>1. PICK x \in Things, code \in Codes, n \in Names \cup {None} : CreateCheck(r, x, code, n)
          BY <3>1
        <4>2. requests'[r].thing = x /\ requests'[r].code = code
          BY <1>0, <4>1 DEF CreateCheck, Keep, Idle
        <4> QED
          BY <2>1, <4>1, <4>2 DEF CreateCheck, CodeFree, CodeTaken, ActiveWith, Active
      <3>2. CASE \E x \in Things : UpdateLoad(r, x)
        <4>1. requests'[r].pc = "edit"
          BY <1>0, <3>2 DEF UpdateLoad, Keep, Idle
        <4> QED
          BY <4>1 DEF CodeFree
      <3> QED
        BY <1>1, <3>1, <3>2
           DEF At, Handle, Abort, UpdateCheck, Define, SeeValues, StoreConsumable, StoreItem
    <2> QED
      BY <2>2, <2>3, SoloNext DEF At, CodeFree
  <1>2. CASE ~At(r, "idle")
    <2>1. CodeFree(q)
      BY <1>2 DEF OneAtATime, Solo
    <2>2. CASE StoreConsumable(r) \/ \E filled \in SUBSET requests[r].defs : StoreItem(r, filled)
      <3>1. q.pc \in {"store", "save"} /\ WriteRow(q) /\ requests'[r] = Idle
        BY <1>0, <2>2 DEF StoreConsumable, StoreItem, Finish, At
      <3>2. CodesDiffer'
        BY <1>0, <2>1, <3>1, CodesWriteRow
      <3>3. CodeFree(requests[r])'
        BY <3>1 DEF CodeFree, Idle
      <3> QED
        BY <3>2, <3>3, SoloNext DEF At, CodeFree
    <2>3. CASE \/ Abort(r) \/ Define(r) \/ SeeValues(r)
               \/ \E code \in Codes, n \in Names \cup {None} : UpdateCheck(r, code, n)
      <3>1. UNCHANGED things
        BY <2>3 DEF Abort, Define, SeeValues, UpdateCheck, Keep
      <3>2. CodesDiffer'
        BY <3>1 DEF CodesDiffer, Active
      <3>3. CASE Abort(r)
        <4>1. CodeFree(requests[r])'
          BY <1>0, <3>3 DEF Abort, Keep, Idle, CodeFree
        <4> QED
          BY <3>2, <4>1, SoloNext DEF At, CodeFree
      <3>4. CASE Define(r) \/ SeeValues(r)
        <4>1. /\ q.pc \in {"store", "defined"}
              /\ requests'[r].thing = q.thing /\ requests'[r].code = q.code
          <5>1. CASE Define(r)
            <6>1. CASE Keep(r, [q EXCEPT !.pc = "defined"])
              BY <1>0, <5>1, <6>1 DEF Define, Keep, At, Request
            <6>2. CASE \E S : Keep(r, [q EXCEPT !.pc = "defined", !.defs = S])
              <7>1. PICK S : Keep(r, [q EXCEPT !.pc = "defined", !.defs = S])
                BY <6>2
              <7>2. requests'[r] = [q EXCEPT !.pc = "defined", !.defs = S]
                BY <1>0, <7>1 DEF Keep
              <7>3. q.pc = "store"
                BY <5>1 DEF Define, At
              <7> QED
                BY <1>0, <7>2, <7>3 DEF Request
            <6> QED
              BY <5>1, <6>1, <6>2 DEF Define
          <5>2. CASE SeeValues(r)
            BY <1>0, <5>2 DEF SeeValues, Keep, At, Request
          <5> QED
            BY <3>4, <5>1, <5>2
        <4>2. CodeFree(requests[r])'
          BY <2>1, <3>1, <4>1 DEF CodeFree, CodeTaken, ActiveWith, Active
        <4> QED
          BY <3>2, <4>2, SoloNext DEF At, CodeFree
      <3>5. ASSUME NEW code \in Codes, NEW n \in Names \cup {None}, UpdateCheck(r, code, n)
            PROVE  CodeFree(requests[r])'
        <4>1. requests'[r].thing = q.thing /\ requests'[r].code = code
          BY <1>0, <3>5 DEF UpdateCheck, Keep, Request
        <4> QED
          BY <3>1, <3>5, <4>1 DEF UpdateCheck, CodeFree, CodeTaken, ActiveWith, Active
      <3> QED
        BY <2>3, <3>2, <3>3, <3>4, <3>5, SoloNext DEF At, CodeFree
    <2> QED
      BY <1>2, <2>2, <2>3 DEF Handle, CreateCheck, UpdateLoad
  <1> QED
    BY <1>1, <1>2

\* Before anything is restored, what the trash does only takes codes away.
LEMMA ScanTrash ==
  ASSUME TypeOK, CodesDiffer, NEW x \in Things, Delete(x) \/ Restore(x) \/ Purge(x),
         ~(things[x].life = "trashed" /\ Active(x)')
  PROVE  CodesDiffer'
  <1>1. \A y \in Things : Active(y)' => things'[y].code = things[y].code /\ Active(y)
    <2> USE Parts DEF Bury, ThingsOK, Thing, Active
    <2>1. CASE Delete(x)
      BY <2>1 DEF Delete
    <2>2. CASE Restore(x)
      BY <2>2 DEF Restore
    <2>3. CASE Purge(x)
      BY <2>3 DEF Purge, Unwritten
    <2> QED
      BY <2>1, <2>2, <2>3
  <1> QED
    BY <1>1 DEF CodesDiffer

\* An idle slot claims nothing.
LEMMA IdleFree ==
  ASSUME \A r \in Requests : At(r, "idle"), requests' = requests
  PROVE  \A r \in Requests : CodeFree(requests[r])'
  BY DEF CodeFree, At

LEMMA ScanStep == TypeOK /\ ScanInv /\ [HNext]_<<vars, history>> => ScanInv'
  <1> SUFFICES ASSUME TypeOK, ScanInv, [HNext]_<<vars, history>>, history' = "serial"
               PROVE  CodesDiffer' /\ \A r \in Requests : Solo(r)' => CodeFree(requests[r])'
    BY DEF ScanInv
  <1>1. CASE UNCHANGED <<vars, history>>
    BY <1>1 DEF ScanInv, vars, CodesDiffer, Active, Solo, At, CodeFree, CodeTaken, ActiveWith
  <1>2. CASE HNext
    <2>1. /\ OneAtATime /\ history = "serial"
          /\ requests' = requests => \A r \in Requests : At(r, "idle")
          /\ \A x \in Things : ~(things[x].life = "trashed" /\ Active(x)')
      BY <1>2, AloneNext
    <2>2. CodesDiffer /\ \A t \in Requests : Solo(t) => CodeFree(requests[t])
      BY <2>1 DEF ScanInv
    <2>3. ASSUME NEW r \in Requests, Handle(r)
          PROVE  CodesDiffer' /\ \A t \in Requests : Solo(t)' => CodeFree(requests[t])'
      BY <2>1, <2>2, <2>3, ScanHandle
    <2>4. ASSUME requests' = requests
          PROVE  \A t \in Requests : CodeFree(requests[t])'
      BY <2>1, <2>4, IdleFree
    <2>5. ASSUME NEW x \in Things, Delete(x) \/ Restore(x) \/ Purge(x)
          PROVE  CodesDiffer' /\ requests' = requests
      BY <2>1, <2>2, <2>5, ScanTrash DEF Delete, Restore, Purge, Bury
    <2>6. ASSUME things' = things
          PROVE  CodesDiffer'
      BY <2>2, <2>6 DEF CodesDiffer, Active
    <2> QED
      BY <1>2, <2>3, <2>4, <2>5, <2>6
         DEF HNext, Next, CreateCategory, DeleteCategory, CreateField, DeleteField
  <1> QED
    BY <1>1, <1>2

\* Where no two active things have one code, a scan finds whose code it is.
LEMMA DistinctScan == ASSUME CodesDiffer PROVE EveryScanHits
  <1> SUFFICES ASSUME NEW x \in Things, Active(x), Strip[things[x].code] = things[x].code
               PROVE  Lookup(things[x].code) = {x}
    BY DEF EveryScanHits
  <1>1. \A S \in SUBSET Things : ActiveWith(things[x].code, S) = S \cap {x}
    BY DEF CodesDiffer, ActiveWith
  <1> QED
    BY <1>1 DEF Lookup, Things

\* For any things, codes and number of requests: while nothing overlaps and
\* nothing comes back from the trash, every scan of a stored code finds its
\* thing, be it an item or a consumable.
THEOREM UnrestoredScanHolds == HSpec => []UnrestoredScan
  <1>1. HInit => ScanInv
    BY DEF HInit, Init, ScanInv, CodesDiffer, Active, Unwritten, Idle, CodeFree
  <1>2. ScanInv => UnrestoredScan
    BY DistinctScan DEF ScanInv, UnrestoredScan
  <1> QED
    BY <1>1, <1>2, ScanStep, HistoryOnly, TypeCorrect, PTL DEF HSpec
-----------------------------------------------------------------------------
\* The commit of a form whose loaded row is still the row: afterwards the row
\* says the category of the form.
LEMMA FitWriteRow ==
  ASSUME TypeOK, AbsentBare, NEW q \in Request, KnowsItsRow(q),
         q.pc \in {"store", "save"}, WriteRow(q), q.old = things[q.thing]
  PROVE  /\ AbsentBare'
         /\ \A y \in Things \ {q.thing} : things'[y] = things[y]
         /\ things'[q.thing].category = q.category
  <1> DEFINE x == q.thing
  <1>1. x \in Things /\ things[x] \in Thing
    BY Parts DEF KnowsItsRow, ThingsOK
  <1>2. \A y \in Things \ {x} : things'[y] = things[y]
    BY <1>1, Parts DEF WriteRow, ThingsOK
  <1>3. /\ things'[x].life = IF IsNew(q) THEN "active" ELSE things[x].life
        /\ things'[x].category = q.category
    BY <1>1, Parts DEF WriteRow, ThingsOK, Thing
  <1>4. things'[x].life # "absent"
    BY <1>3 DEF IsNew
  <1> QED
    BY <1>2, <1>3, <1>4 DEF AbsentBare

\* The commit of a form that is alone leaves its item the values of the fields
\* of its category, and no others.
LEMMA FitSaveValues ==
  ASSUME TypeOK, ValuesFit, AbsentBare, NEW q \in Request, KnowsItsRow(q), q.pc = "save",
         ReadsHold(q), NEW filled \in SUBSET q.defs, WriteRow(q), SaveValues(q, filled),
         UNCHANGED presets
  PROVE  ValuesFit'
  <1>1. q.thing \in Items /\ q.seen \subseteq Fields /\ filled \subseteq Fields
    BY DEF KnowsItsRow, Request
  <1>2. /\ \A y \in Things \ {q.thing} : things'[y] = things[y]
        /\ things'[q.thing].category = q.category
    BY FitWriteRow DEF ReadsHold
  <1>3. \A f \in filled : categories[fields[f]] = q.category
    BY DEF ReadsHold
  <1>4. \A f \in Fields : f \in q.seen <=> <<q.thing, f>> \in values
    BY DEF ReadsHold
  <1>5. ASSUME NEW v \in values', v[1] = q.thing
        PROVE  v[2] \in filled
    <2>1. CASE v \in {q.thing} \X (filled \ q.seen)
      BY <2>1
    <2>2. CASE v \in values /\ v \notin {q.thing} \X (q.seen \ filled)
      <3>1. v = <<q.thing, v[2]>> /\ v[2] \in Fields
        BY <1>5, <2>2, Parts DEF ValuesOK
      <3> QED
        BY <1>4, <2>2, <3>1
    <2> QED
      BY <1>5, <2>1, <2>2 DEF SaveValues
  <1>6. ASSUME NEW v \in values', v[1] # q.thing
        PROVE  v \in values /\ v[1] \in Things
    BY <1>6, Parts DEF SaveValues, ValuesOK, Things
  <1> SUFFICES ASSUME NEW v \in values'
               PROVE  categories[fields[v[2]]] = things'[v[1]].category
    BY DEF ValuesFit, presets
  <1> QED
    BY <1>2, <1>3, <1>5, <1>6 DEF ValuesFit

\* What a form keeps, alone between its awaits, stays true.
LEMMA FitKeep ==
  ASSUME TypeOK, NEW r \in Requests, ReadsHold(requests[r]), AbsentBare,
         \/ Abort(r) \/ Define(r) \/ SeeValues(r)
         \/ \E x \in Things, code \in Codes, n \in Names \cup {None} : CreateCheck(r, x, code, n)
         \/ \E x \in Things : UpdateLoad(r, x)
         \/ \E code \in Codes, n \in Names \cup {None} : UpdateCheck(r, code, n)
  PROVE  ReadsHold(requests[r])' /\ UNCHANGED <<things, presets, values>>
  <1> DEFINE q == requests[r]
  <1>0. q \in Request /\ KnowsItsRow(q) /\ requests \in [Requests -> Request]
    BY Parts DEF RequestsOK
  <1>1. UNCHANGED <<things, presets, values>>
    BY DEF Abort, Define, SeeValues, CreateCheck, UpdateLoad, UpdateCheck, Keep
  <1>2. SUFFICES ReadsHold(requests'[r])
    BY <1>1 DEF ReadsHold, presets
  <1>3. CASE Abort(r)
    BY <1>0, <1>3 DEF Abort, Keep, Idle, ReadsHold
  <1>4. ASSUME NEW x \in Things, NEW code \in Codes, NEW n \in Names \cup {None},
               CreateCheck(r, x, code, n)
        PROVE  ReadsHold(requests'[r])
    <2>1. /\ requests'[r].pc = "store" /\ requests'[r].thing = x
          /\ requests'[r].old = Unwritten /\ requests'[r].defs = {}
      BY <1>0, <1>4 DEF CreateCheck, Keep, Idle
    <2> QED
      BY <1>4, <2>1 DEF CreateCheck, AbsentBare, ReadsHold
  <1>5. ASSUME NEW x \in Things, UpdateLoad(r, x)
        PROVE  ReadsHold(requests'[r])
    <2>1. /\ requests'[r].pc = "edit" /\ requests'[r].thing = x
          /\ requests'[r].old = things[x] /\ requests'[r].defs = {}
      BY <1>0, <1>5 DEF UpdateLoad, Keep, Idle
    <2> QED
      BY <2>1 DEF ReadsHold
  <1>6. ASSUME NEW code \in Codes, NEW n \in Names \cup {None}, UpdateCheck(r, code, n)
        PROVE  ReadsHold(requests'[r])
    <2>1. q.pc = "edit"
      BY <1>6 DEF UpdateCheck, At
    <2>2. /\ requests'[r].pc = "store" /\ requests'[r].thing = q.thing
          /\ requests'[r].old = q.old /\ requests'[r].defs = q.defs
      BY <1>0, <1>6 DEF UpdateCheck, Keep, Request
    <2> QED
      BY <2>1, <2>2 DEF ReadsHold
  <1>7. CASE Define(r)
    <2>1. q.pc = "store"
      BY <1>7 DEF Define, At
    <2>2. CASE Keep(r, [q EXCEPT !.pc = "defined"])
      <3>1. /\ requests'[r].pc = "defined" /\ requests'[r].thing = q.thing
            /\ requests'[r].old = q.old /\ requests'[r].defs = q.defs
        BY <1>0, <2>2 DEF Keep, Request
      <3> QED
        BY <2>1, <3>1 DEF ReadsHold
    <2>3. ASSUME NEW g \in Categories, categories[g] = q.category,
                 Keep(r, [q EXCEPT !.pc = "defined", !.defs = {f \in Fields : fields[f] = g}])
          PROVE  ReadsHold(requests'[r])
      <3>1. /\ requests'[r].pc = "defined" /\ requests'[r].thing = q.thing
            /\ requests'[r].old = q.old /\ requests'[r].category = q.category
            /\ requests'[r].defs = {f \in Fields : fields[f] = g}
        BY <1>0, <2>3 DEF Keep, Request
      <3> QED
        BY <2>1, <2>3, <3>1 DEF ReadsHold
    <2> QED
      BY <1>7, <2>2, <2>3 DEF Define
  <1>8. CASE SeeValues(r)
    <2>1. q.pc = "defined"
      BY <1>8 DEF SeeValues, At
    <2>2. /\ requests'[r].pc = "save" /\ requests'[r].thing = q.thing
          /\ requests'[r].old = q.old /\ requests'[r].category = q.category
          /\ requests'[r].defs = q.defs
          /\ requests'[r].seen = {f \in Fields : <<q.thing, f>> \in values}
      BY <1>0, <1>8 DEF SeeValues, Keep, Request
    <2> QED
      BY <2>1, <2>2 DEF ReadsHold
  <1> QED
    BY <1>3, <1>4, <1>5, <1>6, <1>7, <1>8

FitParts == /\ ValuesFit
            /\ AbsentBare
            /\ \A r \in Requests : Solo(r) => ReadsHold(requests[r])

\* An idle slot has read nothing.
LEMMA IdleReads == ASSUME NEW q, q.pc = "idle" PROVE ReadsHold(q)
  BY DEF ReadsHold

LEMMA FitHandle ==
  ASSUME TypeOK, OneAtATime, FitParts, NEW r \in Requests, Handle(r)
  PROVE  FitParts'
  <1> DEFINE q == requests[r]
  <1>0. q \in Request /\ KnowsItsRow(q) /\ requests \in [Requests -> Request]
    BY Parts DEF RequestsOK
  <1>1. ReadsHold(q)
    <2>1. CASE At(r, "idle")
      BY <2>1, IdleReads DEF At
    <2>2. CASE ~At(r, "idle")
      BY <2>2 DEF OneAtATime, Solo, FitParts
    <2> QED
      BY <2>1, <2>2
  <1>2. \A t \in Requests : At(t, "idle")' => ReadsHold(requests[t])'
    BY DEF At, ReadsHold
  <1>3. SUFFICES ValuesFit' /\ AbsentBare' /\ ReadsHold(requests[r])'
    BY <1>2, SoloNext DEF FitParts
  <1>4. CASE \/ Abort(r) \/ Define(r) \/ SeeValues(r)
             \/ \E x \in Things, code \in Codes, n \in Names \cup {None} : CreateCheck(r, x, code, n)
             \/ \E x \in Things : UpdateLoad(r, x)
             \/ \E code \in Codes, n \in Names \cup {None} : UpdateCheck(r, code, n)
    <2>1. ReadsHold(requests[r])' /\ UNCHANGED <<things, presets, values>>
      BY <1>1, <1>4, FitKeep DEF FitParts
    <2> QED
      BY <2>1 DEF FitParts, ValuesFit, AbsentBare, presets
  <1>5. ASSUME NEW filled \in SUBSET requests[r].defs, StoreItem(r, filled)
        PROVE  ValuesFit' /\ AbsentBare' /\ ReadsHold(requests[r])'
    <2>1. /\ q.pc = "save" /\ WriteRow(q) /\ SaveValues(q, filled) /\ UNCHANGED presets
          /\ requests'[r].pc = "idle"
      BY <1>0, <1>5 DEF StoreItem, At, Finish, Idle
    <2>2. ValuesFit'
      BY <1>0, <1>1, <2>1, FitSaveValues DEF FitParts
    <2>3. AbsentBare'
      BY <1>0, <1>1, <2>1, FitWriteRow DEF FitParts, ReadsHold
    <2> QED
      BY <1>2, <2>1, <2>2, <2>3 DEF At
  <1>6. CASE StoreConsumable(r)
    <2>1. /\ q.pc = "store" /\ WriteRow(q) /\ UNCHANGED <<presets, values>>
          /\ q.thing \in Consumables /\ requests'[r].pc = "idle"
      BY <1>0, <1>6 DEF StoreConsumable, At, Finish, Idle
    <2>2. AbsentBare' /\ \A y \in Things \ {q.thing} : things'[y] = things[y]
      BY <1>0, <1>1, <2>1, FitWriteRow DEF FitParts, ReadsHold
    <2>3. \A v \in values : v[1] \in Things \ {q.thing}
      BY <2>1, Parts, TablesAssumption DEF ValuesOK, Things
    <2>4. ValuesFit'
      BY <2>1, <2>2, <2>3 DEF FitParts, ValuesFit, presets
    <2> QED
      BY <1>2, <2>1, <2>2, <2>4 DEF At
  <1> QED
    BY <1>4, <1>5, <1>6 DEF Handle

\* The trash does not change categories, and a purge takes the values along.
LEMMA FitTrash ==
  ASSUME TypeOK, ValuesFit, AbsentBare, NEW x \in Things, Delete(x) \/ Restore(x) \/ Purge(x)
  PROVE  ValuesFit' /\ AbsentBare' /\ requests' = requests
  <1>1. /\ \A y \in Things \ {x} : things'[y] = things[y]
        /\ things'[x].life # "absent"
        /\ Delete(x) \/ Restore(x) => things'[x].category = things[x].category /\ values' = values
        /\ Purge(x) => values' = {v \in values : v[1] # x}
        /\ UNCHANGED <<presets, requests>>
    <2> USE Parts DEF Bury, ThingsOK, Thing
    <2>1. CASE Delete(x)
      BY <2>1 DEF Delete, Purge, Active
    <2>2. CASE Restore(x)
      BY <2>2 DEF Restore, Purge
    <2>3. CASE Purge(x)
      <3>1. /\ \A y \in Things \ {x} : things'[y] = things[y]
            /\ things'[x].life = "purged"
            /\ values' = {v \in values : v[1] # x}
            /\ UNCHANGED <<presets, requests>>
        BY <2>3 DEF Purge, Unwritten
      <3>2. ~Delete(x) /\ ~Restore(x)
        BY <2>3, <3>1 DEF Purge, Delete, Restore
      <3> QED
        BY <3>1, <3>2
    <2> QED
      BY <2>1, <2>2, <2>3
  <1>2. AbsentBare'
    BY <1>1 DEF AbsentBare
  <1>3. \A v \in values : v[1] \in Things
    BY Parts DEF ValuesOK, Things
  <1>4. ValuesFit'
    BY <1>1, <1>3 DEF ValuesFit, presets
  <1> QED
    BY <1>1, <1>2, <1>4

\* A category that has fields keeps its name; a new one has no fields yet.
LEMMA FitPresets ==
  ASSUME TypeOK, ValuesFit, AbsentBare,
         \/ \E g \in Categories : \/ \E n \in Names, padded \in BOOLEAN : CreateCategory(g, n, padded)
                                  \/ DeleteCategory(g)
                                  \/ \E f \in Fields : CreateField(f, g)
         \/ \E f \in Fields : DeleteField(f)
  PROVE  ValuesFit' /\ AbsentBare' /\ requests' = requests
  <1>1. AbsentBare' /\ requests' = requests /\ things' = things
    BY DEF CreateCategory, DeleteCategory, CreateField, DeleteField, AbsentBare
  <1>2. \A v \in values : /\ v[2] \in Fields
                          /\ fields[v[2]] \in Categories
                          /\ categories[fields[v[2]]] # None
    BY Parts DEF ValuesOK, PresetsOK
  <1>3. ASSUME NEW g \in Categories, NEW n \in Names, NEW padded \in BOOLEAN,
               CreateCategory(g, n, padded)
        PROVE  ValuesFit'
    BY <1>2, <1>3, Parts DEF CreateCategory, ValuesFit, PresetsOK
  <1>4. ASSUME NEW g \in Categories, DeleteCategory(g)
        PROVE  ValuesFit'
    BY <1>2, <1>4, Parts DEF DeleteCategory, ValuesFit, PresetsOK
  <1>5. ASSUME NEW g \in Categories, NEW f \in Fields, CreateField(f, g)
        PROVE  ValuesFit'
    BY <1>2, <1>5, Parts, NoneAssumption DEF CreateField, ValuesFit, PresetsOK
  <1>6. ASSUME NEW f \in Fields, DeleteField(f)
        PROVE  ValuesFit'
    BY <1>2, <1>6, Parts DEF DeleteField, ValuesFit, PresetsOK
  <1> QED
    BY <1>1, <1>3, <1>4, <1>5, <1>6

LEMMA FitStep == TypeOK /\ FitInv /\ [HNext]_<<vars, history>> => FitInv'
  <1> SUFFICES ASSUME TypeOK, FitInv, [HNext]_<<vars, history>>, history' # "overlapped"
               PROVE  FitParts'
    BY DEF FitInv, FitParts
  <1>1. CASE UNCHANGED <<vars, history>>
    BY <1>1 DEF FitInv, FitParts, vars, ValuesFit, AbsentBare, Solo, At, ReadsHold
  <1>2. CASE HNext
    <2>1. /\ OneAtATime /\ history # "overlapped"
          /\ requests' = requests => \A r \in Requests : At(r, "idle")
      BY <1>2, AloneNext
    <2>2. FitParts
      BY <2>1 DEF FitInv, FitParts
    <2>3. ASSUME NEW r \in Requests, Handle(r)
          PROVE  FitParts'
      BY <2>1, <2>2, <2>3, FitHandle
    <2>4. ASSUME requests' = requests
          PROVE  \A t \in Requests : ReadsHold(requests[t])'
      BY <2>1, <2>4 DEF At, ReadsHold
    <2>5. ASSUME ValuesFit' /\ AbsentBare' /\ requests' = requests
          PROVE  FitParts'
      BY <2>4, <2>5 DEF FitParts
    <2> QED
      BY <1>2, <2>2, <2>3, <2>5, FitTrash, FitPresets DEF HNext, Next, FitParts
  <1> QED
    BY <1>1, <1>2

\* For any items, presets and number of requests: while requests do not
\* overlap, an item has values only for the fields of its category, through
\* edits, the trash and the deletion of categories and fields.
THEOREM SerialValuesFitHolds == HSpec => []SerialValuesFit
  <1>1. HInit => FitInv
    BY DEF HInit, Init, FitInv, ValuesFit, AbsentBare, Unwritten, Idle, ReadsHold
  <1>2. FitInv => SerialValuesFit
    BY DEF FitInv, SerialValuesFit
  <1> QED
    BY <1>1, <1>2, FitStep, HistoryOnly, TypeCorrect, PTL DEF HSpec
=============================================================================
