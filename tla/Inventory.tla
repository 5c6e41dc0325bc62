------------------------------ MODULE Inventory -------------------------------
(***************************************************************************)
(* The forms that create and edit items and consumables, with their        *)
(* barcodes, the trash, and the custom fields of items (routers/items.py,  *)
(* routers/consumables.py, core/barcodes.py, core/custom_fields.py,        *)
(* routers/admin_presets.py).                                              *)
(*                                                                         *)
(* A member of Names stands for a department and the name of a category in *)
(* it: fields are looked up by both.  What a field holds is left out.      *)
(*                                                                         *)
(* A form is split where its handler awaits.  The presets and the trash    *)
(* are one action each: a constraint repeats what their handlers check     *)
(* before the commit, and a purge overtaken by a restore is in TrashDesk,  *)
(* with the open lendings that block it.                                   *)
(***************************************************************************)
CONSTANTS Items, Consumables, Names, Categories, Fields, Requests, None,
          Codes,   \* barcodes as they may be typed, with spaces around them or not
          Strip    \* a barcode without the spaces

ASSUME StripAssumption == /\ Strip \in [Codes -> Codes]
                          /\ \A code \in Codes : Strip[Strip[code]] = Strip[code]

\* Items and consumables are rows of two tables.
ASSUME TablesAssumption == Items \cap Consumables = {}

ASSUME NoneAssumption == None \notin Codes \cup Categories /\ "deleted" \notin Categories

VARIABLES
  things,      \* items and consumables
  categories,  \* the name of a category, None while there is no such row
  fields,      \* the category of a field, None before and "deleted" after it exists
  values,      \* which item has a value for which field
  requests

vars == <<things, categories, fields, values, requests>>
presets == <<categories, fields>>

Things == Items \cup Consumables

Thing == [life     : {"absent", "active", "trashed", "purged"},
          code     : Codes \cup {None},
          category : Names \cup {None}]

Request == [pc       : {"idle", "edit", "store", "defined", "save"},
            thing    : Things \cup {None},
            old      : Thing,             \* the row as it was loaded
            code     : Codes \cup {None},
            category : Names \cup {None},
            defs     : SUBSET Fields,     \* the fields of its category
            seen     : SUBSET Fields]     \* the fields it had values for

Unwritten == [life |-> "absent", code |-> None, category |-> None]

Idle == [pc |-> "idle", thing |-> None, old |-> Unwritten, code |-> None,
         category |-> None, defs |-> {}, seen |-> {}]

-----------------------------------------------------------------------------
Active(x) == things[x].life = "active"

RowExists(x) == things[x].life \in {"active", "trashed"}

SameTable(x) == IF x \in Items THEN Items ELSE Consumables

ActiveWith(code, S) == {x \in S : Active(x) /\ things[x].code = code}

\* Mutant: the cross-check of the other table is gone (barcode_taken_by_other_kind).
CodeTaken_OwnTable(x, code) == ActiveWith(code, SameTable(x) \ {x}) # {}

\* The handlers ask their own table and barcode_taken_by_other_kind.
CodeTaken(x, code) == ActiveWith(code, Things \ {x}) # {}

\* Mutant: the indexes were never created.
UniqueAmongActive_NoIndex(x, code) == TRUE

\* uq_items_barcode_active and uq_consumables_barcode_active
UniqueAmongActive(x, code) == ActiveWith(code, SameTable(x) \ {x}) = {}

\* scan_lookup: what was scanned is stripped, a consumable is looked for only
\* if there is no item.
Lookup(scanned) ==
  LET found(S) == ActiveWith(Strip[scanned], S) IN
  IF found(Items) # {} THEN found(Items) ELSE found(Consumables)

-----------------------------------------------------------------------------
At(r, pc) == requests[r].pc = pc

Keep(r, q) == /\ requests' = [requests EXCEPT ![r] = q]
              /\ UNCHANGED <<things, presets, values>>

Finish(r) == requests' = [requests EXCEPT ![r] = Idle]

\* A check failed, a constraint rejected the commit, a value was not valid, the
\* client went away or the process died: the session rolls back.
Abort(r) == ~At(r, "idle") /\ Keep(r, Idle)

IsNew(q) == q.old.life = "absent"

Dirty(q) == IsNew(q) \/ q.code # q.old.code \/ q.category # q.old.category

\* The UPDATE of this row was flushed by a transaction that has not ended.
Locked(x, S) == \E s \in S : /\ requests[s].pc \in {"defined", "save"}
                             /\ requests[s].thing = x
                             /\ Dirty(requests[s])

-----------------------------------------------------------------------------
(* create_item, create_consumable, update_item, update_consumable *)

\* Consumables have categories too, but nothing hangs on them.
CategoryFor(x) == IF x \in Items THEN Names \cup {None} ELSE {None}

CreateCheck(r, x, code, n) ==
  /\ At(r, "idle")
  /\ things[x].life = "absent"
  /\ n \in CategoryFor(x)
  /\ ~CodeTaken(x, code)
  /\ Keep(r, [Idle EXCEPT !.pc = "store", !.thing = x, !.code = code, !.category = n])

UpdateLoad(r, x) ==
  /\ At(r, "idle")
  /\ Active(x)
  /\ Keep(r, [Idle EXCEPT !.pc = "edit", !.thing = x, !.old = things[x]])

UpdateCheck(r, code, n) ==
  LET q == requests[r] IN
  /\ At(r, "edit")
  /\ n \in CategoryFor(q.thing)
  /\ ~CodeTaken(q.thing, code)
  /\ Keep(r, [q EXCEPT !.pc = "store", !.code = code, !.category = n])

\* get_definitions_for_item: the first category of that name, whichever it is.
\* The query flushes the row of the item first and waits for its lock.
Define(r) ==
  LET q == requests[r]
      homes == {g \in Categories : q.category # None /\ categories[g] = q.category}
  IN
  /\ At(r, "store")
  /\ q.thing \in Items
  /\ Dirty(q) => ~Locked(q.thing, Requests \ {r})
  /\ \/ /\ homes = {}
        /\ Keep(r, [q EXCEPT !.pc = "defined"])
     \/ \E g \in homes :
          Keep(r, [q EXCEPT !.pc = "defined", !.defs = {f \in Fields : fields[f] = g}])

SeeValues(r) ==
  LET q == requests[r] IN
  /\ At(r, "defined")
  /\ Keep(r, [q EXCEPT !.pc = "save",
                       !.seen = {f \in Fields : <<q.thing, f>> \in values}])

\* The row of a commit: what differs from the loaded row is written.
WriteRow(q) ==
  LET x == q.thing IN
  /\ IF IsNew(q) THEN things[x].life = "absent" ELSE Dirty(q) => RowExists(x)
  /\ IsNew(q) \/ (Active(x) /\ q.code # q.old.code) => UniqueAmongActive(x, q.code)
  /\ things' = [things EXCEPT
       ![x].life     = IF IsNew(q) THEN "active" ELSE @,
       ![x].code     = IF q.code = q.old.code THEN @ ELSE q.code,
       ![x].category = IF q.category = q.old.category THEN @ ELSE q.category]

StoreConsumable(r) ==
  /\ At(r, "store")
  /\ requests[r].thing \in Consumables
  /\ WriteRow(requests[r])
  /\ Finish(r)
  /\ UNCHANGED <<presets, values>>

\* Mutant: values of the fields of another category are left behind.
SaveValues_KeepsForeign(q, filled) ==
  LET cells(S) == {q.thing} \X S IN
  /\ \A f \in filled \ q.seen : fields[f] \in Categories /\ <<q.thing, f>> \notin values
  /\ filled \ q.seen # {} => RowExists(q.thing) \/ IsNew(q)
  /\ values' = (values \ cells((q.seen \cap q.defs) \ filled)) \cup cells(filled \ q.seen)

\* save_values_for_item: values of fields that were left empty or are not of
\* the category are deleted, new ones inserted (their item and field must
\* exist, and no value for both).
SaveValues(q, filled) ==
  LET cells(S) == {q.thing} \X S IN
  /\ \A f \in filled \ q.seen : fields[f] \in Categories /\ <<q.thing, f>> \notin values
  /\ filled \ q.seen # {} => RowExists(q.thing) \/ IsNew(q)
  /\ values' = (values \ cells(q.seen \ filled)) \cup cells(filled \ q.seen)

StoreItem(r, filled) ==
  /\ At(r, "save")
  /\ filled \subseteq requests[r].defs
  /\ WriteRow(requests[r])
  /\ SaveValues(requests[r], filled)
  /\ Finish(r)
  /\ UNCHANGED presets

-----------------------------------------------------------------------------
(* The trash: delete_entity, restore_item, restore_consumable, purge_item,  *)
(* purge_consumable.  All of them wait for the lock of the row.             *)

Bury(x, row) == /\ ~Locked(x, Requests)
                /\ things' = [things EXCEPT ![x] = row]
                /\ UNCHANGED <<presets, requests>>

Delete(x) ==
  /\ Active(x)
  /\ Bury(x, [things[x] EXCEPT !.life = "trashed"])
  /\ UNCHANGED values

\* Only the own table is asked, by the check and by the index.
Restore(x) ==
  /\ things[x].life = "trashed"
  /\ UniqueAmongActive(x, things[x].code)
  /\ Bury(x, [things[x] EXCEPT !.life = "active"])
  /\ UNCHANGED values

Purge(x) ==
  /\ things[x].life = "trashed"
  /\ Bury(x, [Unwritten EXCEPT !.life = "purged"])
  /\ values' = {v \in values : v[1] # x}

-----------------------------------------------------------------------------
(* The presets: categories and custom fields *)

\* The name is compared as it was typed and stored without the spaces around
\* it (padded), and no index forbids two categories of one name.
CreateCategory(g, n, padded) ==
  /\ categories[g] = None
  /\ padded \/ \A h \in Categories : categories[h] # n
  /\ categories' = [categories EXCEPT ![g] = n]
  /\ UNCHANGED <<things, fields, values, requests>>

\* Mutant: the fields of a category neither block nor keep it.
DeleteCategory_WithFields(g) ==
  /\ categories[g] # None
  /\ categories' = [categories EXCEPT ![g] = None]
  /\ UNCHANGED <<things, fields, values, requests>>

DeleteCategory(g) ==
  /\ categories[g] # None
  /\ \A f \in Fields : fields[f] # g
  /\ categories' = [categories EXCEPT ![g] = None]
  /\ UNCHANGED <<things, fields, values, requests>>

CreateField(f, g) ==
  /\ fields[f] = None
  /\ categories[g] # None
  /\ fields' = [fields EXCEPT ![f] = g]
  /\ UNCHANGED <<things, categories, values, requests>>

\* The values of the field go with it.
DeleteField(f) ==
  /\ fields[f] \in Categories
  /\ fields' = [fields EXCEPT ![f] = "deleted"]
  /\ values' = {v \in values : v[2] # f}
  /\ UNCHANGED <<things, categories, requests>>

-----------------------------------------------------------------------------
Init == /\ things = [x \in Things |-> Unwritten]
        /\ categories = [g \in Categories |-> None]
        /\ fields = [f \in Fields |-> None]
        /\ values = {}
        /\ requests = [r \in Requests |-> Idle]

Handle(r) ==
  \/ Abort(r)
  \/ \E x \in Things, code \in Codes, n \in Names \cup {None} : CreateCheck(r, x, code, n)
  \/ \E x \in Things : UpdateLoad(r, x)
  \/ \E code \in Codes, n \in Names \cup {None} : UpdateCheck(r, code, n)
  \/ Define(r) \/ SeeValues(r) \/ StoreConsumable(r)
  \/ \E filled \in SUBSET requests[r].defs : StoreItem(r, filled)

Next ==
  \/ \E r \in Requests : Handle(r)
  \/ \E x \in Things : Delete(x) \/ Restore(x) \/ Purge(x)
  \/ \E g \in Categories : \/ \E n \in Names, padded \in BOOLEAN : CreateCategory(g, n, padded)
                           \/ DeleteCategory(g)
                           \/ \E f \in Fields : CreateField(f, g)
  \/ \E f \in Fields : DeleteField(f)

Spec == Init /\ [][Next]_vars

-----------------------------------------------------------------------------
\* A request past its check knows the row and the code that its commit writes,
\* and a row that it is about to insert was not loaded from anywhere.
KnowsItsRow(q) ==
  /\ q.pc # "idle" => q.thing \in Things
  /\ q.pc \in {"store", "defined", "save"} => q.code \in Codes
  /\ q.pc \in {"defined", "save"} => q.thing \in Items
  /\ IsNew(q) => q.old = Unwritten

\* Types of the tables and of the requests, and the references the schema
\* keeps: a value has its item and its field, a field its category.
TypeOK ==
  /\ things \in [Things -> Thing]
  /\ categories \in [Categories -> Names \cup {None}]
  /\ fields \in [Fields -> Categories \cup {None, "deleted"}]
  /\ \A f \in Fields : fields[f] \in Categories => categories[fields[f]] # None
  /\ values \subseteq Items \X Fields
  /\ \A v \in values : RowExists(v[1]) /\ fields[v[2]] \in Categories
  /\ requests \in [Requests -> Request]
  /\ \A r \in Requests : KnowsItsRow(requests[r])

\* However requests interleave, no two active items and no two active
\* consumables have one code: the check may be stale, the index is not.
OneCodePerTable ==
  \A x, y \in Things : /\ Active(x) /\ Active(y) /\ x # y
                       /\ SameTable(x) = SameTable(y)
                       => things[x].code # things[y].code

\* A scan of the code of an active thing finds that thing: no item hides a
\* consumable (core/barcodes.py).  The forms store a code as it was typed, so
\* one with spaces around it is never found; of the others this is true while
\* requests do not overlap and nothing comes back from the trash.
EveryScanHits ==
  \A x \in Things : LET code == things[x].code IN
    Active(x) /\ Strip[code] = code => Lookup(code) = {x}

\* A value belongs to a field of a category that has the name the item says
\* (core/custom_fields.py: other values are always cleaned up).  True while
\* requests do not overlap.
ValuesFit ==
  \A v \in values : categories[fields[v[2]]] = things[v[1]].category
=============================================================================
