---------------------------- MODULE LegacyImport ----------------------------
(***************************************************************************)
(* The import of an old Scandy2 database (migrations_legacy/) while the    *)
(* application, and the old system, go on.  An administrator uploads a     *)
(* backup ("web", admin_import.py), which never has logins, or runs the    *)
(* script against the MongoDB ("cli").  Either is one transaction:         *)
(* ImportRead stands for its queries, ImportCommit for what it writes;     *)
(* what a constraint rejects fails as a whole.                             *)
(*                                                                         *)
(* A document stands for its code: the code of a thing, the badge of a     *)
(* worker, the name of a login, and for a record its thing, worker and     *)
(* time.  The rows <<d, n>> are those that may be made from document d.    *)
(* Every document has a department and a date; one without is skipped.     *)
(***************************************************************************)
EXTENDS Integers

CONSTANTS
  Tools, Supplies,  \* documents of items and of consumables
  Workers,          \* documents of workers
  Badged,           \* those with a badge
  Logins,           \* documents of users
  LoginOf,          \* the login a worker's document names, or None
  Records,          \* documents of lendings and withdrawals
  ThingOf, WorkerOf,
  Unfit,            \* the statuses "defekt" and "ausgemustert"
  Own,              \* stands for the one lending that the application makes (bound)
  Copies,           \* bound: rows made from one document
  MaxDisposals,     \* bound: how many rows are trashed or get a new badge
  Imports,          \* slots for imports in flight
  None

Things == Tools \cup Supplies

ASSUME ImportAssumption ==
  /\ Badged \subseteq Workers
  /\ LoginOf \in [Workers -> Logins \cup {None}]
  /\ ThingOf \in [Records -> Things]
  /\ WorkerOf \in [Records -> Badged]
  /\ \A w, v \in Workers : LoginOf[w] = LoginOf[v] /\ LoginOf[w] # None => w = v
  /\ None \notin Logins \cup Workers /\ Own \notin Records

\* ItemStatus; the old system's status of a tool is not taken over where it says
\* "ausgeliehen" (STATUS_MAP).
Status == {"verfuegbar", "ausgeliehen"} \cup Unfit

OldStatus == {"verfuegbar"} \cup Unfit

ASSUME StatusAssumption == "verfuegbar" \notin Unfit /\ "ausgeliehen" \notin Unfit

Rows(docs) == docs \X (1 .. Copies)

\* Documents come from collections of their own, and rows are not None.
ASSUME CollectionsAssumption ==
  /\ Copies \in Nat
  /\ Tools \cap Supplies = {} /\ Workers \cap Logins = {}
  /\ None \notin Rows(Things \cup Workers \cup Logins)

VARIABLES
  thing,      \* rows of items and consumables: absent, active, in the trash, purged
  status,     \* status of an item
  person,     \* rows of users with their badge
  record,     \* rows of lendings and usages
  source,     \* the old system: its records, and those that are open
  import,     \* per slot: what the import in flight has read
  disposals   \* counts to MaxDisposals

db == <<thing, status, person, record>>
vars == <<db, source, import, disposals>>

Life == {"absent", "active", "trash", "purged"}

\* In its table.
Kept == {"active", "trash"}

\* A badge that no document has, or none.
Other == "other"

ASSUME OtherAssumption == Other \notin Badged

Record == [is     : {"absent", "open", "closed"},
           thing  : Rows(Things) \cup {None},
           person : Rows(Workers \cup Logins) \cup {None}]

NoRecord == [is |-> "absent", thing |-> None, person |-> None]

Idle == [kind |-> "idle"]

TypeOK ==
  /\ thing \in [Rows(Things) -> Life]
  /\ status \in [Rows(Tools) -> Status]
  /\ person \in [Rows(Workers \cup Logins) -> [life : Life, badge : Badged \cup {Other}]]
  /\ record \in [Rows(Records) \cup {<<Own, 1>>} -> Record]
  /\ \A x \in DOMAIN record :
       /\ record[x].thing # None => thing[record[x].thing] \in Kept
       /\ record[x].person # None => person[record[x].person].life \in Kept
  /\ source \in [known : SUBSET Records, open : SUBSET Records]
  /\ source.open \subseteq source.known
  /\ DOMAIN import = Imports
  /\ disposals \in Nat

Init == /\ thing = [x \in Rows(Things) |-> "absent"]
        /\ status = [x \in Rows(Tools) |-> "verfuegbar"]
        /\ person = [p \in Rows(Workers \cup Logins) |-> [life |-> "absent", badge |-> Other]]
        /\ record = [x \in Rows(Records) \cup {<<Own, 1>>} |-> NoRecord]
        /\ source = [known |-> {}, open |-> {}]
        /\ import = [i \in Imports |-> Idle]
        /\ disposals = 0

-----------------------------------------------------------------------------
(* What an import reads. *)

\* The row of a set that has at most one, or None.
TheRow(S) == IF S = {} THEN None ELSE CHOOSE x \in S : TRUE

\* _migrate_items, _migrate_consumables: by the code of what is not in the trash.
ThingRow(d) == TheRow({x \in Rows({d}) : thing[x] = "active"})

\* _migrate_users: by the name, in the trash or not.
LoginRow(l) == TheRow({p \in Rows({l}) : person[p].life \in Kept})

\* Mutant: a badge is only looked for on rows that a worker's document made.
BadgeRow_Workers(w) == TheRow({p \in Rows(Workers) : person[p] = [life |-> "active", badge |-> w]})

\* _migrate_workers: whoever has the badge and is not in the trash.
BadgeRow(w) == TheRow({p \in DOMAIN person : person[p] = [life |-> "active", badge |-> w]})

\* Where the worker of a document ends up: who has the badge; else, from the
\* script only, the login that the document names, and it gets the badge; else
\* a new row.
Linked(w, kind) == /\ w \notin Badged \/ BadgeRow(w) = None
                   /\ kind = "cli" /\ LoginOf[w] # None

WorkerRow(w, kind) == IF Linked(w, kind) THEN LoginRow(LoginOf[w])
                      ELSE IF w \in Badged THEN BadgeRow(w) ELSE None

\* Mutant: only lendings that are still open count as known.
IsNew_Open(r, kind) ==
  ~\E x \in Rows({r}) : /\ record[x].is = "open"
                        /\ record[x].thing = ThingRow(ThingOf[r])
                        /\ record[x].person = WorkerRow(WorkerOf[r], kind)

\* _migrate_lendings, _migrate_consumable_usages: there is no such record of
\* this thing and this worker yet.
IsNew(r, kind) ==
  ~\E x \in Rows({r}) : /\ record[x].is # "absent"
                        /\ None \notin {record[x].thing, record[x].person}
                        /\ record[x].thing = ThingRow(ThingOf[r])
                        /\ record[x].person = WorkerRow(WorkerOf[r], kind)

\* What migrate() goes by; None is a row that it is going to make.  The old system
\* says anything of the status of a tool.
Plan(kind, says) ==
  LET new  == {r \in source.known : IsNew(r, kind)}
      open == new \cap source.open
      Read(d) == IF ThingRow(d) = None THEN says[d] ELSE status[ThingRow(d)]
  IN [kind    |-> kind,
      things  |-> [d \in Things |-> ThingRow(d)],
      says    |-> says,
      logins  |-> [l \in Logins |-> IF kind = "cli" THEN LoginRow(l) ELSE None],
      workers |-> [w \in Workers |-> WorkerRow(w, kind)],
      linked  |-> {w \in Workers : Linked(w, kind)},
      records |-> new,
      open    |-> open,
      lends   |-> {r \in open : Read(ThingOf[r]) = "verfuegbar"}]

-----------------------------------------------------------------------------
(* What it writes. *)

\* A row of a document that is not in use; there is no <<d, 0>>.
Unused(d, used) == LET free == Rows({d}) \ used
                   IN  IF free = {} THEN <<d, 0>> ELSE CHOOSE x \in free : TRUE

UsedThings  == {x \in DOMAIN thing : thing[x] # "absent"}
UsedPersons == {x \in DOMAIN person : person[x].life # "absent"}
UsedRecords == {x \in DOMAIN record : record[x].is # "absent"}

ThingFor(p, d) == IF p.things[d] = None THEN Unused(d, UsedThings) ELSE p.things[d]

LoginFor(p, l) == IF p.logins[l] = None THEN Unused(l, UsedPersons) ELSE p.logins[l]

PersonFor(p, w) == IF w \in p.linked THEN LoginFor(p, LoginOf[w])
                   ELSE IF p.workers[w] = None THEN Unused(w, UsedPersons)
                   ELSE p.workers[w]

NewThings(p) == {ThingFor(p, d) : d \in Things} \ UsedThings

NewPersons(p) == ({PersonFor(p, w) : w \in Workers}
                   \cup {LoginFor(p, l) : l \in IF p.kind = "cli" THEN Logins ELSE {}})
                 \ UsedPersons

NewRecords(p) == {Unused(r, UsedRecords) : r \in p.records}

BadgeOn(d) == IF d \in Badged THEN d ELSE Other

ThingsAfter(p) == LET new == NewThings(p) IN
  [x \in DOMAIN thing |-> IF x \in new THEN "active" ELSE thing[x]]

PersonsAfter(p) ==
  LET new      == NewPersons(p)
      Given(x) == {w \in p.linked : PersonFor(p, w) = x}
  IN [x \in DOMAIN person |->
       [life  |-> IF x \in new THEN "active" ELSE person[x].life,
        badge |-> IF Given(x) # {} THEN BadgeOn(CHOOSE w \in Given(x) : TRUE)
                  ELSE IF x \in new THEN BadgeOn(x[1]) ELSE person[x].badge]]

RecordsAfter(p) == LET new == NewRecords(p) IN
  [x \in DOMAIN record |->
     IF x \notin new THEN record[x]
     ELSE [is     |-> IF x[1] \in p.open THEN "open" ELSE "closed",
           thing  |-> ThingFor(p, ThingOf[x[1]]),
           person |-> PersonFor(p, WorkerOf[x[1]])]]

\* Mutant: an open lending does not show.
StatusAfter_Kept(p) == LET new == NewThings(p) IN
  [x \in Rows(Tools) |-> IF x \in new THEN p.says[x[1]] ELSE status[x]]

\* A new item has the status that the old system says; "ausgeliehen" where the
\* item was read as available and gets an open lending.  A defective or retired
\* one that gets an open lending stays what it is.
StatusAfter(p) == LET new == NewThings(p) IN
  [x \in Rows(Tools) |->
     IF \E r \in p.lends : ThingFor(p, ThingOf[r]) = x THEN "ausgeliehen"
     ELSE IF x \in new THEN p.says[x[1]]
     ELSE status[x]]

AtMostOne(S) == \A x, y \in S : x = y

\* The unique indexes and foreign keys, for tables that are about to be: codes
\* and badges of what is not in the trash, names of users, open lendings of an
\* item.
Constraints(t, q, s) ==
  /\ \A d \in Things : AtMostOne({x \in Rows({d}) : t[x] = "active"})
  /\ \A d \in Badged \cup Logins : AtMostOne({x \in Rows({d}) : q[x].life \in Kept})
  /\ \A w \in Badged : AtMostOne({x \in DOMAIN q : q[x] = [life |-> "active", badge |-> w]})
  /\ \A x \in Rows(Tools) : AtMostOne({y \in DOMAIN s : s[y].is = "open" /\ s[y].thing = x})
  /\ \A y \in DOMAIN s : /\ s[y].thing # None => t[s[y].thing] \in Kept
                         /\ s[y].person # None => q[s[y].person].life \in Kept

\* The commit goes through.  An UPDATE of a login that was purged does not.
Admits(p) == /\ Constraints(ThingsAfter(p), PersonsAfter(p), RecordsAfter(p))
             /\ \A w \in p.linked : PersonsAfter(p)[PersonFor(p, w)].life \in Kept

\* Bound: the rows are not used up.
Room(p) == /\ NewThings(p) \subseteq DOMAIN thing
           /\ NewPersons(p) \subseteq DOMAIN person
           /\ NewRecords(p) \subseteq DOMAIN record

ImportRead(i, kind, says) == /\ import[i] = Idle
                             /\ import' = [import EXCEPT ![i] = Plan(kind, says)]
                             /\ UNCHANGED <<db, source, disposals>>

ImportCommit(i) == LET p == import[i] IN
  /\ p # Idle
  /\ Room(p)
  /\ Admits(p)
  /\ thing' = ThingsAfter(p)
  /\ status' = StatusAfter(p)
  /\ person' = PersonsAfter(p)
  /\ record' = RecordsAfter(p)
  /\ import' = [import EXCEPT ![i] = Idle]
  /\ UNCHANGED <<source, disposals>>

\* A constraint fails, or the process dies: nothing is written.
ImportRollsBack(i) == /\ import[i] # Idle
                      /\ import' = [import EXCEPT ![i] = Idle]
                      /\ UNCHANGED <<db, source, disposals>>

-----------------------------------------------------------------------------
(* Meanwhile: the application. *)

OpenOn(x) == \E y \in DOMAIN record : record[y].is = "open" /\ record[y].thing = x

\* scan_lend, in one step.
Lend(x, p) == LET y == <<Own, 1>> IN
  /\ record[y].is = "absent"
  /\ thing[x] = "active" /\ status[x] = "verfuegbar" /\ ~OpenOn(x)
  /\ person[p].life = "active"
  /\ record' = [record EXCEPT ![y] = [is |-> "open", thing |-> x, person |-> p]]
  /\ status' = [status EXCEPT ![x] = "ausgeliehen"]
  /\ UNCHANGED <<thing, person, source, import, disposals>>

\* scan_return, in one step.
Return(y) == LET x == record[y].thing IN
  /\ record[y].is = "open" /\ thing[x] = "active"
  /\ record' = [record EXCEPT ![y].is = "closed"]
  /\ status' = [status EXCEPT ![x] = "verfuegbar"]
  /\ UNCHANGED <<thing, person, source, import, disposals>>

\* update_item: while there is an open lending, the form may only say "ausgeliehen".
EditStatus(x, s) ==
  /\ thing[x] = "active"
  /\ s # "ausgeliehen" => ~OpenOn(x)
  /\ status' = [status EXCEPT ![x] = s]
  /\ UNCHANGED <<thing, person, record, source, import, disposals>>

Dispose == disposals < MaxDisposals /\ disposals' = disposals + 1

Elsewhere == UNCHANGED <<status, source, import>>

TrashThing(x) == /\ thing[x] = "active"
                 /\ thing' = [thing EXCEPT ![x] = "trash"]
                 /\ Dispose /\ Elsewhere
                 /\ UNCHANGED <<person, record>>

\* restore_item, restore_consumable: if no other has taken the code.
RestoreThing(x) == /\ thing[x] = "trash" /\ ThingRow(x[1]) = None
                   /\ thing' = [thing EXCEPT ![x] = "active"]
                   /\ Elsewhere
                   /\ UNCHANGED <<person, record, disposals>>

\* purge_item, purge_consumable: history is kept without its thing.
PurgeThing(x) == /\ thing[x] = "trash" /\ ~OpenOn(x)
                 /\ thing' = [thing EXCEPT ![x] = "purged"]
                 /\ record' = [y \in DOMAIN record |->
                       IF record[y].thing = x THEN [record[y] EXCEPT !.thing = None] ELSE record[y]]
                 /\ Elsewhere
                 /\ UNCHANGED <<person, disposals>>

TrashPerson(q) == /\ person[q].life = "active"
                  /\ person' = [person EXCEPT ![q].life = "trash"]
                  /\ Dispose /\ Elsewhere
                  /\ UNCHANGED <<thing, record>>

\* restore_user: if no other has taken the badge.
RestorePerson(q) == /\ person[q].life = "trash"
                    /\ person[q].badge # Other => BadgeRow(person[q].badge) = None
                    /\ person' = [person EXCEPT ![q].life = "active"]
                    /\ Elsewhere
                    /\ UNCHANGED <<thing, record, disposals>>

\* purge_user.
PurgePerson(q) == /\ person[q].life = "trash"
                  /\ \A y \in DOMAIN record : record[y].is = "open" => record[y].person # q
                  /\ person' = [person EXCEPT ![q].life = "purged"]
                  /\ record' = [y \in DOMAIN record |->
                        IF record[y].person = q THEN [record[y] EXCEPT !.person = None] ELSE record[y]]
                  /\ Elsewhere
                  /\ UNCHANGED <<thing, disposals>>

\* update_user with another badge.
Rebadge(q) == /\ person[q].life = "active" /\ person[q].badge # Other
              /\ person' = [person EXCEPT ![q].badge = Other]
              /\ Dispose /\ Elsewhere
              /\ UNCHANGED <<thing, record>>

(* Meanwhile: the old system, where a thing is with one worker, too. *)
SourceGrows(r) == /\ r \notin source.known
                  /\ \A o \in source.open : ThingOf[o] # ThingOf[r]
                  /\ source' = [source EXCEPT
                       !.known = @ \cup {r},
                       !.open  = @ \cup ({r} \cap {o \in Records : ThingOf[o] \in Tools})]
                  /\ UNCHANGED <<db, import, disposals>>

SourceReturns(r) == /\ r \in source.open
                    /\ source' = [source EXCEPT !.open = @ \ {r}]
                    /\ UNCHANGED <<db, import, disposals>>

Meanwhile == \/ \E x \in Rows(Tools), q \in DOMAIN person : Lend(x, q)
             \/ \E x \in Rows(Tools), s \in Status : EditStatus(x, s)
             \/ \E y \in DOMAIN record : Return(y)
             \/ \E x \in Rows(Things) : TrashThing(x) \/ RestoreThing(x) \/ PurgeThing(x)
             \/ \E q \in DOMAIN person : \/ TrashPerson(q) \/ RestorePerson(q) \/ PurgePerson(q)
                                         \/ Rebadge(q)
             \/ \E r \in Records : SourceGrows(r) \/ SourceReturns(r)

Next == \/ \E i \in Imports : \/ \E kind \in {"cli", "web"}, says \in [Tools -> OldStatus] :
                                   ImportRead(i, kind, says)
                              \/ ImportCommit(i)
                              \/ ImportRollsBack(i)
        \/ Meanwhile

Spec == Init /\ [][Next]_vars
=============================================================================
