------------------------- MODULE LegacyImport_proofs -------------------------
(***************************************************************************)
(* Theorems about imports, for any documents, rows and numbers of imports. *)
(***************************************************************************)
EXTENDS MCLegacyImport, TLAPS

People == Workers \cup Logins

\* What an import in flight may go by, however stale: rows of the documents.
PlanOK(p) ==
  /\ p.kind \in {"cli", "web"}
  /\ p.things \in [Things -> Rows(Things) \cup {None}]
  /\ \A d \in Things : p.things[d] # None => p.things[d][1] = d
  /\ p.says \in [Tools -> OldStatus]
  /\ p.logins \in [Logins -> Rows(Logins) \cup {None}]
  /\ \A l \in Logins : p.logins[l] # None => p.logins[l][1] = l
  /\ p.workers \in [Workers -> Rows(People) \cup {None}]
  /\ p.linked \subseteq {w \in Workers : LoginOf[w] # None}
  /\ p.linked # {} => p.kind = "cli"
  /\ p.records \subseteq Records
  /\ p.open \subseteq {r \in p.records : ThingOf[r] \in Tools}
  /\ p.lends \subseteq p.open

\* The badges that the row of a document may ever have.
BadgesOf(d) == IF d \in Logins THEN {w \in Badged : LoginOf[w] = d} \cup {Other}
               ELSE {BadgeOn(d), Other}

BadgesOK == \A x \in Rows(People) : person[x].badge \in BadgesOf(x[1])

\* Only tools are lent, by the application as in the old system, where a tool is
\* lent once.
OpenOK ==
  /\ \A y \in DOMAIN record : record[y].is = "open" => record[y].thing \in Rows(Tools)
  /\ \A r \in source.open : ThingOf[r] \in Tools
  /\ \A r, o \in source.open : ThingOf[r] = ThingOf[o] => r = o

Inv ==
  /\ TypeOK
  /\ Constraints(thing, person, record)
  /\ BadgesOK
  /\ OpenOK
  /\ \A i \in Imports : import[i] # Idle => PlanOK(import[i])

-----------------------------------------------------------------------------
(* Rows.                                                                     *)

\* A row is one of its document.
LEMMA RowIn ==
  ASSUME NEW docs, NEW x \in Rows(docs)
  PROVE  x[1] \in docs /\ x \in Rows({x[1]})
BY DEF Rows

LEMMA RowOf ==
  ASSUME NEW docs, NEW x, x[1] \in docs, x \in Rows({x[1]})
  PROVE  x \in Rows(docs)
BY DEF Rows

LEMMA RowsOf ==
  ASSUME NEW docs, NEW d \in docs, NEW x \in Rows({d})
  PROVE  x \in Rows(docs) /\ x[1] = d
BY DEF Rows

\* None is no row of any collection.
LEMMA NoneNoRow == /\ None \notin Rows(Things) /\ None \notin Rows(People)
                   /\ None \notin Rows(Workers) /\ None \notin Rows(Logins)
                   /\ None \notin Rows(Tools)
<1>1. /\ Rows(Things) \subseteq Rows(Things \cup Workers \cup Logins)
      /\ Rows(People) \subseteq Rows(Things \cup Workers \cup Logins)
      /\ Rows(Workers) \subseteq Rows(Things \cup Workers \cup Logins)
      /\ Rows(Logins) \subseteq Rows(Things \cup Workers \cup Logins)
      /\ Rows(Tools) \subseteq Rows(Things \cup Workers \cup Logins)
  BY DEF Rows, People, Things
<1> QED
  BY <1>1, CollectionsAssumption

\* What TheRow finds.
LEMMA TheRowFound ==
  ASSUME NEW S, None \notin S
  PROVE  /\ TheRow(S) = None <=> S = {}
         /\ S # {} => TheRow(S) \in S
         /\ AtMostOne(S) => \A x \in S : TheRow(S) = x
BY DEF TheRow, AtMostOne

\* What Unused picks is not used, and a row of its document unless none is left.
LEMMA UnusedRow ==
  ASSUME NEW d, NEW used, <<d, 0>> \notin used
  PROVE  /\ Unused(d, used) \notin used
         /\ Unused(d, used)[1] = d
         /\ Unused(d, used) \in Rows({d}) \/ Unused(d, used) = <<d, 0>>
<1> DEFINE free == Rows({d}) \ used
<1>1. CASE free = {}
  BY <1>1 DEF Unused
<1>2. CASE free # {}
  <2>1. Unused(d, used) \in free
    BY <1>2 DEF Unused
  <2> QED
    BY <2>1 DEF Rows
<1> QED
  BY <1>1, <1>2

\* The answer of Unused when no row is left is no row.
LEMMA ZeroNoRow == \A docs, d : <<d, 0>> \notin Rows(docs)
BY CollectionsAssumption DEF Rows

\* What is used are rows.
LEMMA UsedRows ==
  ASSUME TypeOK
  PROVE  /\ UsedThings \subseteq Rows(Things)
         /\ UsedPersons \subseteq Rows(People)
         /\ UsedRecords \subseteq Rows(Records) \cup {<<Own, 1>>}
         /\ \A d : <<d, 0>> \notin UsedThings /\ <<d, 0>> \notin UsedPersons
                     /\ <<d, 0>> \notin UsedRecords
<1>1. /\ UsedThings \subseteq Rows(Things)
      /\ UsedPersons \subseteq Rows(People)
      /\ UsedRecords \subseteq Rows(Records) \cup {<<Own, 1>>}
  BY DEF TypeOK, UsedThings, UsedPersons, UsedRecords, People
<1>2. \A d : <<d, 0>> # <<Own, 1>>
  OBVIOUS
<1> QED
  BY <1>1, <1>2, ZeroNoRow

-----------------------------------------------------------------------------
(* What a commit writes, however stale its plan.                             *)

\* The things an import writes: one row for each document, the one it has found or a
\* new one, and nothing but the new rows changes.
LEMMA ThingsWritten ==
  ASSUME TypeOK, NEW p, PlanOK(p), Room(p)
  PROVE  /\ \A d \in Things : ThingFor(p, d) \in Rows(Things) /\ ThingFor(p, d)[1] = d
         /\ NewThings(p) = {ThingFor(p, d) : d \in {e \in Things : ThingFor(p, e) \notin UsedThings}}
         /\ \A d \in Things : p.things[d] = None => ThingFor(p, d) \in NewThings(p)
         /\ \A d \in Things : p.things[d] # None => ThingFor(p, d) = p.things[d]
         /\ ThingsAfter(p) \in [Rows(Things) -> Life]
         /\ \A x \in Rows(Things) : ThingsAfter(p)[x] = IF x \in NewThings(p) THEN "active" ELSE thing[x]
<1>1. \A d \in Things : p.things[d] = None => ThingFor(p, d) \in NewThings(p) /\ ThingFor(p, d)[1] = d
  BY UnusedRow, UsedRows DEF ThingFor, NewThings
<1>2. \A d \in Things : p.things[d] # None => ThingFor(p, d) = p.things[d]
  BY DEF ThingFor
<1>3. NewThings(p) \subseteq Rows(Things)
  BY DEF Room, TypeOK
<1>4. \A d \in Things : ThingFor(p, d) \in Rows(Things) /\ ThingFor(p, d)[1] = d
  BY <1>1, <1>2, <1>3 DEF PlanOK
<1>5. NewThings(p) = {ThingFor(p, d) : d \in {e \in Things : ThingFor(p, e) \notin UsedThings}}
  BY DEF NewThings
<1>6. ThingsAfter(p) = [x \in Rows(Things) |-> IF x \in NewThings(p) THEN "active" ELSE thing[x]]
  BY DEF ThingsAfter, TypeOK
<1>7. \A x \in Rows(Things) : (IF x \in NewThings(p) THEN "active" ELSE thing[x]) \in Life
  BY DEF TypeOK, Life
<1> QED
  BY <1>1, <1>2, <1>4, <1>5, <1>6, <1>7

\* An import that has room adds rows of people.
LEMMA RoomForPersons ==
  ASSUME TypeOK, NEW p, Room(p)
  PROVE  NewPersons(p) \subseteq Rows(People)
<1>1. DOMAIN person = Rows(People)
  BY DEF TypeOK, People
<1> QED
  BY <1>1 DEF Room

\* The row an import has for a login: the one it has found or a new one.
LEMMA LoginWritten ==
  ASSUME TypeOK, NEW p, PlanOK(p), Room(p), p.kind = "cli", NEW l \in Logins
  PROVE  /\ LoginFor(p, l) \in Rows(Logins) /\ LoginFor(p, l)[1] = l
         /\ LoginFor(p, l) \in NewPersons(p) \cup UsedPersons
         /\ p.logins[l] = None => LoginFor(p, l) \in NewPersons(p)
         /\ p.logins[l] # None => LoginFor(p, l) = p.logins[l]
<1>1. LoginFor(p, l) \in NewPersons(p) \cup UsedPersons
  BY DEF NewPersons
<1>2. CASE p.logins[l] = None
  <2>1. LoginFor(p, l) = Unused(l, UsedPersons)
    BY <1>2 DEF LoginFor
  <2>2. /\ LoginFor(p, l) \notin UsedPersons /\ LoginFor(p, l)[1] = l
        /\ LoginFor(p, l) \in Rows({l}) \/ LoginFor(p, l) = <<l, 0>>
    <3>1. <<l, 0>> \notin UsedPersons
      BY UsedRows
    <3> QED
      BY <2>1, <3>1, UnusedRow
  <2>3. LoginFor(p, l) \in Rows(People)
    BY <1>1, <2>2, RoomForPersons
  <2>4. LoginFor(p, l) \in Rows({l})
    BY <2>2, <2>3, ZeroNoRow
  <2> QED
    BY <1>1, <1>2, <2>2, <2>4, RowsOf
<1>3. CASE p.logins[l] # None
  BY <1>1, <1>3 DEF LoginFor, PlanOK
<1> QED
  BY <1>2, <1>3

\* The row an import has for a worker: that of the login it is linked to, the one it
\* has found, or a new one.
LEMMA PersonWritten ==
  ASSUME TypeOK, NEW p, PlanOK(p), Room(p), NEW w \in Workers
  PROVE  /\ PersonFor(p, w) \in Rows(People)
         /\ PersonFor(p, w) \in NewPersons(p) \cup UsedPersons
         /\ w \in p.linked => /\ LoginOf[w] \in Logins
                              /\ PersonFor(p, w) = LoginFor(p, LoginOf[w])
                              /\ PersonFor(p, w)[1] = LoginOf[w]
         /\ w \notin p.linked /\ p.workers[w] # None => PersonFor(p, w) = p.workers[w]
         /\ w \notin p.linked /\ p.workers[w] = None =>
              PersonFor(p, w)[1] = w /\ PersonFor(p, w) \in NewPersons(p)
<1>1. PersonFor(p, w) \in NewPersons(p) \cup UsedPersons
  BY DEF NewPersons
<1>2. CASE w \in p.linked
  <2>1. p.kind = "cli" /\ LoginOf[w] \in Logins
    BY <1>2, ImportAssumption DEF PlanOK
  <2>2. PersonFor(p, w) = LoginFor(p, LoginOf[w])
    BY <1>2 DEF PersonFor
  <2>3. LoginFor(p, LoginOf[w]) \in Rows(Logins) /\ LoginFor(p, LoginOf[w])[1] = LoginOf[w]
    BY <2>1, LoginWritten
  <2>4. Rows(Logins) \subseteq Rows(People)
    BY DEF Rows, People
  <2> QED
    BY <1>1, <1>2, <2>1, <2>2, <2>3, <2>4
<1>3. CASE w \notin p.linked /\ p.workers[w] = None
  <2>1. PersonFor(p, w) = Unused(w, UsedPersons)
    BY <1>3 DEF PersonFor
  <2>2. PersonFor(p, w) \notin UsedPersons /\ PersonFor(p, w)[1] = w
    <3>1. <<w, 0>> \notin UsedPersons
      BY UsedRows
    <3> QED
      BY <2>1, <3>1, UnusedRow
  <2>3. PersonFor(p, w) \in Rows(People)
    BY <1>1, <2>2, RoomForPersons
  <2> QED
    BY <1>1, <1>3, <2>2, <2>3
<1>4. CASE w \notin p.linked /\ p.workers[w] # None
  BY <1>1, <1>4 DEF PersonFor, PlanOK
<1> QED
  BY <1>2, <1>3, <1>4

\* Two documents never link to one login.
LEMMA LinkedApart ==
  ASSUME TypeOK, NEW p, PlanOK(p), Room(p),
         NEW v \in p.linked, NEW w \in p.linked, PersonFor(p, v) = PersonFor(p, w)
  PROVE  v = w
<1>1. v \in Workers /\ w \in Workers
  BY DEF PlanOK
<1>2. LoginOf[v] = LoginOf[w] /\ LoginOf[v] \in Logins
  BY <1>1, PersonWritten
<1> QED
  BY <1>1, <1>2, ImportAssumption

\* The people an import writes: new rows are active, others live on as they do, and
\* a badge changes only for a linked worker.
LEMMA PersonsWritten ==
  ASSUME TypeOK, NEW p, PlanOK(p), Room(p)
  PROVE  /\ PersonsAfter(p) \in [Rows(People) -> [life : Life, badge : Badged \cup {Other}]]
         /\ \A x \in Rows(People) : PersonsAfter(p)[x].life = IF x \in NewPersons(p) THEN "active"
                                                              ELSE person[x].life
         /\ \A w \in p.linked : PersonsAfter(p)[PersonFor(p, w)].badge = BadgeOn(w)
         /\ \A x \in Rows(People) : (\A w \in p.linked : PersonFor(p, w) # x) =>
              PersonsAfter(p)[x].badge = IF x \in NewPersons(p) THEN BadgeOn(x[1])
                                         ELSE person[x].badge
<1> DEFINE Given(x) == {w \in p.linked : PersonFor(p, w) = x}
           Row(x) == [life  |-> IF x \in NewPersons(p) THEN "active" ELSE person[x].life,
                      badge |-> IF Given(x) # {} THEN BadgeOn(CHOOSE w \in Given(x) : TRUE)
                                ELSE IF x \in NewPersons(p) THEN BadgeOn(x[1]) ELSE person[x].badge]
<1>1. person \in [Rows(People) -> [life : Life, badge : Badged \cup {Other}]]
  BY DEF TypeOK, People
<1>2. PersonsAfter(p) = [x \in Rows(People) |-> Row(x)]
  BY <1>1 DEF PersonsAfter
<1>3. \A d : BadgeOn(d) \in Badged \cup {Other}
  BY DEF BadgeOn
<1>4. ASSUME NEW x \in Rows(People) PROVE Row(x) \in [life : Life, badge : Badged \cup {Other}]
  <2>1. person[x].life \in Life /\ person[x].badge \in Badged \cup {Other}
    BY <1>1
  <2>2. (IF x \in NewPersons(p) THEN "active" ELSE person[x].life) \in Life
    BY <2>1 DEF Life
  <2> QED
    BY <1>3, <2>1, <2>2
<1>5. ASSUME NEW w \in p.linked PROVE PersonsAfter(p)[PersonFor(p, w)].badge = BadgeOn(w)
  <2> DEFINE x == PersonFor(p, w)
  <2>1. x \in Rows(People)
    BY PersonWritten DEF PlanOK
  <2>2. Given(x) = {w}
    BY LinkedApart
  <2> HIDE DEF x
  <2>3. PersonsAfter(p)[x].badge = BadgeOn(CHOOSE v \in {w} : TRUE)
    BY <1>2, <2>1, <2>2
  <2>4. (CHOOSE v \in {w} : TRUE) = w
    OBVIOUS
  <2> QED
    BY <2>3, <2>4 DEF x
<1>6. ASSUME NEW x \in Rows(People), \A w \in p.linked : PersonFor(p, w) # x
      PROVE  PersonsAfter(p)[x].badge = IF x \in NewPersons(p) THEN BadgeOn(x[1])
                                        ELSE person[x].badge
  <2>1. Given(x) = {}
    BY <1>6
  <2> QED
    BY <1>2, <2>1
<1>7. \A x \in Rows(People) : PersonsAfter(p)[x].life = Row(x).life
  BY <1>2
<1> HIDE DEF Row
<1>8. PersonsAfter(p) \in [Rows(People) -> [life : Life, badge : Badged \cup {Other}]]
  BY <1>2, <1>4
<1>9. \A x \in Rows(People) : Row(x).life = IF x \in NewPersons(p) THEN "active" ELSE person[x].life
  BY DEF Row
<1> QED
  BY <1>5, <1>6, <1>7, <1>8, <1>9

\* The records an import writes: one new row for each record it takes for new.
LEMMA RecordsWritten ==
  ASSUME TypeOK, NEW p, PlanOK(p), Room(p)
  PROVE  /\ RecordsAfter(p) \in [Rows(Records) \cup {<<Own, 1>>} -> Record]
         /\ NewRecords(p) \subseteq Rows(Records)
         /\ \A y \in NewRecords(p) :
              /\ record[y].is = "absent" /\ y[1] \in p.records
              /\ RecordsAfter(p)[y].is = IF y[1] \in p.open THEN "open" ELSE "closed"
              /\ RecordsAfter(p)[y].thing = ThingFor(p, ThingOf[y[1]])
              /\ RecordsAfter(p)[y].person = PersonFor(p, WorkerOf[y[1]])
         /\ \A y \in DOMAIN record \ NewRecords(p) : RecordsAfter(p)[y] = record[y]
         /\ \A r \in p.records : \E y \in NewRecords(p) : y \in Rows({r})
         /\ \A x, y \in NewRecords(p) : x[1] = y[1] => x = y
<1> DEFINE Row(y) == [is     |-> IF y[1] \in p.open THEN "open" ELSE "closed",
                      thing  |-> ThingFor(p, ThingOf[y[1]]),
                      person |-> PersonFor(p, WorkerOf[y[1]])]
<1>1. record \in [Rows(Records) \cup {<<Own, 1>>} -> Record]
  BY DEF TypeOK
<1>2. \A r \in p.records : /\ Unused(r, UsedRecords) \notin UsedRecords
                           /\ Unused(r, UsedRecords)[1] = r
                           /\ r \in Records
  BY UnusedRow, UsedRows DEF PlanOK
<1>3. ASSUME NEW y \in NewRecords(p)
      PROVE  /\ y \in Rows(Records) /\ record[y].is = "absent" /\ y[1] \in p.records
             /\ y = Unused(y[1], UsedRecords)
  <2>1. PICK r \in p.records : y = Unused(r, UsedRecords)
    BY DEF NewRecords
  <2>2. y[1] = r /\ y \notin UsedRecords /\ r \in Records
    BY <1>2, <2>1
  <2>3. y \in Rows(Records) \cup {<<Own, 1>>}
    BY <1>1 DEF Room
  <2>4. y # <<Own, 1>>
    BY <2>2, ImportAssumption
  <2> QED
    BY <1>1, <2>1, <2>2, <2>3, <2>4 DEF UsedRecords
<1>4. RecordsAfter(p) = [y \in Rows(Records) \cup {<<Own, 1>>} |->
                           IF y \notin NewRecords(p) THEN record[y] ELSE Row(y)]
  BY <1>1 DEF RecordsAfter
<1>5. ASSUME NEW y \in NewRecords(p) PROVE Row(y) \in Record
  <2>1. y[1] \in Records
    BY <1>2, <1>3
  <2>2. ThingOf[y[1]] \in Things /\ WorkerOf[y[1]] \in Workers
    BY <2>1, ImportAssumption
  <2>3. /\ ThingFor(p, ThingOf[y[1]]) \in Rows(Things)
        /\ PersonFor(p, WorkerOf[y[1]]) \in Rows(People)
    BY <2>2, ThingsWritten, PersonWritten
  <2> QED
    BY <2>3 DEF Record, People
<1>6. \A y \in NewRecords(p) : /\ Row(y).is = IF y[1] \in p.open THEN "open" ELSE "closed"
                               /\ Row(y).thing = ThingFor(p, ThingOf[y[1]])
                               /\ Row(y).person = PersonFor(p, WorkerOf[y[1]])
  OBVIOUS
<1> HIDE DEF Row
<1>7. RecordsAfter(p) \in [Rows(Records) \cup {<<Own, 1>>} -> Record]
  BY <1>1, <1>4, <1>5
<1>8. \A r \in p.records : \E y \in NewRecords(p) : y \in Rows({r})
  <2> TAKE r \in p.records
  <2>1. Unused(r, UsedRecords) \in NewRecords(p) /\ Unused(r, UsedRecords)[1] = r
    BY <1>2 DEF NewRecords
  <2> QED
    BY <1>3, <2>1, RowIn
<1> QED
  BY <1>1, <1>3, <1>4, <1>6, <1>7, <1>8

-----------------------------------------------------------------------------
(* What an import reads.                                                     *)

Sound == TypeOK /\ Constraints(thing, person, record)

\* The constraints let a query for a code find the one active row that has it.
LEMMA ThingFound ==
  ASSUME Sound, NEW d \in Things
  PROVE  /\ ThingRow(d) # None => /\ ThingRow(d) \in Rows(Things) /\ ThingRow(d)[1] = d
                                  /\ thing[ThingRow(d)] = "active"
         /\ \A x \in Rows(Things) : x[1] = d /\ thing[x] = "active" => ThingRow(d) = x
<1> DEFINE S == {x \in Rows({d}) : thing[x] = "active"}
<1>1. AtMostOne(S)
  BY DEF Sound, Constraints
<1>2. None \notin S
  BY NoneNoRow, RowsOf
<1>3. ThingRow(d) = TheRow(S)
  BY DEF ThingRow
<1>4. \A x \in S : x \in Rows(Things) /\ x[1] = d /\ thing[x] = "active"
  BY RowsOf
<1>5. \A x \in Rows(Things) : x[1] = d /\ thing[x] = "active" => x \in S
  BY RowIn
<1> HIDE DEF S
<1> QED
  BY <1>1, <1>2, <1>3, <1>4, <1>5, TheRowFound

\* ... a query for a name the one login row that is kept,
LEMMA LoginFound ==
  ASSUME Sound, NEW l \in Logins
  PROVE  /\ LoginRow(l) # None => /\ LoginRow(l) \in Rows(Logins) /\ LoginRow(l)[1] = l
                                  /\ person[LoginRow(l)].life \in Kept
         /\ \A x \in Rows(Logins) : x[1] = l /\ person[x].life \in Kept => LoginRow(l) = x
<1> DEFINE S == {x \in Rows({l}) : person[x].life \in Kept}
<1>1. AtMostOne(S)
  BY DEF Sound, Constraints
<1>2. None \notin S
  BY NoneNoRow, RowsOf
<1>3. LoginRow(l) = TheRow(S)
  BY DEF LoginRow
<1>4. \A x \in S : x \in Rows(Logins) /\ x[1] = l /\ person[x].life \in Kept
  BY RowsOf
<1>5. \A x \in Rows(Logins) : x[1] = l /\ person[x].life \in Kept => x \in S
  BY RowIn
<1> HIDE DEF S
<1> QED
  BY <1>1, <1>2, <1>3, <1>4, <1>5, TheRowFound

HasBadge(x, w) == person[x].life = "active" /\ person[x].badge = w

\* ... and a query for a badge the one row of a person that has it.
LEMMA BadgeFound ==
  ASSUME Sound, NEW w \in Badged
  PROVE  /\ BadgeRow(w) # None => BadgeRow(w) \in Rows(People) /\ HasBadge(BadgeRow(w), w)
         /\ \A x \in Rows(People) : HasBadge(x, w) => BadgeRow(w) = x
<1> DEFINE S == {x \in DOMAIN person : person[x] = [life |-> "active", badge |-> w]}
<1>1. AtMostOne(S)
  BY DEF Sound, Constraints
<1>2. /\ DOMAIN person = Rows(People)
      /\ \A x \in Rows(People) : person[x] \in [life : Life, badge : Badged \cup {Other}]
  BY DEF Sound, TypeOK, People
<1>3. \A x : x \in S <=> x \in Rows(People) /\ HasBadge(x, w)
  BY <1>2 DEF HasBadge
<1>4. None \notin S
  BY <1>3, NoneNoRow
<1>5. BadgeRow(w) = TheRow(S)
  BY DEF BadgeRow
<1> HIDE DEF S
<1> QED
  BY <1>1, <1>3, <1>4, <1>5, TheRowFound

\* What an import reads are rows of its documents.
LEMMA PlanIsOK ==
  ASSUME Inv, NEW kind \in {"cli", "web"}, NEW says \in [Tools -> OldStatus]
  PROVE  LET p == Plan(kind, says)
         IN  PlanOK(p) /\ p # Idle /\ p.kind = kind /\ p.says = says
<1> DEFINE p == Plan(kind, says)
<1>0. Sound
  BY DEF Inv, Sound
<1>1. p.kind = kind /\ p.says = says
  BY DEF Plan
<1>2. p.things = [d \in Things |-> ThingRow(d)]
  BY DEF Plan
<1>3. p.logins = [l \in Logins |-> IF kind = "cli" THEN LoginRow(l) ELSE None]
  BY DEF Plan
<1>4. p.workers = [w \in Workers |-> WorkerRow(w, kind)]
  BY DEF Plan
<1>5. p.linked = {w \in Workers : Linked(w, kind)}
  BY DEF Plan
<1>6. /\ p.records \subseteq source.known
      /\ p.open = p.records \cap source.open
      /\ p.lends \subseteq p.open
  BY DEF Plan
<1> HIDE DEF p
<1>7. \A d \in Things : /\ ThingRow(d) \in Rows(Things) \cup {None}
                        /\ ThingRow(d) # None => ThingRow(d)[1] = d
  BY <1>0, ThingFound
<1>8. \A l \in Logins : /\ LoginRow(l) \in Rows(Logins) \cup {None}
                        /\ LoginRow(l) # None => LoginRow(l)[1] = l
  BY <1>0, LoginFound
<1>9. ASSUME NEW w \in Workers PROVE WorkerRow(w, kind) \in Rows(People) \cup {None}
  <2>1. Rows(Logins) \subseteq Rows(People)
    BY DEF Rows, People
  <2>2. CASE Linked(w, kind)
    <3>1. LoginOf[w] \in Logins
      BY <2>2, ImportAssumption DEF Linked
    <3> QED
      BY <1>8, <2>1, <2>2, <3>1 DEF WorkerRow
  <2>3. CASE ~Linked(w, kind)
    BY <1>0, <2>3, BadgeFound DEF WorkerRow
  <2> QED
    BY <2>2, <2>3
<1>10. p.linked \subseteq {w \in Workers : LoginOf[w] # None} /\ (p.linked # {} => kind = "cli")
  BY <1>5 DEF Linked
<1>11. p.records \subseteq Records /\ p.open \subseteq {r \in p.records : ThingOf[r] \in Tools}
  BY <1>6 DEF Inv, TypeOK, OpenOK
<1>12. p # Idle
  BY <1>1 DEF Idle
<1>13. p.workers \in [Workers -> Rows(People) \cup {None}]
  BY <1>4, <1>9
<1>14. /\ p.things \in [Things -> Rows(Things) \cup {None}]
       /\ \A d \in Things : p.things[d] # None => p.things[d][1] = d
  BY <1>2, <1>7
<1>15. /\ p.logins \in [Logins -> Rows(Logins) \cup {None}]
       /\ \A l \in Logins : p.logins[l] # None => p.logins[l][1] = l
  BY <1>3, <1>8
<1> QED
  BY <1>1, <1>6, <1>10, <1>11, <1>12, <1>13, <1>14, <1>15 DEF PlanOK, p

-----------------------------------------------------------------------------
(* The tables stay in order, however imports, the application and the old    *)
(* system interleave.                                                        *)

PlansOK == \A i \in Imports : import[i] # Idle => PlanOK(import[i])

\* Empty tables are well-formed.
LEMMA InvInit == Init => Inv
<1> SUFFICES ASSUME Init PROVE Inv
  OBVIOUS
<1>1. TypeOK
  <2>1. NoRecord \in Record
    BY DEF NoRecord, Record
  <2>2. \A y \in DOMAIN record : record[y] = NoRecord
    BY DEF Init
  <2>3. NoRecord.thing = None /\ NoRecord.person = None
    BY DEF NoRecord
  <2> QED
    BY <2>1, <2>2, <2>3 DEF Init, TypeOK, Life, Status
<1>2. Constraints(thing, person, record)
  <2>1. \A y \in DOMAIN record : record[y] = NoRecord
    BY DEF Init
  <2>2. NoRecord.thing = None /\ NoRecord.person = None /\ NoRecord.is = "absent"
    BY DEF NoRecord
  <2>3. \A d \in Things : \A x \in Rows({d}) : thing[x] # "active"
    BY RowsOf DEF Init
  <2>4. \A x \in Rows(People) : person[x] = [life |-> "absent", badge |-> Other]
    BY DEF Init, People
  <2>5. DOMAIN person = Rows(People)
    BY DEF Init, People
  <2>6. \A d \in Badged \cup Logins : \A x \in Rows({d}) : person[x].life \notin Kept
    <3>1. Badged \cup Logins \subseteq People
      BY ImportAssumption DEF People
    <3>2. \A d \in Badged \cup Logins : \A x \in Rows({d}) : x \in Rows(People)
      BY <3>1, RowsOf
    <3>3. \A x \in Rows(People) : person[x].life = "absent"
      BY <2>4
    <3> QED
      BY <3>2, <3>3 DEF Kept
  <2>7. ASSUME NEW w \in Badged, NEW x \in DOMAIN person
        PROVE  person[x] # [life |-> "active", badge |-> w]
    <3>1. person[x].life = "absent"
      BY <2>4, <2>5
    <3>2. [life |-> "active", badge |-> w].life = "active"
      OBVIOUS
    <3> QED
      BY <3>1, <3>2
  <2> QED
    <3>1. \A d \in Things : AtMostOne({x \in Rows({d}) : thing[x] = "active"})
      BY <2>3 DEF AtMostOne
    <3>2. \A d \in Badged \cup Logins : AtMostOne({x \in Rows({d}) : person[x].life \in Kept})
      BY <2>6 DEF AtMostOne
    <3>3. \A w \in Badged :
            AtMostOne({x \in DOMAIN person : person[x] = [life |-> "active", badge |-> w]})
      BY <2>7 DEF AtMostOne
    <3>4. \A x \in Rows(Tools) :
            AtMostOne({y \in DOMAIN record : record[y].is = "open" /\ record[y].thing = x})
      BY <2>1, <2>2 DEF AtMostOne
    <3> QED
      BY <2>1, <2>2, <3>1, <3>2, <3>3, <3>4 DEF Constraints
<1>3. BadgesOK
  BY DEF Init, BadgesOK, BadgesOf, People
<1>4. OpenOK
  BY DEF Init, OpenOK, NoRecord
<1> QED
  BY <1>1, <1>2, <1>3, <1>4 DEF Inv, Init

\* Whatever was read, the commit writes rows of the documents, under the constraints.
LEMMA CommitInv ==
  ASSUME Inv, NEW i \in Imports, ImportCommit(i)
  PROVE  Inv'
<1> DEFINE p == import[i]
<1>1. TypeOK /\ PlanOK(p) /\ Room(p) /\ Admits(p) /\ BadgesOK /\ OpenOK
  BY DEF Inv, ImportCommit
<1>2. /\ thing' = ThingsAfter(p) /\ status' = StatusAfter(p) /\ person' = PersonsAfter(p)
      /\ record' = RecordsAfter(p) /\ source' = source /\ disposals' = disposals
      /\ import' = [import EXCEPT ![i] = Idle]
  BY DEF ImportCommit
<1> HIDE DEF p
<1>3. Constraints(thing', person', record')
  BY <1>1, <1>2 DEF Admits
<1>4. thing' \in [Rows(Things) -> Life]
  BY <1>1, <1>2, ThingsWritten
<1>5. status' \in [Rows(Tools) -> Status]
  <2>1. \A x \in Rows(Tools) : x[1] \in Tools
    BY RowIn
  <2>2. \A x \in Rows(Tools) : p.says[x[1]] \in Status
    BY <1>1, <2>1 DEF PlanOK, OldStatus, Status
  <2> QED
    BY <1>1, <1>2, <2>2 DEF StatusAfter, TypeOK, Status
<1>6. person' \in [Rows(People) -> [life : Life, badge : Badged \cup {Other}]]
  BY <1>1, <1>2, PersonsWritten
<1>7. record' \in [Rows(Records) \cup {<<Own, 1>>} -> Record]
  BY <1>1, <1>2, RecordsWritten
<1>8. TypeOK'
  BY <1>1, <1>2, <1>3, <1>4, <1>5, <1>6, <1>7 DEF TypeOK, Constraints, People
<1>9. BadgesOK'
  <2> SUFFICES ASSUME NEW x \in Rows(People) PROVE person'[x].badge \in BadgesOf(x[1])
    BY DEF BadgesOK
  <2>1. CASE \E w \in p.linked : PersonFor(p, w) = x
    <3>1. PICK w \in p.linked : PersonFor(p, w) = x
      BY <2>1
    <3>2. w \in Workers /\ LoginOf[w] \in Logins /\ x[1] = LoginOf[w]
      BY <1>1, <3>1, PersonWritten DEF PlanOK
    <3>3. person'[x].badge = BadgeOn(w)
      BY <1>1, <1>2, <3>1, PersonsWritten
    <3> QED
      BY <3>2, <3>3 DEF BadgeOn, BadgesOf
  <2>2. CASE \A w \in p.linked : PersonFor(p, w) # x
    <3>1. person'[x].badge = IF x \in NewPersons(p) THEN BadgeOn(x[1]) ELSE person[x].badge
      BY <1>1, <1>2, <2>2, PersonsWritten
    <3>2. BadgeOn(x[1]) \in BadgesOf(x[1])
      BY ImportAssumption, CollectionsAssumption DEF BadgesOf, BadgeOn
    <3> QED
      BY <1>1, <3>1, <3>2 DEF BadgesOK
  <2> QED
    BY <2>1, <2>2
<1>10. OpenOK'
  <2> SUFFICES ASSUME NEW y \in DOMAIN record', record'[y].is = "open"
               PROVE  record'[y].thing \in Rows(Tools)
    BY <1>1, <1>2 DEF OpenOK
  <2>0. DOMAIN record' = DOMAIN record
    BY <1>1, <1>7 DEF TypeOK
  <2>1. CASE y \in NewRecords(p)
    <3>1. y[1] \in p.open /\ record'[y].thing = ThingFor(p, ThingOf[y[1]])
      BY <1>1, <1>2, <2>1, RecordsWritten
    <3> DEFINE d == ThingOf[y[1]]
    <3>2. d \in Tools /\ d \in Things
      BY <1>1, <3>1 DEF PlanOK, Things
    <3>3. record'[y].thing \in Rows(Things) /\ record'[y].thing[1] \in Tools
      <4> HIDE DEF d
      <4>1. ThingFor(p, d) \in Rows(Things) /\ ThingFor(p, d)[1] = d
        BY <1>1, <3>2, ThingsWritten
      <4> QED
        BY <3>1, <3>2, <4>1 DEF d
    <3>4. record'[y].thing \in Rows({record'[y].thing[1]})
      BY <3>3, RowIn
    <3> QED
      BY <3>3, <3>4, RowOf
  <2>2. CASE y \notin NewRecords(p)
    BY <1>1, <1>2, <2>0, <2>2, RecordsWritten DEF OpenOK
  <2> QED
    BY <2>1, <2>2
<1>11. PlansOK'
  BY <1>2 DEF Inv, PlansOK
<1> QED
  BY <1>3, <1>8, <1>9, <1>10, <1>11 DEF Inv, PlansOK

\* Reading keeps the tables.
LEMMA ReadInv ==
  ASSUME Inv, NEW i \in Imports, NEW kind \in {"cli", "web"}, NEW says \in [Tools -> OldStatus],
         ImportRead(i, kind, says)
  PROVE  Inv'
<1>1. PlansOK'
  BY PlanIsOK DEF Inv, PlansOK, ImportRead
<1> QED
  BY <1>1 DEF Inv, PlansOK, ImportRead, TypeOK, BadgesOK, OpenOK, db

\* So does a roll-back.
LEMMA RollBackInv ==
  ASSUME Inv, NEW i \in Imports, ImportRollsBack(i)
  PROVE  Inv'
<1>1. PlansOK'
  BY DEF Inv, PlansOK, ImportRollsBack
<1> QED
  BY <1>1 DEF Inv, PlansOK, ImportRollsBack, TypeOK, BadgesOK, OpenOK, db

-----------------------------------------------------------------------------
(* The constraints row by row, for the steps of the application.             *)

CodesApart(t) ==
  \A x, y \in Rows(Things) : x[1] = y[1] /\ t[x] = "active" /\ t[y] = "active" => x = y

NamesApart(q) ==
  \A x, y \in Rows(People) :
    x[1] \in Badged \cup Logins /\ x[1] = y[1] /\ q[x].life \in Kept /\ q[y].life \in Kept
      => x = y

BadgesApart(q) ==
  \A x, y \in Rows(People) :
    q[x].badge \in Badged /\ q[x].badge = q[y].badge /\ q[x].life = "active" /\ q[y].life = "active"
      => x = y

LentOnce(s) ==
  \A x, y \in DOMAIN s :
    s[x].is = "open" /\ s[y].is = "open" /\ s[x].thing \in Rows(Tools) /\ s[x].thing = s[y].thing
      => x = y

Referenced(t, q, s) ==
  \A y \in DOMAIN s : /\ s[y].thing # None => t[s[y].thing] \in Kept
                      /\ s[y].person # None => q[s[y].person].life \in Kept

\* The constraints of the schema, row by row.
LEMMA RowByRow ==
  ASSUME NEW t, NEW q \in [Rows(People) -> [life : Life, badge : Badged \cup {Other}]], NEW s
  PROVE  Constraints(t, q, s) <=> /\ CodesApart(t) /\ NamesApart(q) /\ BadgesApart(q)
                                  /\ LentOnce(s) /\ Referenced(t, q, s)
<1>1. (\A d \in Things : AtMostOne({x \in Rows({d}) : t[x] = "active"})) <=> CodesApart(t)
  <2>1. ASSUME \A d \in Things : AtMostOne({x \in Rows({d}) : t[x] = "active"}),
               NEW x \in Rows(Things), NEW y \in Rows(Things),
               x[1] = y[1], t[x] = "active", t[y] = "active"
        PROVE  x = y
    <3>1. x[1] \in Things /\ x \in Rows({x[1]}) /\ y \in Rows({x[1]})
      BY <2>1, RowIn
    <3> QED
      BY <2>1, <3>1 DEF AtMostOne
  <2>2. ASSUME CodesApart(t), NEW d \in Things
        PROVE  AtMostOne({x \in Rows({d}) : t[x] = "active"})
    <3>1. \A x \in Rows({d}) : x \in Rows(Things) /\ x[1] = d
      BY RowsOf
    <3> QED
      BY <2>2, <3>1 DEF CodesApart, AtMostOne
  <2> QED
    BY <2>1, <2>2 DEF CodesApart
<1> DEFINE Named(d) == {x \in Rows({d}) : q[x].life \in Kept}
           Has(w)   == {x \in DOMAIN q : q[x] = [life |-> "active", badge |-> w]}
           Lent(x)  == {y \in DOMAIN s : s[y].is = "open" /\ s[y].thing = x}
<1>2. (\A d \in Badged \cup Logins : AtMostOne(Named(d))) <=> NamesApart(q)
  <2>1. ASSUME NEW x, NEW d \in Badged \cup Logins
        PROVE  x \in Named(d) <=> x \in Rows(People) /\ x[1] = d /\ q[x].life \in Kept
    <3>1. d \in People
      BY ImportAssumption DEF People
    <3> QED
      BY <3>1, RowsOf, RowIn
  <2> HIDE DEF Named
  <2>2. ASSUME \A d \in Badged \cup Logins : AtMostOne(Named(d)) PROVE NamesApart(q)
    <3> SUFFICES ASSUME NEW x \in Rows(People), NEW y \in Rows(People),
                        x[1] \in Badged \cup Logins, x[1] = y[1],
                        q[x].life \in Kept, q[y].life \in Kept
                 PROVE  x = y
      BY DEF NamesApart
    <3>1. AtMostOne(Named(x[1])) /\ x \in Named(x[1]) /\ y \in Named(x[1])
      BY <2>1, <2>2
    <3> QED
      BY <3>1 DEF AtMostOne
  <2>3. ASSUME NamesApart(q), NEW d \in Badged \cup Logins PROVE AtMostOne(Named(d))
    BY <2>1, <2>3 DEF NamesApart, AtMostOne
  <2> QED
    BY <2>2, <2>3
<1>3. (\A w \in Badged : AtMostOne(Has(w))) <=> BadgesApart(q)
  <2>1. ASSUME NEW x, NEW w
        PROVE  x \in Has(w) <=> x \in Rows(People) /\ q[x].life = "active" /\ q[x].badge = w
    <3>1. x \in Rows(People) => q[x] \in [life : Life, badge : Badged \cup {Other}]
      OBVIOUS
    <3> QED
      BY <3>1
  <2> HIDE DEF Has
  <2>2. ASSUME \A w \in Badged : AtMostOne(Has(w)) PROVE BadgesApart(q)
    <3> SUFFICES ASSUME NEW x \in Rows(People), NEW y \in Rows(People),
                        q[x].badge \in Badged, q[x].badge = q[y].badge,
                        q[x].life = "active", q[y].life = "active"
                 PROVE  x = y
      BY DEF BadgesApart
    <3>1. AtMostOne(Has(q[x].badge)) /\ x \in Has(q[x].badge) /\ y \in Has(q[x].badge)
      BY <2>1, <2>2
    <3> QED
      BY <3>1 DEF AtMostOne
  <2>3. ASSUME BadgesApart(q), NEW w \in Badged PROVE AtMostOne(Has(w))
    BY <2>1, <2>3 DEF BadgesApart, AtMostOne
  <2> QED
    BY <2>2, <2>3
<1>4. (\A x \in Rows(Tools) : AtMostOne(Lent(x))) <=> LentOnce(s)
  <2>1. \A x, y : y \in Lent(x) <=> y \in DOMAIN s /\ s[y].is = "open" /\ s[y].thing = x
    OBVIOUS
  <2> HIDE DEF Lent
  <2>2. ASSUME \A x \in Rows(Tools) : AtMostOne(Lent(x)) PROVE LentOnce(s)
    <3> SUFFICES ASSUME NEW x \in DOMAIN s, NEW y \in DOMAIN s, s[x].is = "open", s[y].is = "open",
                        s[x].thing \in Rows(Tools), s[x].thing = s[y].thing
                 PROVE  x = y
      BY DEF LentOnce
    <3>1. AtMostOne(Lent(s[x].thing)) /\ x \in Lent(s[x].thing) /\ y \in Lent(s[x].thing)
      BY <2>1, <2>2
    <3> QED
      BY <3>1 DEF AtMostOne
  <2>3. ASSUME LentOnce(s), NEW x \in Rows(Tools) PROVE AtMostOne(Lent(x))
    BY <2>1, <2>3 DEF LentOnce, AtMostOne
  <2> QED
    BY <2>2, <2>3
<1> QED
  BY <1>1, <1>2, <1>3, <1>4 DEF Constraints, Referenced

Apart == /\ CodesApart(thing) /\ NamesApart(person) /\ BadgesApart(person) /\ LentOnce(record)

\* They hold of the tables when they hold row by row.
LEMMA SoundIsApart == TypeOK => (Constraints(thing, person, record) <=> Apart)
<1> SUFFICES ASSUME TypeOK PROVE Constraints(thing, person, record) <=> Apart
  OBVIOUS
<1>1. person \in [Rows(People) -> [life : Life, badge : Badged \cup {Other}]]
  BY DEF TypeOK, People
<1>2. Referenced(thing, person, record)
  BY DEF TypeOK, Referenced
<1>3. Constraints(thing, person, record)
        <=> CodesApart(thing) /\ NamesApart(person) /\ BadgesApart(person)
              /\ LentOnce(record) /\ Referenced(thing, person, record)
  BY <1>1, RowByRow
<1> QED
  BY <1>2, <1>3 DEF Apart

\* The parts that a step of the application has to keep.
LEMMA InvByParts ==
  ASSUME Inv, TypeOK', Apart', BadgesOK', OpenOK', UNCHANGED import
  PROVE  Inv'
<1>1. (TypeOK => (Constraints(thing, person, record) <=> Apart))'
  BY SoundIsApart, PTL
<1>2. Constraints(thing, person, record)'
  BY <1>1
<1>3. PlansOK'
  BY DEF PlansOK, Inv
<1> QED
  BY <1>2, <1>3 DEF Inv, PlansOK

\* The parts of the invariant.
LEMMA InvIsParts == ASSUME Inv PROVE TypeOK /\ Apart /\ BadgesOK /\ OpenOK /\ Sound
BY SoundIsApart DEF Inv, Sound

\* Lending a tool: it is not lent yet, and both rows are active.
LEMMA LendInv ==
  ASSUME Inv, NEW x \in Rows(Tools), NEW q \in DOMAIN person, Lend(x, q)
  PROVE  Inv'
<1> DEFINE y == <<Own, 1>>
           new == [is |-> "open", thing |-> x, person |-> q]
<1>1. TypeOK /\ Apart /\ BadgesOK /\ OpenOK
  BY InvIsParts
<1>2. /\ record' = [record EXCEPT ![y] = new]
      /\ status' = [status EXCEPT ![x] = "ausgeliehen"]
      /\ UNCHANGED <<thing, person, source, import, disposals>>
      /\ thing[x] = "active" /\ person[q].life = "active" /\ ~OpenOn(x)
  BY DEF Lend
<1>3. new \in Record /\ new.is = "open" /\ new.thing = x /\ new.person = q
  <2>1. x \in Rows(Things)
    BY DEF Rows, Things
  <2>2. q \in Rows(People)
    BY <1>1 DEF TypeOK, People
  <2> QED
    BY <2>1, <2>2 DEF Record, People
<1> HIDE DEF new
<1>4. /\ y \in DOMAIN record /\ record'[y] = new /\ DOMAIN record' = DOMAIN record
      /\ \A z \in DOMAIN record : z # y => record'[z] = record[z]
  BY <1>1, <1>2 DEF TypeOK
<1>5. TypeOK'
  <2>1. record' \in [Rows(Records) \cup {y} -> Record]
    BY <1>1, <1>2, <1>3 DEF TypeOK
  <2>2. ASSUME NEW z \in DOMAIN record'
        PROVE  /\ record'[z].thing # None => thing[record'[z].thing] \in Kept
               /\ record'[z].person # None => person[record'[z].person].life \in Kept
    BY <1>1, <1>2, <1>3, <1>4 DEF TypeOK, Kept
  <2>3. status' \in [Rows(Tools) -> Status]
    BY <1>1, <1>2 DEF TypeOK, Status
  <2> HIDE DEF y
  <2> QED
    BY <1>1, <1>2, <2>1, <2>2, <2>3 DEF TypeOK, y
<1>6. Apart'
  <2>1. LentOnce(record')
    BY <1>1, <1>2, <1>3, <1>4 DEF Apart, LentOnce, OpenOn
  <2> QED
    BY <1>1, <1>2, <2>1 DEF Apart
<1>7. BadgesOK'
  BY <1>1, <1>2 DEF BadgesOK
<1>8. OpenOK'
  BY <1>1, <1>2, <1>3, <1>4 DEF OpenOK
<1> QED
  BY <1>2, <1>5, <1>6, <1>7, <1>8, InvByParts

\* The form of an item.
LEMMA EditStatusInv ==
  ASSUME Inv, NEW x \in Rows(Tools), NEW s \in Status, EditStatus(x, s)
  PROVE  Inv'
<1>1. /\ UNCHANGED <<thing, person, record, source, import, disposals>>
      /\ status' = [status EXCEPT ![x] = s]
  BY DEF EditStatus
<1> QED
  BY <1>1 DEF Inv, TypeOK, BadgesOK, OpenOK

\* Returning it.
LEMMA ReturnInv ==
  ASSUME Inv, NEW y \in DOMAIN record, Return(y)
  PROVE  Inv'
<1>1. TypeOK /\ Apart /\ BadgesOK /\ OpenOK
  BY InvIsParts
<1>2. /\ record' = [record EXCEPT ![y].is = "closed"]
      /\ status' = [status EXCEPT ![record[y].thing] = "verfuegbar"]
      /\ UNCHANGED <<thing, person, source, import, disposals>>
  BY DEF Return
<1>3. record \in [Rows(Records) \cup {<<Own, 1>>} -> Record]
  BY <1>1 DEF TypeOK
<1>4. /\ DOMAIN record' = DOMAIN record
      /\ record'[y].is = "closed"
      /\ \A z \in DOMAIN record : /\ record'[z] \in Record
                                  /\ record'[z].thing = record[z].thing
                                  /\ record'[z].person = record[z].person
                                  /\ z # y => record'[z] = record[z]
  <2> DEFINE new == [record[y] EXCEPT !.is = "closed"]
  <2>1. /\ new \in Record /\ new.is = "closed"
        /\ new.thing = record[y].thing /\ new.person = record[y].person
    BY <1>3 DEF Record
  <2>2. record' = [record EXCEPT ![y] = new]
    BY <1>2
  <2> HIDE DEF new
  <2> QED
    BY <1>3, <2>1, <2>2
<1>5. TypeOK'
  <2>1. record' \in [Rows(Records) \cup {<<Own, 1>>} -> Record]
    BY <1>2, <1>3, <1>4
  <2>2. status' \in [Rows(Tools) -> Status]
    BY <1>1, <1>2 DEF TypeOK, Status
  <2>3. \A z \in DOMAIN record' :
          /\ record'[z].thing # None => thing'[record'[z].thing] \in Kept
          /\ record'[z].person # None => person'[record'[z].person].life \in Kept
    <3>1. \A z \in DOMAIN record :
            /\ record[z].thing # None => thing[record[z].thing] \in Kept
            /\ record[z].person # None => person[record[z].person].life \in Kept
      BY <1>1 DEF TypeOK
    <3>2. thing' = thing /\ person' = person
      BY <1>2
    <3> QED
      BY <1>4, <3>1, <3>2
  <2> QED
    BY <1>1, <1>2, <2>1, <2>2, <2>3 DEF TypeOK
<1>6. Apart'
  <2>1. LentOnce(record')
    BY <1>1, <1>4 DEF Apart, LentOnce
  <2> QED
    BY <1>1, <1>2, <2>1 DEF Apart
<1>7. BadgesOK'
  BY <1>1, <1>2 DEF BadgesOK
<1>8. OpenOK'
  BY <1>1, <1>2, <1>4 DEF OpenOK
<1> QED
  BY <1>2, <1>5, <1>6, <1>7, <1>8, InvByParts

\* A thing in the trash comes back: no other has its code.
LEMMA ThingStepInv ==
  ASSUME Inv, NEW x \in Rows(Things), TrashThing(x) \/ RestoreThing(x)
  PROVE  Inv'
<1>1. TypeOK /\ Apart /\ BadgesOK /\ OpenOK /\ Sound
  BY InvIsParts
<1>2. /\ UNCHANGED <<status, person, record, source, import>>
      /\ disposals' \in Nat
      /\ thing[x] \in Kept
  BY <1>1 DEF TrashThing, RestoreThing, Elsewhere, Dispose, Kept, TypeOK
<1>3. PICK v \in Kept : thing' = [thing EXCEPT ![x] = v]
  BY DEF TrashThing, RestoreThing, Kept
<1>4. /\ thing' \in [Rows(Things) -> Life]
      /\ thing'[x] = v
      /\ \A z \in Rows(Things) : z # x => thing'[z] = thing[z]
  BY <1>1, <1>3 DEF TypeOK, Kept, Life
<1>5. TypeOK'
  <2>1. \A z \in Rows(Things) : thing[z] \in Kept => thing'[z] \in Kept
    BY <1>3, <1>4
  <2>2. ASSUME NEW z \in DOMAIN record, record[z].thing # None
        PROVE  thing'[record[z].thing] \in Kept
    <3>1. record[z].thing \in Rows(Things)
      BY <1>1, <2>2 DEF TypeOK, Record
    <3> QED
      BY <1>1, <2>1, <2>2, <3>1 DEF TypeOK
  <2> QED
    BY <1>1, <1>2, <1>4, <2>2 DEF TypeOK
<1>6. CodesApart(thing')
  <2>1. CASE TrashThing(x)
    <3>1. thing'[x] # "active"
      BY <1>1, <2>1 DEF TrashThing, TypeOK
    <3> QED
      BY <1>1, <1>4, <3>1 DEF Apart, CodesApart
  <2>2. CASE RestoreThing(x)
    <3>1. x[1] \in Things /\ ThingRow(x[1]) = None
      BY <2>2, RowIn DEF RestoreThing
    <3>2. \A z \in Rows(Things) : z[1] = x[1] => thing[z] # "active"
      BY <1>1, <3>1, ThingFound, NoneNoRow
    <3> QED
      BY <1>1, <1>4, <3>2 DEF Apart, CodesApart
  <2> QED
    BY <2>1, <2>2
<1>7. Apart' /\ BadgesOK' /\ OpenOK'
  BY <1>1, <1>2, <1>6 DEF Apart, BadgesOK, OpenOK
<1> QED
  BY <1>2, <1>5, <1>7, InvByParts

\* A purge of a thing NULLs what points to it.
LEMMA PurgeThingInv ==
  ASSUME Inv, NEW x \in Rows(Things), PurgeThing(x)
  PROVE  Inv'
<1> DEFINE New(y) == IF record[y].thing = x THEN [record[y] EXCEPT !.thing = None] ELSE record[y]
<1>1. TypeOK /\ Apart /\ BadgesOK /\ OpenOK
  BY InvIsParts
<1>2. /\ UNCHANGED <<status, person, source, import, disposals>>
      /\ thing' = [thing EXCEPT ![x] = "purged"]
      /\ record' = [y \in DOMAIN record |-> New(y)]
      /\ ~OpenOn(x)
  BY DEF PurgeThing, Elsewhere
<1>3. record \in [Rows(Records) \cup {<<Own, 1>>} -> Record]
  BY <1>1 DEF TypeOK
<1>4. ASSUME NEW y \in DOMAIN record
      PROVE  /\ New(y) \in Record /\ New(y).is = record[y].is /\ New(y).person = record[y].person
             /\ record[y].thing # x => New(y) = record[y]
             /\ record[y].thing = x => New(y).thing = None /\ record[y].is # "open"
  BY <1>2, <1>3 DEF Record, OpenOn
<1> HIDE DEF New
<1>5. /\ thing' \in [Rows(Things) -> Life]
      /\ \A z \in Rows(Things) : z # x => thing'[z] = thing[z]
  BY <1>1, <1>2 DEF TypeOK, Life
<1>6. /\ record' \in [Rows(Records) \cup {<<Own, 1>>} -> Record]
      /\ DOMAIN record' = DOMAIN record
      /\ \A y \in DOMAIN record : record'[y] = New(y)
  BY <1>2, <1>3, <1>4
<1>7. TypeOK'
  <2>1. ASSUME NEW y \in DOMAIN record, record'[y].thing # None
        PROVE  thing'[record'[y].thing] \in Kept
    <3>1. record[y].thing # x /\ record'[y] = record[y]
      BY <1>4, <1>6, <2>1
    <3>2. record[y].thing \in Rows(Things)
      BY <1>3, <2>1, <3>1 DEF Record
    <3> QED
      BY <1>1, <1>5, <2>1, <3>1, <3>2 DEF TypeOK
  <2>2. ASSUME NEW y \in DOMAIN record, record'[y].person # None
        PROVE  person'[record'[y].person].life \in Kept
    BY <1>1, <1>2, <1>4, <1>6, <2>2 DEF TypeOK
  <2> QED
    BY <1>1, <1>2, <1>5, <1>6, <2>1, <2>2 DEF TypeOK
<1>8. CodesApart(thing')
  <2>1. thing'[x] = "purged"
    BY <1>1, <1>2 DEF TypeOK
  <2> QED
    BY <1>1, <1>5, <2>1 DEF Apart, CodesApart
<1>9. LentOnce(record') /\ OpenOK'
  <2>1. \A y \in DOMAIN record : record'[y].is = "open" => record[y].is = "open" /\ record'[y] = record[y]
    BY <1>4, <1>6
  <2> QED
    BY <1>1, <1>2, <1>6, <2>1 DEF Apart, LentOnce, OpenOK
<1>10. Apart' /\ BadgesOK'
  BY <1>1, <1>2, <1>8, <1>9 DEF Apart, BadgesOK
<1> QED
  BY <1>2, <1>7, <1>9, <1>10, InvByParts

\* A person in the trash comes back: no other has the badge.  The name of the
\* row is still theirs.
LEMMA PersonStepInv ==
  ASSUME Inv, NEW q \in DOMAIN person, TrashPerson(q) \/ RestorePerson(q) \/ Rebadge(q)
  PROVE  Inv'
<1>1. TypeOK /\ Apart /\ BadgesOK /\ OpenOK /\ Sound
  BY InvIsParts
<1>2. /\ UNCHANGED <<thing, status, record, source, import>>
      /\ disposals' \in Nat
      /\ person[q].life \in Kept
  BY <1>1 DEF TrashPerson, RestorePerson, Rebadge, Elsewhere, Dispose, Kept, TypeOK
<1>3. person \in [Rows(People) -> [life : Life, badge : Badged \cup {Other}]]
  BY <1>1 DEF TypeOK, People
<1>4. PICK new \in [life : Kept, badge : {person[q].badge, Other}] :
        /\ person' = [person EXCEPT ![q] = new]
        /\ ~RestorePerson(q) => new.life # "active" \/ new.badge = Other
        /\ RestorePerson(q) => new.badge = person[q].badge
  <2>1. CASE TrashPerson(q)
    <3> DEFINE new == [person[q] EXCEPT !.life = "trash"]
    <3>1. new \in [life : Kept, badge : {person[q].badge, Other}] /\ new.life = "trash"
      BY <1>3 DEF Kept
    <3>2. person' = [person EXCEPT ![q] = new] /\ ~RestorePerson(q)
      BY <2>1 DEF TrashPerson, RestorePerson
    <3> HIDE DEF new
    <3> QED
      BY <3>1, <3>2
  <2>2. CASE RestorePerson(q)
    <3> DEFINE new == [person[q] EXCEPT !.life = "active"]
    <3>1. new \in [life : Kept, badge : {person[q].badge, Other}] /\ new.badge = person[q].badge
      BY <1>3 DEF Kept
    <3>2. person' = [person EXCEPT ![q] = new]
      BY <2>2 DEF RestorePerson
    <3> HIDE DEF new
    <3> QED
      BY <2>2, <3>1, <3>2
  <2>3. CASE Rebadge(q)
    <3> DEFINE new == [person[q] EXCEPT !.badge = Other]
    <3>1. new \in [life : Kept, badge : {person[q].badge, Other}] /\ new.badge = Other
      BY <1>2, <1>3
    <3>2. person' = [person EXCEPT ![q] = new] /\ ~RestorePerson(q)
      BY <2>3 DEF Rebadge, RestorePerson
    <3> HIDE DEF new
    <3> QED
      BY <3>1, <3>2
  <2> QED
    BY <2>1, <2>2, <2>3
<1>5. /\ person'[q] = new
      /\ DOMAIN person' = DOMAIN person
      /\ \A z \in Rows(People) : z # q => person'[z] = person[z]
      /\ q \in Rows(People)
  BY <1>3, <1>4
<1>6. new \in [life : Life, badge : Badged \cup {Other}]
  BY <1>3, <1>4, <1>5 DEF Life, Kept
<1>7. person' \in [Rows(People) -> [life : Life, badge : Badged \cup {Other}]]
  BY <1>3, <1>4, <1>6
<1>8. TypeOK'
  <2>1. \A z \in Rows(People) : person[z].life \in Kept => person'[z].life \in Kept
    BY <1>4, <1>5
  <2>2. ASSUME NEW y \in DOMAIN record, record[y].person # None
        PROVE  person'[record[y].person].life \in Kept
    <3>1. record[y].person \in Rows(People)
      BY <1>1, <2>2 DEF TypeOK, Record, People
    <3> QED
      BY <1>1, <2>1, <2>2, <3>1 DEF TypeOK
  <2> QED
    BY <1>1, <1>2, <1>7, <2>2 DEF TypeOK, People
<1>9. NamesApart(person')
  <2>1. \A z \in Rows(People) : person'[z].life \in Kept => person[z].life \in Kept
    BY <1>2, <1>5
  <2> QED
    BY <1>1, <2>1 DEF Apart, NamesApart
<1>10. BadgesApart(person')
  <2>1. CASE RestorePerson(q)
    <3>1. ASSUME NEW z \in Rows(People), z # q, person[z].life = "active",
                 person[z].badge \in Badged, person[z].badge = new.badge
          PROVE  FALSE
      <4>1. new.badge = person[q].badge /\ person[q].badge \in Badged /\ person[q].badge # Other
        BY <1>4, <2>1, <3>1, OtherAssumption
      <4>2. BadgeRow(person[q].badge) = None
        BY <2>1, <4>1 DEF RestorePerson
      <4>3. HasBadge(z, person[q].badge)
        BY <3>1, <4>1 DEF HasBadge
      <4>4. BadgeRow(person[q].badge) = z
        BY <1>1, <4>1, <4>3, BadgeFound
      <4> QED
        BY <3>1, <4>2, <4>4, NoneNoRow
    <3> QED
      BY <1>1, <1>5, <3>1 DEF Apart, BadgesApart
  <2>2. CASE ~RestorePerson(q)
    <3>1. new.life # "active" \/ new.badge \notin Badged
      BY <1>4, <2>2, OtherAssumption
    <3> QED
      BY <1>1, <1>5, <3>1 DEF Apart, BadgesApart
  <2> QED
    BY <2>1, <2>2
<1>11. BadgesOK'
  <2>1. \A d : Other \in BadgesOf(d)
    BY DEF BadgesOf
  <2>2. person[q].badge \in BadgesOf(q[1])
    BY <1>1, <1>5 DEF BadgesOK
  <2> QED
    BY <1>1, <1>4, <1>5, <2>1, <2>2 DEF BadgesOK
<1>12. Apart' /\ OpenOK'
  BY <1>1, <1>2, <1>9, <1>10 DEF Apart, OpenOK
<1> QED
  BY <1>2, <1>8, <1>11, <1>12, InvByParts

\* A purge of a person NULLs what points to them.
LEMMA PurgePersonInv ==
  ASSUME Inv, NEW q \in DOMAIN person, PurgePerson(q)
  PROVE  Inv'
<1> DEFINE New(y) == IF record[y].person = q THEN [record[y] EXCEPT !.person = None] ELSE record[y]
           new    == [person[q] EXCEPT !.life = "purged"]
<1>1. TypeOK /\ Apart /\ BadgesOK /\ OpenOK
  BY InvIsParts
<1>2. /\ UNCHANGED <<thing, status, source, import, disposals>>
      /\ person' = [person EXCEPT ![q] = new]
      /\ record' = [y \in DOMAIN record |-> New(y)]
      /\ \A y \in DOMAIN record : record[y].is = "open" => record[y].person # q
  BY DEF PurgePerson, Elsewhere
<1>3. /\ record \in [Rows(Records) \cup {<<Own, 1>>} -> Record]
      /\ person \in [Rows(People) -> [life : Life, badge : Badged \cup {Other}]]
      /\ q \in Rows(People)
  BY <1>1 DEF TypeOK, People
<1>4. /\ new \in [life : Life, badge : Badged \cup {Other}]
      /\ new.life = "purged" /\ new.badge = person[q].badge
  BY <1>3 DEF Life
<1>5. ASSUME NEW y \in DOMAIN record
      PROVE  /\ New(y) \in Record /\ New(y).is = record[y].is /\ New(y).thing = record[y].thing
             /\ record[y].person # q => New(y) = record[y]
             /\ record[y].person = q => New(y).person = None /\ record[y].is # "open"
  <2>1. record[y] \in Record
    BY <1>3
  <2>2. CASE record[y].person = q
    <3>1. New(y) = [record[y] EXCEPT !.person = None]
      BY <2>2
    <3> HIDE DEF New
    <3> QED
      BY <1>2, <2>1, <2>2, <3>1 DEF Record
  <2>3. CASE record[y].person # q
    BY <2>1, <2>3
  <2> QED
    BY <2>2, <2>3
<1> HIDE DEF New, new
<1>6. /\ person' \in [Rows(People) -> [life : Life, badge : Badged \cup {Other}]]
      /\ person'[q].life = "purged"
      /\ \A z \in Rows(People) : /\ z # q => person'[z] = person[z]
                                 /\ person'[z].badge = person[z].badge
  BY <1>2, <1>3, <1>4
<1>7. /\ record' \in [Rows(Records) \cup {<<Own, 1>>} -> Record]
      /\ DOMAIN record' = DOMAIN record
      /\ \A y \in DOMAIN record : record'[y] = New(y)
  BY <1>2, <1>3, <1>5
<1>8. TypeOK'
  <2>1. ASSUME NEW y \in DOMAIN record, record'[y].person # None
        PROVE  person'[record'[y].person].life \in Kept
    <3>1. record[y].person # q /\ record'[y] = record[y]
      BY <1>5, <1>7, <2>1
    <3>2. record[y].person \in Rows(People)
      BY <1>3, <2>1, <3>1 DEF Record, People
    <3> QED
      BY <1>1, <1>6, <2>1, <3>1, <3>2 DEF TypeOK
  <2>2. ASSUME NEW y \in DOMAIN record, record'[y].thing # None
        PROVE  thing'[record'[y].thing] \in Kept
    BY <1>1, <1>2, <1>5, <1>7, <2>2 DEF TypeOK
  <2> QED
    BY <1>1, <1>2, <1>6, <1>7, <2>1, <2>2 DEF TypeOK, People
<1>9. NamesApart(person') /\ BadgesApart(person')
  <2>1. \A z \in Rows(People) :
          /\ person'[z].life \in Kept => person[z].life \in Kept
          /\ person'[z].life = "active" => person[z].life = "active"
          /\ person'[z].badge = person[z].badge
    BY <1>6 DEF Kept
  <2> QED
    BY <1>1, <2>1 DEF Apart, NamesApart, BadgesApart
<1>10. LentOnce(record') /\ OpenOK'
  <2>1. \A y \in DOMAIN record : record'[y].is = "open" => record[y].is = "open" /\ record'[y] = record[y]
    BY <1>5, <1>7
  <2> QED
    BY <1>1, <1>2, <1>7, <2>1 DEF Apart, LentOnce, OpenOK
<1>11. Apart' /\ BadgesOK'
  BY <1>1, <1>2, <1>6, <1>9, <1>10 DEF Apart, BadgesOK
<1> QED
  BY <1>2, <1>8, <1>10, <1>11, InvByParts

\* The old system goes on without the tables.
LEMMA SourceInv ==
  ASSUME Inv, NEW r \in Records, SourceGrows(r) \/ SourceReturns(r)
  PROVE  Inv'
<1>1. TypeOK /\ Apart /\ BadgesOK /\ OpenOK
  BY InvIsParts
<1>2. UNCHANGED <<thing, status, person, record, import, disposals>>
  BY DEF SourceGrows, SourceReturns, db
<1>3. /\ source' \in [known : SUBSET Records, open : SUBSET Records]
      /\ source'.open \subseteq source'.known
      /\ \A o \in source'.open : /\ ThingOf[o] \in Tools
                                 /\ o \in source.open \/ (o = r /\ SourceGrows(r))
  <2>1. CASE SourceGrows(r)
    <3> DEFINE known == source.known \cup {r}
               open  == source.open \cup ({r} \cap {o \in Records : ThingOf[o] \in Tools})
    <3>1. source' = [source EXCEPT !.known = known, !.open = open]
      BY <2>1 DEF SourceGrows
    <3>2. source' = [known |-> known, open |-> open]
      BY <1>1, <3>1 DEF TypeOK
    <3> QED
      BY <1>1, <2>1, <3>2 DEF TypeOK, OpenOK
  <2>2. CASE SourceReturns(r)
    <3>1. source' = [source EXCEPT !.open = source.open \ {r}]
      BY <2>2 DEF SourceReturns
    <3> QED
      BY <1>1, <2>2, <3>1 DEF TypeOK, OpenOK
  <2> QED
    BY <2>1, <2>2
<1>4. TypeOK' /\ Apart' /\ BadgesOK'
  BY <1>1, <1>2, <1>3 DEF TypeOK, Apart, BadgesOK
<1>5. OpenOK'
  <2>1. ASSUME NEW u \in source'.open, NEW o \in source'.open, ThingOf[u] = ThingOf[o]
        PROVE  u = o
    BY <1>1, <1>3, <2>1 DEF OpenOK, SourceGrows
  <2> QED
    BY <1>1, <1>2, <1>3, <2>1 DEF OpenOK
<1> QED
  BY <1>2, <1>4, <1>5, InvByParts

\* Every step keeps the invariant.
LEMMA InvStep == Inv /\ [HNext]_<<vars, crossed>> => Inv'
<1> SUFFICES ASSUME Inv, [HNext]_<<vars, crossed>> PROVE Inv'
  OBVIOUS
<1>1. CASE UNCHANGED <<vars, crossed>>
  BY <1>1 DEF vars, db, Inv, TypeOK, BadgesOK, OpenOK
<1>2. CASE Next
  <2>1. CASE \E i \in Imports : \/ \E kind \in {"cli", "web"}, says \in [Tools -> OldStatus] :
                                     ImportRead(i, kind, says)
                                \/ ImportCommit(i)
                                \/ ImportRollsBack(i)
    BY <2>1, ReadInv, CommitInv, RollBackInv
  <2>2. CASE Meanwhile
    BY <2>2, LendInv, EditStatusInv, ReturnInv, ThingStepInv, PurgeThingInv, PersonStepInv, PurgePersonInv,
       SourceInv DEF Meanwhile
  <2> QED
    BY <1>2, <2>1, <2>2 DEF Next
<1> QED
  BY <1>1, <1>2 DEF HNext

\* Whatever is stale when an import commits: the tables are well-formed, their
\* unique indexes and foreign keys hold, and an import in flight goes by rows of
\* its documents.
THEOREM TypeCorrect == HSpec => []Inv
<1>1. HInit => Inv
  BY InvInit DEF HInit
<1> QED
  BY <1>1, InvStep, PTL DEF HSpec

-----------------------------------------------------------------------------
(* Imports that nothing crosses.                                             *)

\* While nothing has crossed an import there is only one, and what it has read
\* is what it would read now.
Serial ==
  ~crossed => /\ \A i, j \in InFlight : i = j
              /\ \A i \in InFlight : import[i] = Plan(import[i].kind, import[i].says)

\* An import reads from the tables and the old system only.
LEMMA SamePlan ==
  ASSUME UNCHANGED <<db, source>>, NEW kind, NEW says
  PROVE  Plan(kind, says)' = Plan(kind, says)
<1>1. UNCHANGED <<thing, status, person, record, source>>
  BY DEF db
<1>2. \A d : ThingRow(d)' = ThingRow(d)
  BY <1>1 DEF ThingRow
<1>3. \A l : LoginRow(l)' = LoginRow(l)
  BY <1>1 DEF LoginRow
<1>4. \A w : BadgeRow(w)' = BadgeRow(w)
  BY <1>1 DEF BadgeRow
<1>5. \A w : Linked(w, kind)' = Linked(w, kind)
  BY <1>4 DEF Linked
<1>6. \A w : WorkerRow(w, kind)' = WorkerRow(w, kind)
  BY <1>3, <1>4, <1>5 DEF WorkerRow
<1>7. \A r : IsNew(r, kind)' = IsNew(r, kind)
  BY <1>1, <1>2, <1>6 DEF IsNew
<1> QED
  BY <1>1, <1>2, <1>3, <1>5, <1>6, <1>7 DEF Plan

\* A step that nothing crosses: it finds no import in flight, or it is the end
\* of the only one.
LEMMA UncrossedStep ==
  ASSUME Inv, Serial, HNext, ~crossed'
  PROVE  /\ ~crossed
         /\ \A i \in Imports, kind \in {"cli", "web"}, says \in [Tools -> OldStatus] :
              ImportRead(i, kind, says) => InFlight' = {i} /\ import'[i] = Plan(kind, says)
         /\ \A i \in Imports :
              ImportCommit(i) \/ ImportRollsBack(i) => InFlight = {i} /\ InFlight' = {}
         /\ Meanwhile => InFlight = {} /\ InFlight' = {}
<1>1. /\ ~crossed
      /\ InFlight # {} => ~(InFlight \subseteq InFlight')
  BY DEF HNext
<1>2. /\ DOMAIN import = Imports
      /\ \A i, j \in InFlight : i = j
  BY <1>1 DEF Inv, TypeOK, Serial
<1>3. ASSUME NEW i \in Imports, NEW kind \in {"cli", "web"}, NEW says \in [Tools -> OldStatus],
             ImportRead(i, kind, says)
      PROVE  InFlight' = {i} /\ import'[i] = Plan(kind, says)
  <2>1. import' = [import EXCEPT ![i] = Plan(kind, says)] /\ import[i] = Idle
    BY <1>3 DEF ImportRead
  <2>2. Plan(kind, says) # Idle
    BY PlanIsOK
  <2>3. InFlight' = InFlight \cup {i} /\ import'[i] = Plan(kind, says)
    BY <1>2, <2>1, <2>2 DEF InFlight
  <2> QED
    BY <1>1, <2>3
<1>4. ASSUME NEW i \in Imports, ImportCommit(i) \/ ImportRollsBack(i)
      PROVE  InFlight = {i} /\ InFlight' = {}
  <2>1. import' = [import EXCEPT ![i] = Idle] /\ i \in InFlight
    BY <1>4 DEF ImportCommit, ImportRollsBack, InFlight
  <2>2. InFlight' = InFlight \ {i}
    BY <1>2, <2>1 DEF InFlight
  <2> QED
    BY <1>2, <2>1, <2>2
<1>5. ASSUME Meanwhile PROVE InFlight = {} /\ InFlight' = {}
  <2>1. import' = import
    BY <1>5 DEF Meanwhile, Lend, EditStatus, Return, TrashThing, RestoreThing, PurgeThing, TrashPerson,
       RestorePerson, PurgePerson, Rebadge, SourceGrows, SourceReturns, Elsewhere
  <2>2. InFlight' = InFlight
    BY <2>1 DEF InFlight
  <2> QED
    BY <1>1, <2>2
<1> QED
  BY <1>1, <1>3, <1>4, <1>5

\* So an import that nothing crosses still has what it would read now.
LEMMA SerialStep ==
  ASSUME Inv, Serial, [HNext]_<<vars, crossed>>
  PROVE  Serial'
<1> SUFFICES ASSUME ~crossed'
             PROVE  /\ \A i, j \in InFlight' : i = j
                    /\ \A i \in InFlight' : import'[i] = Plan(import[i].kind, import[i].says)'
  BY DEF Serial
<1>1. CASE UNCHANGED <<vars, crossed>>
  <2>1. UNCHANGED <<db, source>> /\ import' = import /\ crossed' = crossed
    BY <1>1 DEF vars
  <2>2. InFlight' = InFlight
    BY <2>1 DEF InFlight
  <2>3. ASSUME NEW i \in InFlight
        PROVE  Plan(import[i].kind, import[i].says)' = Plan(import[i].kind, import[i].says)
    <3> DEFINE kind == import[i].kind
               says == import[i].says
    <3>1. kind' = kind /\ says' = says
      BY <2>1
    <3> QED
      BY <2>1, <3>1, SamePlan
  <2> QED
    BY <2>1, <2>2, <2>3 DEF Serial
<1>2. CASE HNext
  <2>1. ASSUME NEW i \in Imports, NEW kind \in {"cli", "web"}, NEW says \in [Tools -> OldStatus],
               ImportRead(i, kind, says)
        PROVE  InFlight' = {i} /\ import'[i] = Plan(import[i].kind, import[i].says)'
    <3>1. Plan(kind, says)' = Plan(kind, says)
      BY <2>1, SamePlan DEF ImportRead
    <3>2. InFlight' = {i} /\ import'[i] = Plan(kind, says)
      BY <1>2, <2>1, UncrossedStep
    <3>3. import'[i].kind = kind /\ import'[i].says = says
      BY <3>2, PlanIsOK
    <3> QED
      BY <3>1, <3>2, <3>3
  <2>2. CASE \E i \in Imports : ImportCommit(i) \/ ImportRollsBack(i)
    BY <1>2, <2>2, UncrossedStep
  <2>3. CASE Meanwhile
    BY <1>2, <2>3, UncrossedStep
  <2>4. CASE \E i \in Imports, kind \in {"cli", "web"}, says \in [Tools -> OldStatus] :
               ImportRead(i, kind, says)
    BY <2>1, <2>4
  <2> QED
    BY <1>2, <2>2, <2>3, <2>4 DEF HNext, Next
<1> QED
  BY <1>1, <1>2

\* What an import has read when it commits and nothing has crossed it.
LEMMA CurrentPlan ==
  ASSUME Inv, Serial, HNext, ~crossed', NEW i \in Imports, ImportCommit(i)
  PROVE  /\ import[i].kind \in {"cli", "web"}
         /\ import[i] = Plan(import[i].kind, import[i].says)
<1>1. i \in InFlight
  BY UncrossedStep
<1>2. PlanOK(import[i])
  BY <1>1 DEF Inv, InFlight
<1>3. import[i] = Plan(import[i].kind, import[i].says)
  BY <1>1, UncrossedStep DEF Serial
<1> QED
  BY <1>2, <1>3 DEF PlanOK

\* Between the queries of migrate_core.py and its commit nothing is locked: only as
\* long as nothing crosses an import is it the only one, and what it has read what it
\* would read now.
THEOREM SerialHolds == HSpec => []Serial
<1>1. HInit => Serial
  BY DEF HInit, Init, InFlight, Serial
<1> QED
  BY <1>1, SerialStep, TypeCorrect, PTL DEF HSpec

-----------------------------------------------------------------------------
(* What is lent is not offered.                                              *)

LentNotOffered ==
  \A y \in DOMAIN record : record[y].is = "open" => status[record[y].thing] # "verfuegbar"

\* The commit of such an import takes the items that it lends.
LEMMA CommitNotOffered ==
  ASSUME Inv, LentNotOffered, NEW i \in Imports, ImportCommit(i),
         import[i].kind \in {"cli", "web"}, import[i] = Plan(import[i].kind, import[i].says)
  PROVE  LentNotOffered'
<1> DEFINE p == import[i]
           Read(d) == IF ThingRow(d) = None THEN p.says[d] ELSE status[ThingRow(d)]
<1>1. TypeOK /\ OpenOK /\ Sound /\ PlanOK(p) /\ Room(p)
  BY InvIsParts DEF Inv, ImportCommit
<1>2. record' = RecordsAfter(p) /\ status' = StatusAfter(p)
  BY DEF ImportCommit
<1>3. /\ p.things = [d \in Things |-> ThingRow(d)]
      /\ p.lends = {r \in p.open : Read(ThingOf[r]) = "verfuegbar"}
  BY DEF Plan
<1> HIDE DEF p
<1>4. ASSUME NEW x \in Rows(Tools)
      PROVE  \/ status'[x] = "ausgeliehen"
             \/ /\ \A r \in p.lends : ThingFor(p, ThingOf[r]) # x
                /\ status'[x] = IF x \in NewThings(p) THEN p.says[x[1]] ELSE status[x]
  BY <1>2 DEF StatusAfter
<1> SUFFICES ASSUME NEW y \in DOMAIN record', record'[y].is = "open"
             PROVE  status'[record'[y].thing] # "verfuegbar"
  BY DEF LentNotOffered
<1>5. record'[y].thing \in Rows(Tools)
  BY CommitInv DEF Inv, OpenOK
<1>6. CASE y \in NewRecords(p)
  <2> DEFINE d == ThingOf[y[1]]
             x == record'[y].thing
  <2>1. y[1] \in p.open /\ x = ThingFor(p, d)
    BY <1>1, <1>2, <1>6, RecordsWritten
  <2>2. d \in Tools /\ d \in Things
    BY <1>1, <2>1 DEF PlanOK, Things
  <2>3. CASE y[1] \in p.lends
    BY <1>4, <1>5, <2>1, <2>3
  <2>4. CASE y[1] \notin p.lends
    <3>1. Read(d) # "verfuegbar"
      BY <1>3, <2>1, <2>4
    <3>2. CASE ThingRow(d) = None
      <4> HIDE DEF d
      <4>1. x \in NewThings(p) /\ x[1] = d
        BY <1>1, <1>3, <2>1, <2>2, <3>2, ThingsWritten
      <4>2. p.says[x[1]] # "verfuegbar"
        BY <3>1, <3>2, <4>1
      <4> QED
        BY <1>4, <1>5, <4>1, <4>2
    <3>3. CASE ThingRow(d) # None
      <4>1. status[ThingRow(d)] # "verfuegbar"
        BY <3>1, <3>3
      <4> HIDE DEF d
      <4>2. x = ThingRow(d)
        BY <1>1, <1>3, <2>1, <2>2, <3>3, ThingsWritten
      <4>3. thing[x] = "active" /\ x \in Rows(Things)
        BY <1>1, <2>2, <3>3, <4>2, ThingFound
      <4>4. x \notin NewThings(p)
        BY <1>1, <4>3 DEF NewThings, UsedThings, TypeOK
      <4> QED
        BY <1>4, <1>5, <4>1, <4>2, <4>4
    <3> QED
      BY <3>2, <3>3
  <2> QED
    BY <2>3, <2>4
<1>7. CASE y \notin NewRecords(p)
  <2>1. y \in DOMAIN record /\ record'[y] = record[y]
    <3>1. DOMAIN record' = DOMAIN record
      BY <1>1, CommitInv DEF Inv, TypeOK
    <3> QED
      BY <1>1, <1>2, <1>7, <3>1, RecordsWritten
  <2> DEFINE x == record[y].thing
  <2>2. x \in Rows(Tools) /\ x \in Rows(Things)
    BY <1>5, <2>1 DEF Rows, Things
  <2>3. thing[x] \in Kept
    BY <1>1, <2>1, <2>2, NoneNoRow DEF TypeOK
  <2>4. x \notin NewThings(p)
    BY <1>1, <2>2, <2>3 DEF NewThings, UsedThings, TypeOK, Kept
  <2>5. status[x] # "verfuegbar"
    BY <2>1 DEF LentNotOffered
  <2> QED
    BY <1>4, <2>1, <2>2, <2>4, <2>5
<1> QED
  BY <1>6, <1>7

\* The application takes what it lends, gives back with the return, and no form makes
\* available what is lent.
LEMMA MeanwhileNotOffered ==
  ASSUME Inv, LentNotOffered, Meanwhile
  PROVE  LentNotOffered'
<1>1. TypeOK /\ Apart /\ OpenOK
  BY InvIsParts
<1>2. ASSUME NEW x \in Rows(Tools), NEW q \in DOMAIN person, Lend(x, q) PROVE LentNotOffered'
  <2> DEFINE new == [is |-> "open", thing |-> x, person |-> q]
  <2>1. record' = [record EXCEPT ![<<Own, 1>>] = new] /\ status' = [status EXCEPT ![x] = "ausgeliehen"]
    BY <1>2 DEF Lend
  <2>2. new.thing = x
    OBVIOUS
  <2> HIDE DEF new
  <2>3. /\ status'[x] = "ausgeliehen"
        /\ \A z \in Rows(Tools) : status'[z] = status[z] \/ status'[z] = "ausgeliehen"
    BY <1>1, <2>1 DEF TypeOK
  <2> QED
    BY <1>1, <2>1, <2>2, <2>3 DEF LentNotOffered, TypeOK, OpenOK
<1>3. ASSUME NEW y \in DOMAIN record, Return(y) PROVE LentNotOffered'
  <2> DEFINE new == [record[y] EXCEPT !.is = "closed"]
  <2>1. /\ record' = [record EXCEPT ![y] = new]
        /\ status' = [status EXCEPT ![record[y].thing] = "verfuegbar"]
        /\ record[y].is = "open"
    BY <1>3 DEF Return
  <2>2. new.is = "closed"
    BY <1>1 DEF TypeOK, Record
  <2> HIDE DEF new
  <2> SUFFICES ASSUME NEW z \in DOMAIN record', record'[z].is = "open"
               PROVE  status'[record'[z].thing] # "verfuegbar"
    BY DEF LentNotOffered
  <2>3. z \in DOMAIN record /\ z # y /\ record'[z] = record[z]
    BY <1>1, <2>1, <2>2 DEF TypeOK
  <2>4. record[z].thing \in Rows(Tools) /\ record[y].thing \in Rows(Tools)
    BY <1>1, <2>1, <2>3 DEF OpenOK
  <2>5. record[z].thing # record[y].thing
    BY <1>1, <2>1, <2>3, <2>4 DEF Apart, LentOnce
  <2>6. status'[record[z].thing] = status[record[z].thing]
    BY <1>1, <2>1, <2>4, <2>5 DEF TypeOK
  <2> QED
    BY <2>3, <2>6 DEF LentNotOffered
<1>4. ASSUME NEW x \in Rows(Things), TrashThing(x) \/ RestoreThing(x) PROVE LentNotOffered'
  BY <1>4 DEF LentNotOffered, TrashThing, RestoreThing, Elsewhere
<1>5. ASSUME NEW x \in Rows(Things), PurgeThing(x) PROVE LentNotOffered'
  <2>1. \A y \in DOMAIN record : record[y].thing = x => record[y].is # "open"
    BY <1>5 DEF PurgeThing, OpenOn
  <2> DEFINE New(y) == IF record[y].thing = x THEN [record[y] EXCEPT !.thing = None] ELSE record[y]
  <2>2. record' = [y \in DOMAIN record |-> New(y)] /\ status' = status
    BY <1>5 DEF PurgeThing, Elsewhere
  <2>3. \A y \in DOMAIN record : New(y).is = record[y].is
    BY <1>1 DEF TypeOK, Record
  <2>4. \A y \in DOMAIN record : record[y].is = "open" => New(y) = record[y]
    BY <2>1
  <2> HIDE DEF New
  <2> QED
    BY <2>2, <2>3, <2>4 DEF LentNotOffered
<1>6. ASSUME NEW q \in DOMAIN person, TrashPerson(q) \/ RestorePerson(q) \/ Rebadge(q)
      PROVE  LentNotOffered'
  BY <1>6 DEF LentNotOffered, TrashPerson, RestorePerson, Rebadge, Elsewhere
<1>7. ASSUME NEW q \in DOMAIN person, PurgePerson(q) PROVE LentNotOffered'
  <2> DEFINE New(y) == IF record[y].person = q THEN [record[y] EXCEPT !.person = None] ELSE record[y]
  <2>1. record' = [y \in DOMAIN record |-> New(y)] /\ status' = status
    BY <1>7 DEF PurgePerson, Elsewhere
  <2>2. \A y \in DOMAIN record : New(y).is = record[y].is /\ New(y).thing = record[y].thing
    BY <1>1 DEF TypeOK, Record
  <2> HIDE DEF New
  <2> QED
    BY <2>1, <2>2 DEF LentNotOffered
<1>8. ASSUME NEW r \in Records, SourceGrows(r) \/ SourceReturns(r) PROVE LentNotOffered'
  BY <1>8 DEF LentNotOffered, SourceGrows, SourceReturns, db
<1>9. ASSUME NEW x \in Rows(Tools), NEW s \in Status, EditStatus(x, s) PROVE LentNotOffered'
  <2>1. record' = record /\ status' = [status EXCEPT ![x] = s]
    BY <1>9 DEF EditStatus
  <2>2. s # "ausgeliehen" =>
          \A y \in DOMAIN record : record[y].is = "open" => record[y].thing # x
    BY <1>9 DEF EditStatus, OpenOn
  <2> QED
    BY <1>1, <2>1, <2>2 DEF LentNotOffered, TypeOK, OpenOK
<1> QED
  BY <1>2, <1>3, <1>4, <1>5, <1>6, <1>7, <1>8, <1>9 DEF Meanwhile

\* As long as nothing crosses an import, no item that is lent is offered as available:
\* not one that an import has made or lent (migrate_core.py reads the status of an item
\* before it inserts the lending that takes it), nor after any form or return since.
THEOREM SerialStatusHolds == HSpec => []SerialStatus
<1>1. HInit => SerialStatus
  BY DEF HInit, Init, NoRecord, SerialStatus
<1>2. Inv /\ Serial /\ SerialStatus /\ [HNext]_<<vars, crossed>> => SerialStatus'
  <2> SUFFICES ASSUME Inv, Serial, SerialStatus, [HNext]_<<vars, crossed>>, ~crossed'
               PROVE  LentNotOffered'
    BY DEF SerialStatus, LentNotOffered
  <2>1. CASE UNCHANGED <<vars, crossed>>
    BY <2>1 DEF vars, db, SerialStatus, LentNotOffered
  <2>2. CASE HNext
    <3>1. LentNotOffered
      BY <2>2, UncrossedStep DEF SerialStatus, LentNotOffered
    <3>2. ASSUME NEW i \in Imports, ImportCommit(i) PROVE LentNotOffered'
      BY <2>2, <3>1, <3>2, CurrentPlan, CommitNotOffered
    <3>3. ASSUME NEW i \in Imports, NEW kind \in {"cli", "web"}, NEW says \in [Tools -> OldStatus],
                 ImportRead(i, kind, says)
          PROVE  LentNotOffered'
      BY <3>1, <3>3 DEF ImportRead, db, LentNotOffered
    <3>4. ASSUME NEW i \in Imports, ImportRollsBack(i) PROVE LentNotOffered'
      BY <3>1, <3>4 DEF ImportRollsBack, db, LentNotOffered
    <3> QED
      BY <2>2, <3>1, <3>2, <3>3, <3>4, MeanwhileNotOffered DEF HNext, Next
  <2> QED
    BY <2>1, <2>2
<1> QED
  BY <1>1, <1>2, TypeCorrect, SerialHolds, PTL DEF HSpec

-----------------------------------------------------------------------------
(* What a plan that is not stale writes.                                     *)

\* A plan of this kind, made in this state, and it has room.
Current(p, kind) == /\ Inv /\ kind \in {"cli", "web"} /\ p.says \in [Tools -> OldStatus]
                    /\ p = Plan(kind, p.says) /\ Room(p)

\* What an import knows whose reads are still so.
LEMMA CurrentIs ==
  ASSUME NEW p, NEW kind, Current(p, kind)
  PROVE  /\ TypeOK /\ Sound /\ PlanOK(p) /\ Room(p) /\ p.kind = kind
         /\ \A d \in Things : p.things[d] = ThingRow(d)
         /\ kind = "cli" => \A l \in Logins : p.logins[l] = LoginRow(l)
         /\ \A w \in Workers : /\ w \in p.linked <=> Linked(w, kind)
                               /\ p.workers[w] = WorkerRow(w, kind)
         /\ p.records = {r \in source.known : IsNew(r, kind)}
         /\ p.open = p.records \cap source.open
<1>1. TypeOK /\ Sound /\ PlanOK(p) /\ Room(p) /\ p.kind = kind
  BY InvIsParts, PlanIsOK DEF Current
<1>2. p = Plan(kind, p.says)
  BY DEF Current
<1>3. /\ p.things = [d \in Things |-> ThingRow(d)]
      /\ p.logins = [l \in Logins |-> IF kind = "cli" THEN LoginRow(l) ELSE None]
      /\ p.workers = [w \in Workers |-> WorkerRow(w, kind)]
      /\ p.linked = {w \in Workers : Linked(w, kind)}
      /\ p.records = {r \in source.known : IsNew(r, kind)}
      /\ p.open = p.records \cap source.open
  BY <1>2 DEF Plan
<1> QED
  BY <1>1, <1>3

\* It adds a thing only if no active row has the code, and all its things are active.
LEMMA CurrentThings ==
  ASSUME NEW p, NEW kind, Current(p, kind)
  PROVE  /\ \A x \in NewThings(p) : /\ x \in Rows(Things) /\ x = ThingFor(p, x[1])
                                    /\ ThingRow(x[1]) = None
         /\ \A d \in Things : ThingsAfter(p)[ThingFor(p, d)] = "active"
<1>1. ASSUME NEW d \in Things, ThingRow(d) # None
      PROVE  /\ ThingFor(p, d) = ThingRow(d) /\ thing[ThingFor(p, d)] = "active"
             /\ ThingFor(p, d) \notin NewThings(p)
  <2>1. ThingFor(p, d) = ThingRow(d) /\ thing[ThingRow(d)] = "active" /\ ThingRow(d) \in Rows(Things)
    BY <1>1, CurrentIs, ThingsWritten, ThingFound
  <2>2. ThingRow(d) \in UsedThings
    BY <2>1, CurrentIs DEF UsedThings, TypeOK
  <2> QED
    BY <2>1, <2>2 DEF NewThings
<1>2. ASSUME NEW x \in NewThings(p)
      PROVE  x \in Rows(Things) /\ x = ThingFor(p, x[1]) /\ ThingRow(x[1]) = None
  <2>1. PICK d \in Things : x = ThingFor(p, d)
    BY DEF NewThings
  <2>2. x \in Rows(Things) /\ x[1] = d
    BY <2>1, CurrentIs, ThingsWritten
  <2> QED
    BY <1>1, <2>1, <2>2
<1>3. ASSUME NEW d \in Things PROVE ThingsAfter(p)[ThingFor(p, d)] = "active"
  <2>1. ThingFor(p, d) \in Rows(Things)
    BY CurrentIs, ThingsWritten
  <2>2. ThingRow(d) = None => ThingFor(p, d) \in NewThings(p)
    BY CurrentIs, ThingsWritten
  <2> QED
    BY <1>1, <2>1, <2>2, CurrentIs, ThingsWritten
<1> QED
  BY <1>2, <1>3

\* It adds a login only if no kept row has the name.
LEMMA CurrentLogins ==
  ASSUME NEW p, Current(p, "cli"), NEW l \in Logins
  PROVE  /\ LoginFor(p, l) \in Rows(Logins) /\ LoginFor(p, l)[1] = l
         /\ LoginRow(l) = None => LoginFor(p, l) \in NewPersons(p)
         /\ LoginRow(l) # None => LoginFor(p, l) = LoginRow(l) /\ LoginFor(p, l) \in UsedPersons
         /\ PersonsAfter(p)[LoginFor(p, l)].life \in Kept
<1>1. /\ TypeOK /\ Sound /\ PlanOK(p) /\ Room(p) /\ p.kind = "cli"
      /\ p.logins[l] = LoginRow(l)
  BY CurrentIs
<1>2. /\ LoginFor(p, l) \in Rows(Logins) /\ LoginFor(p, l)[1] = l
      /\ LoginRow(l) = None => LoginFor(p, l) \in NewPersons(p)
      /\ LoginRow(l) # None => LoginFor(p, l) = LoginRow(l)
  BY <1>1, LoginWritten
<1>3. LoginFor(p, l) \in Rows(People)
  BY <1>2 DEF Rows, People
<1>4. LoginRow(l) # None => person[LoginFor(p, l)].life \in Kept
  BY <1>1, <1>2, LoginFound
<1>5. LoginRow(l) # None => LoginFor(p, l) \in UsedPersons
  BY <1>1, <1>3, <1>4 DEF UsedPersons, TypeOK, People, Kept
<1>6. PersonsAfter(p)[LoginFor(p, l)].life \in Kept
  BY <1>1, <1>2, <1>3, <1>4, PersonsWritten DEF Kept
<1> QED
  BY <1>2, <1>5, <1>6

\* It links a worker, adds a row, or has found the one with the badge.
LEMMA CurrentWorkers ==
  ASSUME NEW p, NEW kind, Current(p, kind), NEW w \in Workers
  PROVE  /\ PersonFor(p, w) \in Rows(People)
         /\ w \in p.linked => /\ kind = "cli" /\ LoginOf[w] \in Logins
                              /\ w \notin Badged \/ BadgeRow(w) = None
                              /\ PersonFor(p, w) = LoginFor(p, LoginOf[w])
                              /\ PersonFor(p, w)[1] = LoginOf[w]
         /\ w \notin p.linked /\ WorkerRow(w, kind) = None =>
              PersonFor(p, w)[1] = w /\ PersonFor(p, w) \in NewPersons(p)
         /\ w \notin p.linked /\ WorkerRow(w, kind) # None =>
              /\ w \in Badged /\ PersonFor(p, w) = BadgeRow(w) /\ HasBadge(PersonFor(p, w), w)
              /\ PersonFor(p, w) \in UsedPersons
         /\ PersonsAfter(p)[PersonFor(p, w)].life \in Kept
<1>1. /\ TypeOK /\ Sound /\ PlanOK(p) /\ Room(p) /\ p.kind = kind
      /\ p.workers[w] = WorkerRow(w, kind) /\ (w \in p.linked <=> Linked(w, kind))
  BY CurrentIs
<1>2. /\ PersonFor(p, w) \in Rows(People)
      /\ w \in p.linked => /\ LoginOf[w] \in Logins
                           /\ PersonFor(p, w) = LoginFor(p, LoginOf[w])
                           /\ PersonFor(p, w)[1] = LoginOf[w]
      /\ w \notin p.linked /\ WorkerRow(w, kind) # None => PersonFor(p, w) = WorkerRow(w, kind)
      /\ w \notin p.linked /\ WorkerRow(w, kind) = None =>
           PersonFor(p, w)[1] = w /\ PersonFor(p, w) \in NewPersons(p)
  BY <1>1, PersonWritten
<1>3. w \in p.linked => kind = "cli" /\ (w \notin Badged \/ BadgeRow(w) = None)
  BY <1>1 DEF Linked
<1>4. w \notin p.linked /\ WorkerRow(w, kind) # None =>
        w \in Badged /\ PersonFor(p, w) = BadgeRow(w) /\ HasBadge(PersonFor(p, w), w)
  <2> SUFFICES ASSUME w \notin p.linked, WorkerRow(w, kind) # None
               PROVE  w \in Badged /\ PersonFor(p, w) = BadgeRow(w) /\ HasBadge(PersonFor(p, w), w)
    OBVIOUS
  <2>1. w \in Badged /\ WorkerRow(w, kind) = BadgeRow(w)
    BY <1>1 DEF WorkerRow
  <2> QED
    BY <1>1, <1>2, <2>1, BadgeFound
<1>5. HasBadge(PersonFor(p, w), w) => PersonFor(p, w) \in UsedPersons
  BY <1>1, <1>2 DEF HasBadge, UsedPersons, TypeOK, People
<1>6. PersonsAfter(p)[PersonFor(p, w)].life \in Kept
  <2>1. CASE w \in p.linked
    BY <1>2, <1>3, <2>1, CurrentLogins
  <2>2. CASE w \notin p.linked /\ WorkerRow(w, kind) = None
    BY <1>1, <1>2, <2>2, PersonsWritten DEF Kept
  <2>3. CASE w \notin p.linked /\ WorkerRow(w, kind) # None
    BY <1>1, <1>2, <1>4, <2>3, PersonsWritten DEF Kept, HasBadge
  <2> QED
    BY <2>1, <2>2, <2>3
<1> QED
  BY <1>2, <1>3, <1>4, <1>5, <1>6

\* A new row is of a login that nobody has, or of a worker who is found nowhere.
LEMMA CurrentNewPersons ==
  ASSUME NEW p, NEW kind, Current(p, kind), NEW x \in NewPersons(p)
  PROVE  /\ x \in Rows(People)
         /\ \/ /\ x[1] \in Logins /\ kind = "cli" /\ x = LoginFor(p, x[1])
               /\ LoginRow(x[1]) = None
            \/ /\ x[1] \in Workers \ p.linked /\ x = PersonFor(p, x[1])
               /\ WorkerRow(x[1], kind) = None
<1>1. TypeOK /\ Room(p) /\ p.kind = kind
  BY CurrentIs
<1>2. x \in Rows(People) /\ x \notin UsedPersons
  BY <1>1, RoomForPersons DEF NewPersons
<1>3. ASSUME NEW l \in Logins, kind = "cli", x = LoginFor(p, l)
      PROVE  x[1] \in Logins /\ x = LoginFor(p, x[1]) /\ LoginRow(x[1]) = None
  BY <1>2, <1>3, CurrentLogins
<1>4. ASSUME NEW w \in Workers, x = PersonFor(p, w), w \in p.linked
      PROVE  x[1] \in Logins /\ kind = "cli" /\ x = LoginFor(p, x[1]) /\ LoginRow(x[1]) = None
  BY <1>3, <1>4, CurrentWorkers
<1>5. ASSUME NEW w \in Workers, x = PersonFor(p, w), w \notin p.linked
      PROVE  x[1] \in Workers \ p.linked /\ x = PersonFor(p, x[1]) /\ WorkerRow(x[1], kind) = None
  BY <1>2, <1>5, CurrentWorkers
<1>6. \/ \E w \in Workers : x = PersonFor(p, w)
      \/ kind = "cli" /\ \E l \in Logins : x = LoginFor(p, l)
  BY <1>1 DEF NewPersons
<1> QED
  BY <1>2, <1>3, <1>4, <1>5, <1>6

HasBadgeAfter(p, x, w) == PersonsAfter(p)[x].life = "active" /\ PersonsAfter(p)[x].badge = w

\* Linking takes no badge away, since a worker is linked only if nobody has the
\* badge, and to a login that no other document names.
LEMMA BadgeKept ==
  ASSUME NEW p, NEW kind, Current(p, kind), NEW x \in Rows(People), NEW w \in Badged, HasBadge(x, w)
  PROVE  /\ HasBadgeAfter(p, x, w)
         /\ PersonFor(p, w) = x
<1>1. TypeOK /\ Sound /\ PlanOK(p) /\ Room(p) /\ w \in Workers /\ w \in Badged
  BY CurrentIs, ImportAssumption
<1>2. BadgeRow(w) = x /\ x # None
  BY <1>1, BadgeFound, NoneNoRow
<1>3. w \notin p.linked
  BY <1>1, <1>2, CurrentWorkers
<1>4. WorkerRow(w, kind) = x
  <2>1. ~Linked(w, kind)
    BY <1>1, <1>3, CurrentIs
  <2> QED
    BY <1>1, <1>2, <2>1 DEF WorkerRow
<1>5. PersonFor(p, w) = x
  BY <1>1, <1>2, <1>3, <1>4, CurrentWorkers
<1>6. x \notin NewPersons(p)
  <2>1. x \in UsedPersons
    BY <1>1 DEF HasBadge, UsedPersons, TypeOK, People
  <2> QED
    BY <2>1 DEF NewPersons
<1>7. ASSUME NEW v \in p.linked, PersonFor(p, v) = x PROVE FALSE
  <2>1. v \in Workers /\ LoginOf[v] \in Logins /\ x[1] = LoginOf[v]
    BY <1>1, <1>7, CurrentWorkers DEF PlanOK
  <2>2. w \in BadgesOf(LoginOf[v])
    BY <2>1 DEF Current, Inv, BadgesOK, HasBadge
  <2>3. LoginOf[w] = LoginOf[v]
    BY <2>1, <2>2, OtherAssumption DEF BadgesOf
  <2>4. v = w
    BY <1>1, <2>1, <2>3, ImportAssumption
  <2> QED
    BY <1>3, <2>4
<1>8. PersonsAfter(p)[x].life = person[x].life /\ PersonsAfter(p)[x].badge = person[x].badge
  BY <1>1, <1>6, <1>7, PersonsWritten
<1> QED
  BY <1>5, <1>8 DEF HasBadge, HasBadgeAfter

\* Whoever has the badge of a document afterwards is who the document's worker
\* has become.
LEMMA BadgeFrom ==
  ASSUME NEW p, NEW kind, Current(p, kind), NEW x \in Rows(People), NEW w \in Badged,
         HasBadgeAfter(p, x, w)
  PROVE  x = PersonFor(p, w)
<1>1. TypeOK /\ Sound /\ PlanOK(p) /\ Room(p) /\ w \in Workers
  BY CurrentIs, ImportAssumption
<1>2. CASE \E v \in p.linked : PersonFor(p, v) = x
  <2>1. PICK v \in p.linked : PersonFor(p, v) = x
    BY <1>2
  <2>2. w = BadgeOn(v)
    BY <1>1, <2>1, PersonsWritten DEF HasBadgeAfter
  <2>3. w = v
    BY <2>2, OtherAssumption DEF BadgeOn
  <2> QED
    BY <2>1, <2>3
<1>3. CASE (\A v \in p.linked : PersonFor(p, v) # x) /\ x \in NewPersons(p)
  <2>1. w = BadgeOn(x[1])
    BY <1>1, <1>3, PersonsWritten DEF HasBadgeAfter
  <2>2. w = x[1]
    BY <2>1, OtherAssumption DEF BadgeOn
  <2> QED
    BY <1>1, <1>3, <2>2, CurrentNewPersons, CollectionsAssumption
<1>4. CASE (\A v \in p.linked : PersonFor(p, v) # x) /\ x \notin NewPersons(p)
  <2>1. HasBadge(x, w)
    BY <1>1, <1>4, PersonsWritten DEF HasBadge, HasBadgeAfter
  <2> QED
    BY <2>1, BadgeKept
<1> QED
  BY <1>2, <1>3, <1>4

\* That one has the badge, though maybe in the trash.
LEMMA BadgeGiven ==
  ASSUME NEW p, NEW kind, Current(p, kind), NEW w \in Badged
  PROVE  PersonsAfter(p)[PersonFor(p, w)].badge = w
<1>1. TypeOK /\ PlanOK(p) /\ Room(p) /\ w \in Workers
  BY CurrentIs, ImportAssumption
<1>2. CASE w \in p.linked
  BY <1>1, <1>2, PersonsWritten DEF BadgeOn
<1>3. CASE w \notin p.linked /\ WorkerRow(w, kind) = None
  <2>1. /\ PersonFor(p, w)[1] = w /\ PersonFor(p, w) \in NewPersons(p)
        /\ PersonFor(p, w) \in Rows(People)
    BY <1>1, <1>3, CurrentWorkers
  <2>2. ASSUME NEW v \in p.linked, PersonFor(p, v) = PersonFor(p, w) PROVE FALSE
    <3>1. LoginOf[v] \in Logins /\ PersonFor(p, v)[1] = LoginOf[v]
      BY <1>1, CurrentWorkers DEF PlanOK
    <3> QED
      BY <1>1, <2>1, <2>2, <3>1, CollectionsAssumption
  <2>3. PersonsAfter(p)[PersonFor(p, w)].badge = BadgeOn(PersonFor(p, w)[1])
    BY <1>1, <2>1, <2>2, PersonsWritten
  <2> QED
    BY <2>1, <2>3 DEF BadgeOn
<1>4. CASE w \notin p.linked /\ WorkerRow(w, kind) # None
  <2>1. HasBadge(PersonFor(p, w), w) /\ PersonFor(p, w) \in Rows(People)
    BY <1>1, <1>4, CurrentWorkers
  <2> QED
    BY <2>1, BadgeKept DEF HasBadgeAfter
<1> QED
  BY <1>2, <1>3, <1>4

-----------------------------------------------------------------------------
(* Such an import goes through.                                              *)

\* While nothing was trashed and no badge was changed: who has the name of a
\* worker's document has its badge, and what the import has made of an open
\* lending is with that worker.
Undisposed ==
  /\ \A x \in Rows(People) : /\ person[x].life \in {"absent", "active"}
                             /\ x[1] \in Badged /\ person[x].life = "active" => person[x].badge = x[1]
  /\ \A y \in Rows(Records) :
       record[y].is = "open" => /\ record[y].person # None
                                /\ person[record[y].person].badge = WorkerOf[y[1]]

\* Such an import leaves no code on two active things,
LEMMA CodesApartAfter ==
  ASSUME NEW p, NEW kind, Current(p, kind)
  PROVE  CodesApart(ThingsAfter(p))
<1>1. TypeOK /\ Sound /\ PlanOK(p) /\ Room(p)
  BY CurrentIs
<1>2. \A x \in Rows(Things) :
        ThingsAfter(p)[x] = "active" => x \in NewThings(p) \/ thing[x] = "active"
  BY <1>1, ThingsWritten
<1>3. \A x \in Rows(Things) : thing[x] = "active" => ThingRow(x[1]) = x /\ x # None
  BY <1>1, ThingFound, RowIn, NoneNoRow
<1> SUFFICES ASSUME NEW x \in Rows(Things), NEW y \in Rows(Things), x[1] = y[1],
                    ThingsAfter(p)[x] = "active", ThingsAfter(p)[y] = "active"
             PROVE  x = y
  BY DEF CodesApart
<1> QED
  BY <1>2, <1>3, CurrentThings

\* ... no name on two people, as long as no one was disposed of,
LEMMA NamesApartAfter ==
  ASSUME NEW p, NEW kind, Current(p, kind), Undisposed
  PROVE  NamesApart(PersonsAfter(p))
<1>1. TypeOK /\ Sound /\ PlanOK(p) /\ Room(p)
  BY CurrentIs
<1>2. \A x \in Rows(People) :
        PersonsAfter(p)[x].life \in Kept => x \in NewPersons(p) \/ person[x].life = "active"
  BY <1>1, PersonsWritten DEF Undisposed, Kept
<1>3. ASSUME NEW x \in Rows(People), x[1] \in Logins, person[x].life = "active"
      PROVE  LoginRow(x[1]) = x /\ x # None
  <2>1. x \in Rows(Logins)
    BY <1>3, RowIn, RowOf
  <2> QED
    BY <1>1, <1>3, <2>1, LoginFound, NoneNoRow DEF Kept
<1>4. ASSUME NEW x \in Rows(People), x[1] \in Badged, person[x].life = "active", x[1] \notin p.linked
      PROVE  WorkerRow(x[1], kind) = x /\ x # None
  <2>1. HasBadge(x, x[1])
    BY <1>4 DEF Undisposed, HasBadge
  <2>2. ~Linked(x[1], kind)
    BY <1>4, CurrentIs, ImportAssumption
  <2> QED
    BY <1>1, <1>4, <2>1, <2>2, BadgeFound, NoneNoRow DEF WorkerRow
<1> SUFFICES ASSUME NEW x \in Rows(People), NEW y \in Rows(People),
                    x[1] \in Badged \cup Logins, x[1] = y[1],
                    PersonsAfter(p)[x].life \in Kept, PersonsAfter(p)[y].life \in Kept
             PROVE  x = y
  BY DEF NamesApart
<1>5. \A d : ~(d \in Logins /\ d \in Workers)
  BY CollectionsAssumption
<1>6. ASSUME NEW u \in NewPersons(p), NEW v \in Rows(People), u[1] \in Badged \cup Logins,
             v[1] = u[1], person[v].life = "active"
      PROVE  FALSE
  <2>1. CASE u[1] \in Logins
    BY <1>3, <1>5, <1>6, <2>1, CurrentNewPersons
  <2>2. CASE u[1] \in Badged
    BY <1>4, <1>5, <1>6, <2>2, CurrentNewPersons, ImportAssumption
  <2> QED
    BY <1>6, <2>1, <2>2
<1>7. CASE x \in NewPersons(p) /\ y \in NewPersons(p)
  BY <1>5, <1>7, CurrentNewPersons
<1>8. CASE x \in NewPersons(p) /\ y \notin NewPersons(p)
  BY <1>2, <1>6, <1>8
<1>9. CASE x \notin NewPersons(p) /\ y \in NewPersons(p)
  BY <1>2, <1>6, <1>9
<1>10. CASE x \notin NewPersons(p) /\ y \notin NewPersons(p)
  <2>1. person[x].life \in Kept /\ person[y].life \in Kept
    BY <1>2, <1>10 DEF Kept
  <2> QED
    BY <2>1, InvIsParts DEF Current, Apart, NamesApart
<1> QED
  BY <1>7, <1>8, <1>9, <1>10

\* ... no badge on two people,
LEMMA BadgesApartAfter ==
  ASSUME NEW p, NEW kind, Current(p, kind)
  PROVE  BadgesApart(PersonsAfter(p))
<1> SUFFICES ASSUME NEW x \in Rows(People), NEW y \in Rows(People),
                    PersonsAfter(p)[x].badge \in Badged,
                    PersonsAfter(p)[x].badge = PersonsAfter(p)[y].badge,
                    PersonsAfter(p)[x].life = "active", PersonsAfter(p)[y].life = "active"
             PROVE  x = y
  BY DEF BadgesApart
<1> DEFINE w == PersonsAfter(p)[x].badge
<1>1. w \in Badged /\ HasBadgeAfter(p, x, w) /\ HasBadgeAfter(p, y, w)
  BY DEF HasBadgeAfter
<1> HIDE DEF w
<1>2. x = PersonFor(p, w)
  BY <1>1, BadgeFrom
<1>3. y = PersonFor(p, w)
  BY <1>1, BadgeFrom
<1> QED
  BY <1>2, <1>3

\* Two open lendings of one tool would be one here and one in the old system, or
\* a lending that is imported although it is here.
LEMMA LentOnceAfter ==
  ASSUME NEW p, NEW kind, Current(p, kind), Undisposed, ~Conflict
  PROVE  LentOnce(RecordsAfter(p))
<1>1. TypeOK /\ Sound /\ PlanOK(p) /\ Room(p) /\ OpenOK /\ LentOnce(record)
  BY CurrentIs, InvIsParts DEF Current, Apart
<1>2. DOMAIN RecordsAfter(p) = Rows(Records) \cup {<<Own, 1>>} /\ DOMAIN record = DOMAIN RecordsAfter(p)
  BY <1>1, RecordsWritten DEF TypeOK
<1>3. \A y \in DOMAIN record \ NewRecords(p) : RecordsAfter(p)[y] = record[y]
  BY <1>1, RecordsWritten
<1>4. ASSUME NEW y \in NewRecords(p), RecordsAfter(p)[y].is = "open"
      PROVE  /\ y[1] \in source.open /\ y[1] \in Records /\ ThingOf[y[1]] \in Things
             /\ IsNew(y[1], kind)
             /\ RecordsAfter(p)[y].thing = ThingFor(p, ThingOf[y[1]])
             /\ RecordsAfter(p)[y].thing[1] = ThingOf[y[1]]
  <2>1. /\ y[1] \in p.open /\ y[1] \in p.records
        /\ RecordsAfter(p)[y].thing = ThingFor(p, ThingOf[y[1]])
    BY <1>1, <1>4, RecordsWritten
  <2>2. y[1] \in source.open /\ IsNew(y[1], kind) /\ y[1] \in Records
    BY <1>1, <2>1, CurrentIs DEF PlanOK
  <2>3. ThingOf[y[1]] \in Things
    BY <2>2, ImportAssumption
  <2> QED
    BY <1>1, <2>1, <2>2, <2>3, ThingsWritten
<1>5. ASSUME NEW x \in NewRecords(p), RecordsAfter(p)[x].is = "open",
             NEW y \in DOMAIN record, record[y].is = "open",
             record[y].thing = RecordsAfter(p)[x].thing
      PROVE  FALSE
  <2> DEFINE r == x[1]
             d == ThingOf[r]
             w == WorkerOf[r]
  <2>1. /\ r \in source.open /\ r \in Records /\ d \in Things /\ IsNew(r, kind)
        /\ record[y].thing = ThingFor(p, d) /\ record[y].thing[1] = d
    BY <1>4, <1>5
  <2>2. y[1] = r
    BY <1>5, <2>1 DEF Conflict
  <2>3. y \in Rows(Records) /\ y \in Rows({r})
    <3>1. y # <<Own, 1>>
      BY <2>1, <2>2, ImportAssumption
    <3> QED
      BY <1>2, <2>2, <3>1, RowIn
  <2>4. w \in Badged /\ w \in Workers
    BY <2>1, ImportAssumption
  <2> HIDE DEF w, d, r
  <2>5. record[y].thing # None /\ record[y].thing = ThingRow(d)
    <3>1. record[y].thing \in Rows(Things) /\ record[y].thing # None
      BY <1>1, <1>5, NoneNoRow DEF OpenOK, Rows, Things
    <3>2. record[y].thing \in UsedThings
      BY <1>1, <3>1 DEF TypeOK, UsedThings, Kept
    <3>3. ThingFor(p, d) \notin NewThings(p)
      BY <2>1, <3>2 DEF NewThings
    <3>4. ThingRow(d) # None
      BY <1>1, <2>1, <3>3, ThingsWritten, CurrentIs
    <3> QED
      BY <1>1, <2>1, <3>1, <3>4, ThingsWritten, CurrentIs
  <2>6. record[y].person # None /\ record[y].person = WorkerRow(w, kind)
    <3>1. record[y].person # None /\ person[record[y].person].badge = w
      BY <1>5, <2>2, <2>3 DEF Undisposed, w
    <3>2. record[y].person \in Rows(People)
      BY <1>1, <3>1 DEF TypeOK, Record, People
    <3>3. HasBadge(record[y].person, w)
      BY <1>1, <3>1, <3>2 DEF HasBadge, TypeOK, Kept, Undisposed
    <3>4. BadgeRow(w) = record[y].person
      BY <1>1, <2>4, <3>2, <3>3, BadgeFound
    <3>5. ~Linked(w, kind)
      BY <2>4, <3>1, <3>4 DEF Linked
    <3> QED
      BY <2>4, <3>1, <3>4, <3>5 DEF WorkerRow
  <2>7. ~IsNew(r, kind)
    BY <1>5, <2>3, <2>5, <2>6 DEF IsNew, d, w
  <2> QED
    BY <2>1, <2>7
<1> SUFFICES ASSUME NEW x \in DOMAIN RecordsAfter(p), NEW y \in DOMAIN RecordsAfter(p),
                    RecordsAfter(p)[x].is = "open", RecordsAfter(p)[y].is = "open",
                    RecordsAfter(p)[x].thing \in Rows(Tools),
                    RecordsAfter(p)[x].thing = RecordsAfter(p)[y].thing
             PROVE  x = y
  BY DEF LentOnce
<1>6. CASE x \in NewRecords(p) /\ y \in NewRecords(p)
  <2>1. x[1] = y[1]
    BY <1>1, <1>4, <1>6 DEF OpenOK
  <2> QED
    BY <1>1, <1>6, <2>1, RecordsWritten
<1>7. CASE x \in NewRecords(p) /\ y \notin NewRecords(p)
  BY <1>2, <1>3, <1>5, <1>7
<1>8. CASE x \notin NewRecords(p) /\ y \in NewRecords(p)
  BY <1>2, <1>3, <1>5, <1>8
<1>9. CASE x \notin NewRecords(p) /\ y \notin NewRecords(p)
  BY <1>1, <1>2, <1>3, <1>9 DEF LentOnce
<1> QED
  BY <1>6, <1>7, <1>8, <1>9

\* ... and no record without its thing and person.
LEMMA ReferencedAfter ==
  ASSUME NEW p, NEW kind, Current(p, kind)
  PROVE  Referenced(ThingsAfter(p), PersonsAfter(p), RecordsAfter(p))
<1>1. TypeOK /\ PlanOK(p) /\ Room(p)
  BY CurrentIs
<1> SUFFICES ASSUME NEW y \in DOMAIN RecordsAfter(p)
             PROVE  /\ RecordsAfter(p)[y].thing # None =>
                         ThingsAfter(p)[RecordsAfter(p)[y].thing] \in Kept
                    /\ RecordsAfter(p)[y].person # None =>
                         PersonsAfter(p)[RecordsAfter(p)[y].person].life \in Kept
  BY DEF Referenced
<1>2. CASE y \in NewRecords(p)
  <2>1. y[1] \in Records
    BY <1>1, <1>2, RecordsWritten DEF PlanOK
  <2>2. ThingOf[y[1]] \in Things /\ WorkerOf[y[1]] \in Workers
    BY <2>1, ImportAssumption
  <2>3. /\ RecordsAfter(p)[y].thing = ThingFor(p, ThingOf[y[1]])
        /\ RecordsAfter(p)[y].person = PersonFor(p, WorkerOf[y[1]])
    BY <1>1, <1>2, RecordsWritten
  <2> QED
    BY <2>2, <2>3, CurrentThings, CurrentWorkers DEF Kept
<1>3. CASE y \notin NewRecords(p)
  <2>1. y \in DOMAIN record
    <3>1. DOMAIN RecordsAfter(p) = Rows(Records) \cup {<<Own, 1>>}
      BY <1>1, RecordsWritten
    <3> QED
      BY <1>1, <3>1 DEF TypeOK
  <2>2. RecordsAfter(p)[y] = record[y]
    BY <1>1, <1>3, <2>1, RecordsWritten
  <2>3. record[y].thing \in Rows(Things) \cup {None} /\ record[y].person \in Rows(People) \cup {None}
    BY <1>1, <2>1 DEF TypeOK, Record, People
  <2>4. /\ \A x \in Rows(Things) : thing[x] \in Kept => ThingsAfter(p)[x] \in Kept
        /\ \A x \in Rows(People) : person[x].life \in Kept => PersonsAfter(p)[x].life \in Kept
    BY <1>1, ThingsWritten, PersonsWritten DEF Kept
  <2> QED
    BY <1>1, <2>1, <2>2, <2>3, <2>4 DEF TypeOK
<1> QED
  BY <1>2, <1>3

\* Hence the constraints admit it.
LEMMA CurrentAdmitted ==
  ASSUME NEW p, NEW kind, Current(p, kind), Undisposed, ~Conflict
  PROVE  Admits(p)
<1>1. PersonsAfter(p) \in [Rows(People) -> [life : Life, badge : Badged \cup {Other}]]
  BY CurrentIs, PersonsWritten
<1>2. /\ CodesApart(ThingsAfter(p)) /\ NamesApart(PersonsAfter(p)) /\ BadgesApart(PersonsAfter(p))
      /\ LentOnce(RecordsAfter(p))
      /\ Referenced(ThingsAfter(p), PersonsAfter(p), RecordsAfter(p))
  BY CodesApartAfter, NamesApartAfter, BadgesApartAfter, LentOnceAfter, ReferencedAfter
<1>3. Constraints(ThingsAfter(p), PersonsAfter(p), RecordsAfter(p))
  BY <1>1, <1>2, RowByRow
<1>4. \A w \in p.linked : PersonsAfter(p)[PersonFor(p, w)].life \in Kept
  BY CurrentIs, CurrentWorkers DEF PlanOK
<1> QED
  BY <1>3, <1>4 DEF Admits

UndisposedSoFar == ~crossed /\ disposals = 0 => Undisposed

\* An import disposes of nobody.
LEMMA CommitUndisposed ==
  ASSUME NEW i \in Imports, NEW kind, Current(import[i], kind), ImportCommit(i), Undisposed
  PROVE  Undisposed'
<1> DEFINE p == import[i]
<1>1. TypeOK /\ PlanOK(p) /\ Room(p) /\ Current(p, kind) /\ OpenOK
  BY CurrentIs, InvIsParts DEF Current
<1>2. person' = PersonsAfter(p) /\ record' = RecordsAfter(p)
  BY DEF ImportCommit
<1> HIDE DEF p
<1>3. ASSUME NEW x \in Rows(People)
      PROVE  person'[x].life \in {"absent", "active"}
  BY <1>1, <1>2, PersonsWritten DEF Undisposed
<1>4. ASSUME NEW x \in Rows(People), x[1] \in Badged, person'[x].life = "active"
      PROVE  person'[x].badge = x[1]
  <2>1. ASSUME NEW w \in p.linked, PersonFor(p, w) = x PROVE FALSE
    <3>1. x[1] \in Logins /\ x[1] \in Workers
      BY <1>1, <1>4, <2>1, CurrentWorkers, ImportAssumption DEF PlanOK
    <3> QED
      BY <3>1, CollectionsAssumption
  <2>2. /\ person'[x].badge = IF x \in NewPersons(p) THEN BadgeOn(x[1]) ELSE person[x].badge
        /\ x \notin NewPersons(p) => person[x].life = "active"
    BY <1>1, <1>2, <1>4, <2>1, PersonsWritten
  <2> QED
    BY <1>4, <2>2 DEF Undisposed, BadgeOn
<1>5. ASSUME NEW y \in Rows(Records), record'[y].is = "open"
      PROVE  record'[y].person # None /\ person'[record'[y].person].badge = WorkerOf[y[1]]
  <2> DEFINE w == WorkerOf[y[1]]
  <2>1. y[1] \in Records /\ w \in Badged /\ w \in Workers
    BY RowIn, ImportAssumption
  <2> HIDE DEF w
  <2>2. CASE y \in NewRecords(p)
    <3>1. record'[y].person = PersonFor(p, w)
      BY <1>1, <1>2, <2>2, RecordsWritten DEF w
    <3>2. PersonFor(p, w) # None
      BY <1>1, <2>1, CurrentWorkers, NoneNoRow
    <3>3. person'[PersonFor(p, w)].badge = w
      BY <1>1, <1>2, <2>1, BadgeGiven
    <3> QED
      BY <3>1, <3>2, <3>3 DEF w
  <2>3. CASE y \notin NewRecords(p)
    <3>1. record'[y] = record[y] /\ y \in DOMAIN record
      BY <1>1, <1>2, <2>3, RecordsWritten DEF TypeOK
    <3>2. record[y].person # None /\ person[record[y].person].badge = w
      BY <1>5, <3>1 DEF Undisposed, w
    <3>3. record[y].person \in Rows(People)
      BY <1>1, <3>1, <3>2 DEF TypeOK, Record, People
    <3>4. HasBadge(record[y].person, w)
      BY <1>1, <3>1, <3>2, <3>3 DEF HasBadge, TypeOK, Kept, Undisposed
    <3>5. HasBadgeAfter(p, record[y].person, w)
      BY <1>1, <2>1, <3>3, <3>4, BadgeKept
    <3> QED
      BY <1>2, <3>1, <3>2, <3>5 DEF HasBadgeAfter, w
  <2> QED
    BY <2>2, <2>3
<1> QED
  BY <1>3, <1>4, <1>5 DEF Undisposed

\* Nor does a step of the application that is not counted as a disposal.
LEMMA MeanwhileUndisposed ==
  ASSUME Inv, Undisposed, Meanwhile, disposals = 0, disposals' = 0
  PROVE  Undisposed'
<1>1. /\ TypeOK
      /\ record \in [Rows(Records) \cup {<<Own, 1>>} -> Record]
      /\ person \in [Rows(People) -> [life : Life, badge : Badged \cup {Other}]]
  BY InvIsParts DEF TypeOK, People
<1>2. <<Own, 1>> \notin Rows(Records)
  BY RowIn, ImportAssumption
<1>3. ASSUME NEW x \in Rows(Tools), NEW q \in DOMAIN person, Lend(x, q) PROVE Undisposed'
  <2>1. \A y \in Rows(Records) : record'[y] = record[y]
    BY <1>1, <1>2, <1>3 DEF Lend
  <2>2. person' = person
    BY <1>3 DEF Lend
  <2> QED
    BY <2>1, <2>2 DEF Undisposed
<1>4. ASSUME NEW z \in DOMAIN record, Return(z) PROVE Undisposed'
  <2> DEFINE new == [record[z] EXCEPT !.is = "closed"]
  <2>1. record' = [record EXCEPT ![z] = new] /\ person' = person
    BY <1>4 DEF Return
  <2>2. new.is = "closed"
    BY <1>1 DEF Record
  <2> HIDE DEF new
  <2>3. \A y \in Rows(Records) : record'[y].is = "open" => record'[y] = record[y]
    BY <1>1, <2>1, <2>2
  <2> QED
    BY <2>1, <2>3 DEF Undisposed
<1>5. ASSUME NEW x \in Rows(Things), TrashThing(x) \/ RestoreThing(x) PROVE Undisposed'
  BY <1>5 DEF Undisposed, TrashThing, RestoreThing, Elsewhere
<1>6. ASSUME NEW x \in Rows(Things), PurgeThing(x) PROVE Undisposed'
  <2> DEFINE New(y) == IF record[y].thing = x THEN [record[y] EXCEPT !.thing = None] ELSE record[y]
  <2>1. record' = [y \in DOMAIN record |-> New(y)] /\ person' = person
    BY <1>6 DEF PurgeThing, Elsewhere
  <2>2. \A y \in DOMAIN record : New(y).is = record[y].is /\ New(y).person = record[y].person
    BY <1>1 DEF Record
  <2> HIDE DEF New
  <2>3. \A y \in Rows(Records) : /\ record'[y].is = record[y].is
                                 /\ record'[y].person = record[y].person
    BY <1>1, <2>1, <2>2
  <2> QED
    BY <2>1, <2>3 DEF Undisposed
<1>7. ASSUME NEW q \in DOMAIN person, TrashPerson(q) \/ Rebadge(q) PROVE FALSE
  BY <1>7 DEF TrashPerson, Rebadge, Dispose
<1>8. ASSUME NEW q \in DOMAIN person, RestorePerson(q) \/ PurgePerson(q) PROVE FALSE
  <2>1. person[q].life = "trash" /\ q \in Rows(People)
    BY <1>1, <1>8 DEF RestorePerson, PurgePerson
  <2> QED
    BY <2>1 DEF Undisposed
<1>9. ASSUME NEW r \in Records, SourceGrows(r) \/ SourceReturns(r) PROVE Undisposed'
  BY <1>9 DEF Undisposed, SourceGrows, SourceReturns, db
<1>10. ASSUME NEW x \in Rows(Tools), NEW s \in Status, EditStatus(x, s) PROVE Undisposed'
  BY <1>10 DEF Undisposed, EditStatus
<1> QED
  BY <1>3, <1>4, <1>5, <1>6, <1>7, <1>8, <1>9, <1>10 DEF Meanwhile

\* So nobody is disposed of as long as the counter says so.
LEMMA UndisposedStep ==
  ASSUME Inv, Serial, UndisposedSoFar, [HNext]_<<vars, crossed>>
  PROVE  UndisposedSoFar'
<1> SUFFICES ASSUME ~crossed', disposals' = 0 PROVE Undisposed'
  BY DEF UndisposedSoFar
<1>1. CASE UNCHANGED <<vars, crossed>>
  BY <1>1 DEF vars, db, UndisposedSoFar, Undisposed
<1>2. CASE HNext
  <2>1. disposals = 0
    <3>1. disposals \in Nat
      BY DEF Inv, TypeOK
    <3>2. disposals' = disposals \/ disposals' = disposals + 1
      BY <1>2 DEF HNext, Next, ImportRead, ImportCommit, ImportRollsBack, Meanwhile, Lend, Return,
         EditStatus, TrashThing, RestoreThing, PurgeThing, TrashPerson, RestorePerson, PurgePerson,
         Rebadge, SourceGrows, SourceReturns, Dispose
    <3> QED
      BY <3>1, <3>2
  <2>2. Undisposed
    BY <1>2, <2>1, UncrossedStep DEF UndisposedSoFar
  <2>3. ASSUME NEW i \in Imports, ImportCommit(i) PROVE Undisposed'
    <3>1. import[i].kind \in {"cli", "web"} /\ import[i] = Plan(import[i].kind, import[i].says)
      BY <1>2, <2>3, CurrentPlan
    <3>2. Current(import[i], import[i].kind)
      BY <2>3, <3>1 DEF Current, ImportCommit, Inv, PlanOK
    <3> QED
      BY <2>2, <2>3, <3>2, CommitUndisposed
  <2>4. ASSUME NEW i \in Imports, NEW kind \in {"cli", "web"}, NEW says \in [Tools -> OldStatus],
               ImportRead(i, kind, says)
        PROVE  Undisposed'
    BY <2>2, <2>4 DEF ImportRead, db, Undisposed
  <2>5. ASSUME NEW i \in Imports, ImportRollsBack(i) PROVE Undisposed'
    BY <2>2, <2>5 DEF ImportRollsBack, db, Undisposed
  <2> QED
    BY <1>2, <2>1, <2>2, <2>3, <2>4, <2>5, MeanwhileUndisposed DEF HNext, Next
<1> QED
  BY <1>1, <1>2

\* What _migrate_workers and _migrate_lendings look for is what the unique
\* indexes compare: an import that nothing crosses is not rejected, unless
\* something was disposed of or a tool is lent here and in the old system.
THEOREM SerialGoesThroughHolds == HSpec => []SerialGoesThrough
<1>1. HInit => UndisposedSoFar
  BY DEF HInit, Init, NoRecord, UndisposedSoFar, Undisposed, People
<1>2. Inv /\ Serial /\ UndisposedSoFar => SerialGoesThrough
  <2> SUFFICES ASSUME Inv, Serial, UndisposedSoFar, ~crossed, ~(disposals > 0), ~Conflict,
                      NEW i \in InFlight, Room(import[i])
               PROVE  Admits(import[i])
    BY DEF SerialGoesThrough
  <2>1. import[i] = Plan(import[i].kind, import[i].says) /\ PlanOK(import[i])
    BY DEF Serial, Inv, InFlight
  <2>2. Current(import[i], import[i].kind)
    BY <2>1 DEF Current, PlanOK
  <2>3. disposals = 0
    BY DEF Inv, TypeOK
  <2> QED
    BY <2>2, <2>3, CurrentAdmitted DEF UndisposedSoFar
<1> QED
  BY <1>1, <1>2, UndisposedStep, TypeCorrect, SerialHolds, PTL DEF HSpec

-----------------------------------------------------------------------------
(* A second one changes nothing.                                             *)

\* An import of this kind finds everything.
Done(kind) ==
  /\ \A d \in Things : ThingRow(d) # None
  /\ kind = "cli" => \A l \in Logins : LoginRow(l) # None
  /\ \A w \in Badged : WorkerRow(w, kind) # None /\ person[WorkerRow(w, kind)].badge = w
  /\ \A w \in Workers \ Badged :
       kind = "cli" /\ LoginOf[w] # None => person[LoginRow(LoginOf[w])].badge = Other
  /\ \A r \in source.known : ~IsNew(r, kind)

\* A row of a person stays as it is if every linked worker brings the badge it has.
LEMMA UnchangedPerson ==
  ASSUME TypeOK, NEW p, NEW q \in Rows(People), q \notin NewPersons(p),
         \A w \in p.linked : PersonFor(p, w) = q => BadgeOn(w) = person[q].badge
  PROVE  PersonsAfter(p)[q] = person[q]
<1> DEFINE Given == {w \in p.linked : PersonFor(p, w) = q}
<1>1. /\ DOMAIN person = Rows(People)
      /\ person[q] \in [life : Life, badge : Badged \cup {Other}]
  BY DEF TypeOK, People
<1>2. PersonsAfter(p)[q] =
        [life  |-> person[q].life,
         badge |-> IF Given # {} THEN BadgeOn(CHOOSE w \in Given : TRUE) ELSE person[q].badge]
  BY <1>1 DEF PersonsAfter
<1>3. Given # {} => (CHOOSE w \in Given : TRUE) \in Given
  OBVIOUS
<1>4. (IF Given # {} THEN BadgeOn(CHOOSE w \in Given : TRUE) ELSE person[q].badge) = person[q].badge
  BY <1>3
<1> QED
  BY <1>1, <1>2, <1>4

\* An import of this kind has nothing to do, whatever the old system says of the tools.
NothingToDo(kind) == \A p \in {Plan(kind, says) : says \in [Tools -> OldStatus]} : Quiet(p)

\* When all is done, so it is.
LEMMA DoneIsQuiet == \A kind \in {"cli", "web"} : Inv /\ Done(kind) => NothingToDo(kind)
<1> SUFFICES ASSUME NEW kind \in {"cli", "web"}, Inv, Done(kind), NEW says \in [Tools -> OldStatus]
             PROVE  Quiet(Plan(kind, says))
  BY DEF NothingToDo
<1> DEFINE p == Plan(kind, says)
<1>1. /\ p.things = [d \in Things |-> ThingRow(d)]
      /\ p.logins = [l \in Logins |-> IF kind = "cli" THEN LoginRow(l) ELSE None]
      /\ p.workers = [w \in Workers |-> WorkerRow(w, kind)]
      /\ p.linked = {w \in Workers : Linked(w, kind)}
      /\ p.records = {r \in source.known : IsNew(r, kind)}
  BY DEF Plan
<1>2. p.kind = kind /\ TypeOK /\ Sound
  BY PlanIsOK, InvIsParts
<1> HIDE DEF p
<1>3. NewThings(p) = {}
  <2>1. ASSUME NEW d \in Things PROVE ThingFor(p, d) \in UsedThings
    <3>1. ThingFor(p, d) = ThingRow(d) /\ ThingRow(d) # None
      BY <1>1 DEF ThingFor, Done
    <3>2. ThingRow(d) \in Rows(Things) /\ thing[ThingRow(d)] = "active"
      BY <1>2, <3>1, ThingFound
    <3> QED
      BY <1>2, <3>1, <3>2 DEF UsedThings, TypeOK
  <2> QED
    BY <2>1 DEF NewThings
<1>4. p.records = {}
  BY <1>1 DEF Done
<1>5. ASSUME kind = "cli", NEW l \in Logins
      PROVE  LoginFor(p, l) = LoginRow(l) /\ LoginFor(p, l) \in UsedPersons
  <2>1. LoginFor(p, l) = LoginRow(l) /\ LoginRow(l) # None
    BY <1>1, <1>5 DEF LoginFor, Done
  <2>2. LoginRow(l) \in Rows(People) /\ person[LoginRow(l)].life \in Kept
    BY <1>2, <2>1, LoginFound DEF Rows, People
  <2> QED
    BY <1>2, <2>1, <2>2 DEF UsedPersons, TypeOK, People, Kept
<1>6. ASSUME NEW w \in p.linked
      PROVE  /\ kind = "cli" /\ LoginOf[w] \in Logins /\ w \in Workers
             /\ PersonFor(p, w) = LoginRow(LoginOf[w]) /\ PersonFor(p, w) \in UsedPersons
             /\ BadgeOn(w) = person[PersonFor(p, w)].badge
  <2>1. w \in Workers /\ kind = "cli" /\ LoginOf[w] \in Logins /\ Linked(w, kind)
    BY <1>1, ImportAssumption DEF Linked
  <2>2. PersonFor(p, w) = LoginRow(LoginOf[w]) /\ PersonFor(p, w) \in UsedPersons
    BY <1>5, <2>1 DEF PersonFor
  <2>3. BadgeOn(w) = person[PersonFor(p, w)].badge
    <3>1. CASE w \in Badged
      <4>1. WorkerRow(w, kind) = LoginRow(LoginOf[w])
        BY <2>1 DEF WorkerRow
      <4> QED
        BY <2>2, <3>1, <4>1 DEF Done, BadgeOn
    <3>2. CASE w \notin Badged
      <4>1. LoginOf[w] # None
        BY <2>1, ImportAssumption
      <4> QED
        BY <2>1, <2>2, <3>2, <4>1 DEF Done, BadgeOn
    <3> QED
      BY <3>1, <3>2
  <2> QED
    BY <2>1, <2>2, <2>3
<1>7. ASSUME NEW q \in Rows(Badged \cup Logins) PROVE PersonsAfter(p)[q] = person[q]
  <2>1. q[1] \in Badged \cup Logins /\ q \in Rows(People)
    <3>1. Badged \cup Logins \subseteq People
      BY ImportAssumption DEF People
    <3> QED
      BY <3>1, RowIn DEF Rows
  <2>2. ASSUME NEW w \in Workers, w \notin p.linked, PersonFor(p, w) = q PROVE q \in UsedPersons
    <3>1. CASE w \in Badged
      <4>1. WorkerRow(w, kind) = BadgeRow(w) /\ WorkerRow(w, kind) # None
        BY <1>1, <2>2, <3>1 DEF WorkerRow, Done
      <4>2. q = BadgeRow(w)
        BY <1>1, <2>2, <4>1 DEF PersonFor
      <4>3. person[q].life = "active"
        BY <1>2, <3>1, <4>1, <4>2, BadgeFound DEF HasBadge
      <4> QED
        BY <1>2, <2>1, <4>3 DEF UsedPersons, TypeOK, People
    <3>2. CASE w \notin Badged
      <4>1. WorkerRow(w, kind) = None
        BY <1>1, <2>2, <3>2 DEF WorkerRow
      <4>2. q = Unused(w, UsedPersons)
        BY <1>1, <2>2, <4>1 DEF PersonFor
      <4>3. q[1] = w
        <5>1. <<w, 0>> \notin UsedPersons
          BY <1>2, UsedRows
        <5> QED
          BY <4>2, <5>1, UnusedRow
      <4> QED
        BY <2>1, <3>2, <4>3, CollectionsAssumption
    <3> QED
      BY <3>1, <3>2
  <2>3. q \notin NewPersons(p)
    BY <1>2, <1>5, <1>6, <2>2 DEF NewPersons
  <2> QED
    BY <1>2, <1>6, <2>1, <2>3, UnchangedPerson
<1> QED
  BY <1>3, <1>4, <1>7 DEF Quiet, p

\* ThingFound, LoginFound and BadgeFound in one formula.
LEMMA RowsFound ==
  Sound => /\ \A d \in Things : \A x \in Rows(Things) :
                x[1] = d /\ thing[x] = "active" => ThingRow(d) = x
           /\ \A l \in Logins : \A x \in Rows(Logins) :
                x[1] = l /\ person[x].life \in Kept => LoginRow(l) = x
           /\ \A w \in Badged :
                /\ BadgeRow(w) # None => BadgeRow(w) \in Rows(People) /\ HasBadge(BadgeRow(w), w)
                /\ \A x \in Rows(People) : HasBadge(x, w) => BadgeRow(w) = x
BY ThingFound, LoginFound, BadgeFound

\* The commit of an import whose reads are still so does all of it.
LEMMA CommitDone ==
  ASSUME NEW i \in Imports, NEW kind, Current(import[i], kind), ImportCommit(i)
  PROVE  Done(kind)'
<1> DEFINE p == import[i]
<1>1. Current(p, kind) /\ TypeOK /\ Sound /\ PlanOK(p) /\ Room(p) /\ p.kind = kind
  BY CurrentIs
<1>2. /\ thing' = ThingsAfter(p) /\ person' = PersonsAfter(p) /\ record' = RecordsAfter(p)
      /\ source' = source
  BY DEF ImportCommit
<1>3. Inv'
  BY CommitInv DEF Current
<1>4. Sound'
  BY <1>3 DEF Inv, Sound
<1>5. (Sound => /\ \A d \in Things : \A x \in Rows(Things) :
                     x[1] = d /\ thing[x] = "active" => ThingRow(d) = x
                /\ \A l \in Logins : \A x \in Rows(Logins) :
                     x[1] = l /\ person[x].life \in Kept => LoginRow(l) = x
                /\ \A w \in Badged :
                     /\ BadgeRow(w) # None => BadgeRow(w) \in Rows(People) /\ HasBadge(BadgeRow(w), w)
                     /\ \A x \in Rows(People) : HasBadge(x, w) => BadgeRow(w) = x)'
  BY RowsFound, PTL
<1> HIDE DEF p
<1>6. ASSUME NEW d \in Things PROVE ThingRow(d)' = ThingFor(p, d) /\ ThingRow(d)' # None
  <2>1. ThingFor(p, d) \in Rows(Things) /\ ThingFor(p, d)[1] = d /\ thing'[ThingFor(p, d)] = "active"
    BY <1>1, <1>2, ThingsWritten, CurrentThings
  <2> QED
    BY <1>4, <1>5, <2>1, NoneNoRow
<1>7. ASSUME kind = "cli", NEW l \in Logins PROVE LoginRow(l)' = LoginFor(p, l) /\ LoginRow(l)' # None
  <2>1. /\ LoginFor(p, l) \in Rows(Logins) /\ LoginFor(p, l)[1] = l
        /\ person'[LoginFor(p, l)].life \in Kept
    BY <1>1, <1>2, <1>7, CurrentLogins
  <2> QED
    BY <1>4, <1>5, <2>1, NoneNoRow
<1>8. ASSUME NEW w \in Badged
      PROVE  /\ WorkerRow(w, kind)' = PersonFor(p, w) /\ WorkerRow(w, kind)' # None
             /\ person'[PersonFor(p, w)].badge = w
  <2> DEFINE x == PersonFor(p, w)
  <2>1. w \in Workers /\ x \in Rows(People) /\ person'[x].life \in Kept /\ person'[x].badge = w
    BY <1>1, <1>2, <1>8, CurrentWorkers, BadgeGiven, ImportAssumption
  <2>2. CASE person'[x].life = "active"
    <3>1. BadgeRow(w)' = x
      BY <1>4, <1>5, <2>1, <2>2 DEF HasBadge
    <3>2. x # None
      BY <2>1, NoneNoRow
    <3>3. ~Linked(w, kind)'
      BY <1>8, <3>1, <3>2 DEF Linked
    <3> QED
      BY <1>8, <2>1, <3>1, <3>2, <3>3 DEF WorkerRow
  <2>3. CASE person'[x].life # "active"
    <3>1. BadgeRow(w)' = None
      <4> SUFFICES ASSUME BadgeRow(w)' # None PROVE FALSE
        OBVIOUS
      <4>1. BadgeRow(w)' \in Rows(People) /\ HasBadgeAfter(p, BadgeRow(w)', w)
        BY <1>2, <1>4, <1>5 DEF HasBadge, HasBadgeAfter
      <4>2. BadgeRow(w)' = x
        BY <1>1, <4>1, BadgeFrom
      <4> QED
        BY <1>2, <2>3, <4>1, <4>2 DEF HasBadgeAfter
    <3>2. w \in p.linked
      <4>1. x \in NewPersons(p) => person'[x].life = "active"
        BY <1>1, <1>2, <2>1, PersonsWritten
      <4>2. HasBadge(x, w) => person'[x].life = "active"
        BY <1>1, <1>2, <2>1, BadgeKept DEF HasBadgeAfter
      <4> QED
        BY <1>1, <2>1, <2>3, <4>1, <4>2, CurrentWorkers
    <3>3. kind = "cli" /\ LoginOf[w] \in Logins /\ x = LoginFor(p, LoginOf[w])
      BY <1>1, <2>1, <3>2, CurrentWorkers
    <3>4. LoginRow(LoginOf[w])' = x /\ x # None
      BY <1>7, <3>3
    <3>5. Linked(w, kind)'
      BY <3>1, <3>3, ImportAssumption DEF Linked
    <3> QED
      BY <2>1, <3>4, <3>5 DEF WorkerRow
  <2> QED
    BY <2>2, <2>3
<1>9. ASSUME NEW w \in Workers \ Badged, kind = "cli", LoginOf[w] # None
      PROVE  person'[LoginRow(LoginOf[w])'].badge = Other
  <2>1. Linked(w, kind) /\ LoginOf[w] \in Logins
    BY <1>9, ImportAssumption DEF Linked
  <2>2. w \in p.linked
    BY <1>1, <2>1, CurrentIs
  <2>3. PersonFor(p, w) = LoginFor(p, LoginOf[w])
    BY <1>1, <2>2, CurrentWorkers
  <2>4. person'[PersonFor(p, w)].badge = Other
    BY <1>1, <1>2, <1>9, <2>2, PersonsWritten DEF BadgeOn
  <2> QED
    BY <1>7, <1>9, <2>1, <2>3, <2>4
<1>10. ASSUME NEW r \in source.known PROVE ~IsNew(r, kind)'
  <2> DEFINE d == ThingOf[r]
             w == WorkerOf[r]
  <2>1. r \in Records /\ d \in Things /\ w \in Badged /\ w \in Workers
    BY <1>1, ImportAssumption DEF TypeOK
  <2> HIDE DEF d, w
  <2>2. ThingRow(d)' = ThingFor(p, d) /\ ThingRow(d)' # None
    BY <1>6, <2>1
  <2>3. WorkerRow(w, kind)' = PersonFor(p, w) /\ WorkerRow(w, kind)' # None
    BY <1>8, <2>1
  <2> SUFFICES ASSUME TRUE
               PROVE  \E y \in Rows({r}) :
                        /\ record'[y].is # "absent"
                        /\ record'[y].thing = ThingFor(p, d) /\ record'[y].person = PersonFor(p, w)
    BY <2>2, <2>3 DEF IsNew, d, w
  <2>4. CASE r \in p.records
    <3>1. PICK y \in NewRecords(p) : y \in Rows({r})
      BY <1>1, <2>4, RecordsWritten
    <3>2. y[1] = r
      BY <2>1, <3>1, RowsOf
    <3> QED
      BY <1>1, <1>2, <3>1, <3>2, RecordsWritten DEF d, w
  <2>5. CASE r \notin p.records
    <3>1. ~IsNew(r, kind)
      BY <1>1, <2>5, CurrentIs
    <3>2. PICK y \in Rows({r}) : /\ record[y].is # "absent"
                                 /\ None \notin {record[y].thing, record[y].person}
                                 /\ record[y].thing = ThingRow(d)
                                 /\ record[y].person = WorkerRow(w, kind)
      BY <3>1 DEF IsNew, d, w
    <3>3. y \in DOMAIN record /\ y \notin NewRecords(p)
      <4>1. y \in Rows(Records)
        BY <2>1, RowsOf
      <4>2. y \notin NewRecords(p)
        BY <1>1, <3>2, RecordsWritten
      <4> QED
        BY <1>1, <4>1, <4>2 DEF TypeOK
    <3>4. record'[y] = record[y]
      BY <1>1, <1>2, <3>3, RecordsWritten
    <3>5. ThingFor(p, d) = ThingRow(d)
      BY <1>1, <2>1, <3>2, CurrentIs, ThingsWritten
    <3>6. PersonFor(p, w) = WorkerRow(w, kind)
      <4>1. CASE w \in p.linked
        <5>1. /\ kind = "cli" /\ LoginOf[w] \in Logins
              /\ PersonFor(p, w) = LoginFor(p, LoginOf[w])
          BY <1>1, <2>1, <4>1, CurrentWorkers
        <5>2. WorkerRow(w, kind) = LoginRow(LoginOf[w])
          BY <1>1, <2>1, <4>1, CurrentIs DEF WorkerRow
        <5> QED
          BY <1>1, <3>2, <5>1, <5>2, CurrentLogins
      <4>2. CASE w \notin p.linked
        BY <1>1, <2>1, <3>2, <4>2, CurrentIs, PersonWritten
      <4> QED
        BY <4>1, <4>2
    <3> QED
      BY <3>2, <3>4, <3>5, <3>6
  <2> QED
    BY <2>4, <2>5
<1> QED
  BY <1>2, <1>6, <1>7, <1>8, <1>9, <1>10 DEF Done

\* migrate_from_mongodb.py: "mehrfaches Ausfuehren mit --apply legt nichts
\* doppelt an".
THEOREM SecondChangesNothingHolds == HSpec => SecondChangesNothing
<1>1. (\A kind \in {"cli", "web"} : Inv /\ Done(kind) => NothingToDo(kind))'
  BY DoneIsQuiet, PTL
<1>2. Inv /\ Serial /\ Inv' /\ [HNext]_<<vars, crossed>> =>
        [\A i \in Imports, kind \in {"cli", "web"} :
           ~crossed /\ import[i].kind = kind /\ ImportCommit(i)
             => (\A p \in {Plan(kind, says) : says \in [Tools -> OldStatus]} : Quiet(p))'
        ]_<<vars, crossed>>
  <2> SUFFICES ASSUME Inv, Serial, Inv', HNext,
                      NEW i \in Imports, NEW kind \in {"cli", "web"},
                      ImportCommit(i), ~crossed, import[i].kind = kind
               PROVE  NothingToDo(kind)'
    BY DEF NothingToDo
  <2>1. ~crossed'
    <3>1. i \in InFlight /\ i \notin InFlight'
      BY DEF ImportCommit, InFlight, Inv, TypeOK
    <3> QED
      BY <3>1 DEF HNext
  <2>2. Current(import[i], kind)
    BY <2>1, CurrentPlan DEF Current, ImportCommit, Inv, PlanOK
  <2>3. Done(kind)'
    BY <2>2, CommitDone
  <2> QED
    BY <1>1, <2>3
<1> QED
  BY <1>2, TypeCorrect, SerialHolds, PTL DEF HSpec, SecondChangesNothing
=============================================================================
