# A verification project for scandy-lite

scandy-lite is a small web application that manages what a workshop lends:
items (tools, devices) that go out and come back, consumables that are used up,
the people who take them, and the accounts and departments around them. It is
an asynchronous FastAPI program over PostgreSQL. This directory holds TLA+
modules of its state-changing parts, the TLC configurations that check them, and
proofs about all of them: every property that the passing runs check, liveness
excepted, is a theorem for any values of the constants.

## How the program runs, and what that means for a model

* Every request has one database session (`app/core/database.py`) under READ
  COMMITTED. A handler loads rows, awaits further queries, and commits. Between
  two awaits other requests run: in the same event loop, and, on the native
  installation, in the second systemd service `scandy-lite-https`, which shares
  the database and the checkout.
* So a handler is two or three actions: its reads (what it has read is kept in
  the record of the request and may be stale when it is used) and its commit.
  A commit is atomic. It happens if the constraints of the schema admit it;
  otherwise the request rolls back (`Abort`, which also stands for clients that
  go away and processes that die).
* An UPDATE of the ORM writes only the columns whose value differs from the one
  that was loaded, which several races turn on; an UPDATE of a row that is gone
  fails. Deleting an object NULLs the foreign keys of the collections that the
  models declare as relationships, and violates the foreign keys of the others.
* Where a handler takes a row lock before its commit (the conditional UPDATE of
  the stock, a flush forced by a later query) the lock is in the model.

## Inventory

| Part | State | Operations | What is hard |
|---|---|---|---|
| Lending desk (`scan.py`, `pickup.py`, `reservations.py`, `items.py`) | items, lendings, reservations | lend, return, reserve, cancel, hand out several reservations, create, edit, delete | check-then-commit of overlapping requests; the status column beside the ledger |
| Consumables (`consumables.py`, `scan.py`, `reservations.py`) | stock, usages, reservations | withdraw, adjust, reserve, cancel, edit, trash, restore, purge | lost updates, reservations used up twice |
| Trash (`core/trash.py`, `admin_trash.py`, `admin_departments.py`) | `deleted_at`, all tables | restore, purge of items, users, departments, with and without force | a purge plans over many rows before it commits |
| Accounts (`admin_users.py`, `admin_pending_accounts.py`, `oidc.py`, `core/deps.py`, `core/access.py`) | users, roles, departments, cookies | create, toggle, edit, delete, approve, reject, SSO login | stale rows of caller and target, the last administrator |
| Login limiter (`auth.py`) | two in-memory windows | login, forgot password | await between test and registration |
| Password reset (`core/password_reset.py`, `auth.py`) | tokens, mailbox | ask, mail, resolve, spend | await between test and use of a token |
| Self update (`core/self_update.py`, `admin_update.py`, the systemd units) | checkout, packages, schema, lock file, running code | check, update, scheduled restart | two services, kills, restarts, failing steps |
| Barcodes (`core/barcodes.py`) | codes of items and consumables | create, edit, restore | two tables, no constraint across them |
| Presets and custom fields (`core/custom_fields.py`, `admin_presets.py`) | categories, locations, fields, values | create, delete, save values | blockers read before the commit |
| Low-stock mail (`core/low_stock.py`, `core/email.py`, the lifespan of `main.py`) | a sleeping task in every process | one check a day, mails | a naive clock, starts and stops, parts that fail |
| Legacy import (`migrations_legacy/`, `core/scandy2_import.py`, `admin_import.py`) | items, consumables, users and their records; the old system | import a backup or a MongoDB | repeated while both systems go on |
| Cart (`cart.js`, `cart.html`, `form-guard.js`, `cart_submit`) | the localStorage of a browser, the pages of its tabs | put in, take out, show, submit | stale pages, a form sent twice, failures in the middle of the loop |
| Lists, pages, uploads, rendering, camera, installation and backup | none, or files | read, render | (not modelled) |

The parts meet in the tables: the desk reads workers and departments that the
account administration changes, the trash removes rows under all of them, an
account that is purged takes roles, lendings and reset tokens with it (or is kept
by them). The modules follow these lines: each component keeps the tables it
writes and a small image of those it only reads.

What makes each part correct: an item is with one person at a time and its
status says so; a reservation is honoured and ends once; the stock balances with
its log; history never points to what is gone and what is open never loses its
parties; nobody enters without approval and somebody can always administrate; a
link changes a password once; an update never goes backwards, runs alone, and
leaves no lock; a mail about low stock comes every day and once; an import can be
repeated; a cart is reserved once and its owner told about every entry.

## The modules

| Module | Models | Extends or composes |
|---|---|---|
| `ItemLedger` | the promise of the desk whatever overlaps: an item is handed out only while nobody has it | |
| `ClaimLedger` | the promise of the desk without overlap: claims are honoured | |
| `LendingDesk` | the handlers of the desk over items, lendings, reservations and workers | implements both ledgers |
| `TrashDesk` | restore and purge of items, users, departments | extends `LendingDesk`; both interleave |
| `ConsumableStock` | consumables with their usages, reservations and trash | |
| `Accounts` | users, roles, departments, SSO | |
| `LoginLimiter` | both rate limits | |
| `LowStock` | the loop of the daily mail | |
| `AppProcess` | what lives and dies with a process: the limits and the loop | extends `LoginLimiter` and `LowStock` |
| `PasswordReset` | tokens and passwords | |
| `SelfUpdate` | update and check of two services | |
| `Inventory` | the forms of items and consumables with barcodes, trash, categories, custom fields and values | |
| `LegacyImport` | imports between the operations of the application and of the old system | |
| `Cart` | browsers, tabs and the submission of the cart | |
| `MC...` | instances for TLC, and the properties that need a history variable | extend their components; `MCTrashDesk` also `MCLendingDesk` |
| `Desk_proofs`, `ConsumableStock_proofs`, `Accounts_proofs`, `Process_proofs`, `SelfUpdate_proofs`, `Inventory_proofs`, `LegacyImport_proofs`, `Cart_proofs` | theorems | extend the `MC` module of their component, so that its history properties are proved too: `Desk_proofs` extends `MCTrashDesk` and is about the desk alone and with the trash, `Process_proofs` extends `AppProcess` and `MCPasswordReset`; `Cart_proofs` extends `Cart`, which has no history |

State and actions correspond to the code as follows. A table is a function from
row identities to records; "absent", "unused" and "purged" are identities that
have no row. `requests[r]` is what the handler in slot `r` has in its local
variables and its session. Actions are named for the handler and the stretch of
it they stand for: `LendCheck` is `scan_lend` up to its last query, `LendCommit`
the rest. Names of people and things, times, photos and messages are abstracted;
timestamps are kept as set or not set. `PROJECT.json` maps every definition to
its lines.

Some reductions need a word.

* `LendingDesk` models `cancel_reservation` and `pickup_remove` as one load and
  one commit, since they write the same column of the same row.
* `pickup_confirm` skips what is no longer available and hands out the rest in
  one transaction: `PickupLoad` chooses, `PickupCommit` is all or nothing.
* A purge reads its blockers and everything that points to its row in one step
  (`PurgePlan`) and commits in another. The reads themselves could interleave
  with others; what matters is that something commits between plan and commit.
* `ConsumableStock` sums the open reservations of a consumable as the number of
  their units (`ReservedUnits`), pairs of a reservation and one of its pieces.
* `Accounts` reduces the desk to "has an open lending", `PasswordReset` reduces
  an account to what links depend on.
* `SelfUpdate` numbers the commits of `master` and models checkout, packages,
  schema and running code by the commit they correspond to. The age of the
  cached check is left out: the only caller forces a new one.
* `Inventory` has one constant for the department and the category name of an
  item, since custom fields are looked up by both. Forms are split at every
  await that matters, the presets and the trash are one action each: what those
  handlers check is what a constraint rejects at their commit. A flushed UPDATE
  of an item keeps its row locked until the commit (`Locked`).
* `LowStock` lets a day have a few hours and a check end within its hour.
  Whatever a mail needs is one of two parts, which work or not: the database,
  without which the check fails with an exception, and the mail server with its
  settings, without which `send_email` returns False.
* `LegacyImport` takes a document and its code (barcode, badge, name, or for a
  record its thing, worker and time) for the same: rows are found by the code again.
  `Unfit` are the statuses that bar an item but are not "ausgeliehen"; what the old
  system says of its tools is read anew by every import, and a form sets any status
  that the application allows (`EditStatus`). One import is its queries
  (`ImportRead`, which decides what is new) and its flushes and commit
  (`ImportCommit`, which applies it to the tables of that moment under the
  constraints). The operations of the application are one step each here, their
  interleavings are in the other modules. A new row is any that is not used
  (`Unused`), since the identities are random. Departments and presets, which are
  found by name, and documents without a code, a date or a department, which are
  skipped, are left out. A preview writes nothing.
* `Cart` gives an entry of a consumable one unit. Its items are lent and returned,
  its items and consumables deleted and restored by anybody (`Elsewise`; to a
  customer who may not see it an entry is as good as deleted), its reservations
  only accumulate: how they end is in `LendingDesk` and `ConsumableStock`. Whether a
  customer has a badge is open at every submission (`TurnAway`). A page all of whose
  rows were removed can still be sent, and one whose answer is awaited be left. The
  back button of a browser is not modelled.
* `LoginLimiter` counts the entries of a deque that are within its window.

## What the runs check

The `MC` modules add one history variable that says whether requests have ever
overlapped (in `MCTrashDesk`: any two, of the desk or of the trash; `disturbed` in
`MCSelfUpdate`: a kill, updates of both services at once, or an update while a
restart is pending; `crossed` in `MCLegacyImport`: anything between the reads and
the commit of an import; `history` in `MCInventory` also says whether anything was
restored). A property named `Serial...`, `Undisturbed...` or `Unrestored...` holds
as long as the variable says no; one without holds always. That splits each promise
at the line where the code stops keeping it, and one run covers both sides.

| Run | Result | What it shows |
|---|---|---|
| `desk` | pass | one open lending and one open reservation per item, nothing fulfilled without a hand-out, `ItemLedger` implemented, in every interleaving of two requests; without overlap an item that is out shows it, no step but that of a stale form leaves "ausgeliehen" on an item that is not, and `ClaimLedger` is implemented |
| `trash` | pass | no interleaving of a trash request with a desk request leaves a dangling reference, reopens a row or changes its item or worker other than to NULL in its purge; without overlap what is open keeps item and worker, agrees on the department and ends once (`SerialOpenRows`), and shows its status |
| `trash_force` | violation | a forced purge closes lendings and leaves items "ausgeliehen" |
| `stock` | pass | the stock balances with its log, reservations are used up once and by withdrawals; without overlap the open ones are in the department of their consumable and each ends in one way |
| `accounts` | pass | role rows unique and never dangling, and nobody becomes usable or an administrator but by the request of another user; without overlap approved people keep a department and are not rejected, and an administrator remains |
| `process` | pass | over starts and stops: the limit is exceeded by less than the logins in flight, and a lockout ends; a loop mails nobody twice a day unless the clock was set, and once all parts work every administrator is mailed again and again, whatever failed before |
| `reset` | pass | a spent token is used for everybody later; without overlap it pays once and no other link survives |
| `reset_purge` | violation | who was ever mailed a link cannot be purged |
| `update` | pass | nothing goes backwards whatever fails, overlaps or is killed; undisturbed, updates exclude each other, the lock file means an update, only migrated code is loaded, and an update ends and takes its lock along |
| `inventory` | pass | codes are unique per table and no reference dangles in any interleaving; without overlap every scan finds its thing until something is restored, and an item has values only for fields of its category |
| `import` | pass | with nothing between its reads and its commit an import is idempotent whatever happened since the last one, nothing that is lent is offered as available, and it goes through unless something was disposed of or a tool is lent in both systems |
| `cart` | pass | who keeps to one tab and to the guarded button gets no consumable more often than put into the cart, and who keeps to one tab loses no entry that the page did not show; an answer after the loop reports every entry of the form, refusals in its middle included |

### Bounds

Two requests in flight are enough for every race listed above: each involves one
request whose reads are overtaken by another one's commit (three for the reset,
where a mail, a spend and an account change meet). One item and two workers show
competition for an item; that a hand-out of several items is all or nothing is
proved for any number of them (`FulfilledMeansHandedOutHolds`). `inventory` needs
two consumables for the index of a table, an item for the check across tables, and a
code that differs from another by a space. Two lendings and two reservations let a
row end and a second one begin (`desk`, `trash_force`); `trash` has one of each, and
the theorems about what it checks (`NoDanglingReferenceHolds`, `HistoryKept`,
`SerialOpenRowsHolds`, `SerialOutShowsLentHolds`) hold for any number. `Unfit` has one
value there, for no test of the desk or the trash tells a defective item from a
retired one; `import`, which reads both from the old system, has both. Stock up to 3 with steps of 1 allows both bounds to
be hit. A day of three hours has one before, one at and one after the check, and one
change of the clock brings the loop out of step. Two rows for a document show a
second one being made; workers without a badge would use them up with the first two
imports and have none. Two submissions and two tabs make every race of the cart; a
stock of two has room for the second unit that nobody asked for. `MaxCommit` of 1
gives the update an old and a new commit, with checkout, packages, schema and
running code at either. The limiter has two failures and two logins in flight. The
proofs cover all other numbers of whatever a theorem speaks about. Rows are not
reused; a request that needs a new one when all are used can only abort, which any
request can do anyway. `CHECK_DEADLOCK FALSE` is set where every row may end up
deleted and nothing is left to do. Symmetry is used for interchangeable identities
and never in a run with a liveness property.

An edit form submits any status in every run, since it may have been rendered at any
earlier time. What that breaks is named in `SerialStatus`: see the stale form below.

### Fairness

* `AppProcess`: entries leave the window of the limiter because time passes,
  whatever the clients do; the hours pass; and a process that runs goes on with
  its loop, for asyncio wakes a task that has slept long enough and every mail
  has a timeout (`email.py:38`). Nothing is assumed of clients, of starts and
  stops, or of the parts that fail: `Reported` speaks of processes that stay up
  with parts that stay well.
* `SelfUpdate`: every command of an update or check runs under a timeout
  (`_run`), after which it is killed and the step fails, so every request in
  flight goes on. Nothing is assumed of users, pushes, restarts or kills.

The other components have no fairness: their requests may be aborted anywhere
and nothing in them waits for anything.

## What the code does not keep

Found while modelling; those with a run have a counterexample there.

* `scan_return` (`scan.py:195`) writes the status only if it differs from the one it
  loaded before it looked for the lending: overlapping a lending or a second
  return it leaves an item "ausgeliehen" without a lending or the reverse,
  against `models/item.py:7`.
* `trash_force`: `trash.py:282` closes lendings without touching the item.
* `reset_purge`: `trash.py:237` deletes a user whose reset tokens remain.
* A form rendered while an item was out and submitted after it came back sets
  "ausgeliehen" without a lending (`items.py:656`), although nothing overlaps; the
  item can then neither be lent nor returned by scanning. The comment at
  `items.py:607` has lendings as the only source of that status, and the check below
  it covers the other direction only, against `models/item.py:7`. `BringsLentBack` is
  this step, the one exception of `SerialStatus`.
* A reservation may commit for an item that was lent meanwhile
  (`reservations.py:203`), and an item or a consumable may move to another
  department while something is opened with the old one (`items.py:649`,
  `consumables.py:409`).
* `update_item` moves items although `trash.py:83` says that they never move.
* A lending that commits between plan and commit of a purge is detached while it
  is open (`trash.py:288`).
* `_try_reserve_consumable` refuses what exceeds the stock (`reservations.py:237`),
  where its docstring (`:215`) says that it only warns and does not block, and
  `models/consumable_reservation.py:8` that the stock is not held. Overlapping
  reservations exceed it all the same. No property asks for either: the text and the
  code promise different things.
* Two administrators can switch each other off at once (`admin_users.py:125`), and
  the only one can delete the own department, and is purged with it
  (`trash.py:361`). An account that waits for approval, was made an administrator
  and given a password can reject itself. `SerialAdmin` names these exceptions.
* An account that waits for approval can be edited and switched on, and borrow
  (`admin_users.py:252`), or log in with a password that the form gave it, against
  the comment of `admin_pending_accounts.py:80`;
  approving an administrator adds a role row (`admin_pending_accounts.py:67`).
* A rejection overtaken by an approval purges the approved account
  (`admin_pending_accounts.py:85`); an approval into a department that is being
  deleted loses it.
* `trash.py:53` and `:62` compare the code of what is restored with
  one table only, so an item can hide a consumable for good. Two overlapping
  forms can do so too (`items.py:324`). A code with spaces around it is stored as
  typed and never found (`scan.py:68`). A category name with spaces is compared
  as typed and stored without them (`admin_presets.py:35`), so two categories can
  have one name, and which one's fields an item has is up to the database.
* Logins in flight together exceed the limit (`auth.py:88`), by the bound of
  `OverrunBounded`. Two submissions of one link both change the password
  (`auth.py:223`).
* `update_user` gives SSO accounts a password (`admin_users.py:261`).
* The lock file is tested and created in two steps, so two services may update at
  once; a kill leaves it for good; an update begun within two seconds after
  another is cut off by the restart of the first and its unmigrated checkout gets
  loaded (`self_update.py:128`, `:158`). After a failed step the check compares
  checkout and remote and reports no update (`:98`), a stale answer that nothing
  in the code promises to avoid. "Jetzt prüfen" always
  fetches, although the module docstring says once per `CHECK_CACHE_TTL`.

* The native installation runs two processes (`scandy-lite-install.sh:140`, `:162`),
  each with a loop of its own, so every administrator is mailed twice a day
  (`OneMailADay` counts per process). A clock that is put back after the check
  brings a second mail, a restart after the hour of the check skips the day, and
  what failed to be sent is not tried again on that day (`low_stock.py:72` ignores
  the result).
* A collision inside `cart_submit` is rolled back, which expires the item, and the
  next line reads its id for the log (`reservations.py:207`): the request fails, the
  entries before stay reserved, the others are neither tried nor reported, against
  the docstring (`:178`). `Collide` is that case; the cart has been cleared by then.
* Two tabs, or one whose button came back after 15 seconds
  (`form-guard.js:38`), submit a cart twice; items are refused the second time,
  consumables are reserved again. Submitting clears what another tab has put in
  meanwhile, and what was not available (`cart.html:129`).
* A customer without a badge is turned away (`reservations.py:371`) after the page has
  cleared the cart: the answer reports no entry and all of them are gone.
* Legacy import, against "Idempotent: mehrfaches Ausführen mit --apply legt nichts
  doppelt an" (`migrate_from_mongodb.py:11`): a worker without a badge gets a random
  one and a new row with every import (`transform.py:126`), as `Quiet` says. A thing
  that was trashed is made anew with its whole history. Two imports at once, with
  only closed lendings or withdrawals to add, add them twice, since no constraint
  stands behind the check (`migrate_core.py:311`). An item that the old system calls
  defective or retired keeps that status while its open lending is imported
  (`:332`), although the comment there calls the lending the source of truth for the
  status, and `models/item.py:7` has both in step. A lending that is returned in the
  old system after its import stays open here. An imported worker whose row was
  trashed, or who got another badge, makes every further import fail, since the
  name `mitarbeiter-...` is taken for good (`migrate_core.py:198`); so does a tool
  that is lent here and there. `SerialGoesThrough` names these exceptions. The
  preview does not look for known records, so its counts are larger.
* `main.py:75` looks up the address of the proxy once; a proxy that starts later or
  comes back with another address is not trusted, and all its clients share one
  limit.

## Proofs

The theorems hold for every value of the constants that the assumptions admit: any
sets of rows, and any number of requests in flight. Each rests on an inductive
invariant, whose proof has one step per action. Two arguments come back.

* *In every interleaving.* What a handler read may be stale when it commits, so
  the invariant says only what stays true of it: that the rows it will write were
  there, that used rows keep item and worker, that it holds a lock. The rest is
  in the commit, which runs into a constraint or a lock.
* *Without overlap* (`Serial...`, `Undisturbed...`, `Unrestored...`). While
  the history variable says no, one request at most is in flight, and
  what it read is still so at each of its steps. The invariant lists what that is
  and is kept only up to the first overlap.

`Desk_proofs`, about the desk alone:

* `TypeCorrect`: `Spec => []TypeOK`. Inductive by itself, because `TypeOK`
  includes `KnowsItsRows`: a request past a check has the rows that its commit
  will write, so commits stay within the types.
* `OneOpenRowHolds`, from `OneOpenLendingHolds` and `OneOpenReservationHolds`: the
  commits that open a row run into the partial unique index (`AdmitsLending`,
  `AdmitsReservation`), and no other step opens one. `PickupCommit` needs that the
  items of one batch differ, which is what the index demands of its own rows.
* `FulfilledMeansHandedOutHolds`: what a lending request or a pickup is about to
  fulfil are reservations of its item and its worker (`FulfilInv`), although they
  were read steps before, since used rows keep item and worker.
* `Refinement`: `Spec => Ledger!Spec`. Every step maps to `HandOut`, `TakeBack`
  or a stutter; with `OneOpenLending` the holder of an item is well defined.
* `SerialClaimLedgerHolds`: `ClaimLedger` is implemented while nothing overlaps.
  Inductive with `LentShows` (what is out says so) and `Alone`: the
  only request in flight knows status, department, open lending and open
  reservations of its item as they are. So it lends what nobody has, to
  whoever has the claim, and a batch hands out what is still reserved.
* `SerialStatusHolds`: without overlap what is out shows it (`LentShows`), and a step
  that leaves "ausgeliehen" without a lending is that of the stale form above: the
  only request in flight knows the status and the open lending of its item, so a
  return that closes the lending writes the status, and no other commit sets one.
  No status is kept from the forms.

`Desk_proofs`, about the desk and the trash together:

* `NoDanglingReferenceHolds`: whatever a purge planned, what points to its
  rows when it commits is detached or stops it (`ForeignKeysHold`), and a commit
  of the desk needs the rows it points to. Inductive with
  `UnusedPointsNowhere`: a row that is not inserted yet references nothing.
* `HistoryKept`: no step forgets or reopens a row of the history, and the item and the
  worker of a lending or a reservation change only to NULL, in the step that purges
  them.
* `OneOpenRowWithTrash`: the indexes hold for the composition, too.
* `SerialOpenRowsHolds`: without overlap, what is open has its item and worker
  and the department of its item, and ends once. Inductive with `Planned`: a purge
  that is alone closes every open row that points to what it deletes.
* `SerialOutShowsLentHolds`: `LentShows` of the desk survives restores and
  purges, forced ones included. (What `trash_force` refutes is the other direction.)

`ConsumableStock_proofs`:

* `TypeCorrect`: with `LocksOK` and `Knows`. A request between its conditional
  UPDATE and its commit holds the lock of a stock row that is there and takes the
  new amount (`HoldsRow`); hence the stock stays in its bounds.
* `StockBalancesHolds`: a commit that withdraws moves the stock by what it adds to
  the log, and one that corrects by what it books, both under the lock. An edit
  writes no stock, a purge takes the row out of the statement. Withdrawn units
  are counted as a set of pairs: no installed prover can reason about sums over a
  set, which are folds.
* `UsedUpByOneWithdrawalHolds`: a withdrawal looks for its reservation after it has
  got the lock (`FoundOwn`), so no other one can have found the same. The two
  counts of `FulfilledMeansWithdrawn` grow together or one falls behind.
* `SerialReservationsHolds`: what a request has read of its consumable and its
  reservations is still so at its commit (`Current`): a reservation takes the
  department of the moment, an edit that moves a consumable has seen that nothing is
  open, and who ends a reservation has seen it open.

`StockAssumption` makes usages and reservations finite sets, so that they can be
counted.

`Accounts_proofs`:

* `TypeCorrect`: one role row per user and department, and none dangles, because of the
  primary key and the two foreign keys, which the commits run into (`RolesOK`).
* `LetInByAnotherHolds`: every commit that could raise an account is that of a request
  of somebody else about it, or writes no more than the row had (`RowLetsIn`):
  toggling and approving set the column for whom the caller is not, an edit writes
  only what differs from the row it loaded, the first SSO login makes a locked account.
* `SerialAdminHolds`: a toggle, an edit or a deletion that is alone has another
  active administrator beside its target (`Alone`). The two exceptions are in
  the property itself and under the findings.
* `SerialApprovedHolds`: the same `Alone` says that a rejection has seen only unapproved
  accounts and that a department goes with all its members or without any.

`Process_proofs`, about the limiter and the loops:

* `OverrunBoundedHolds` for the limiter alone, `LimiterImplemented`: a process that
  starts, stops and runs its loops implements it (a stop is `Restart`, everything of
  the loops stutters), and from both `OverrunBoundedInProcess`. The number of
  verifications in flight and the entries of the window are bounded together.
* `OneMailADayHolds`: inductive with `Budget`, which sets the checks that may still
  come today aside for every loop: one that sleeps wakes at the hour of the
  check, today or tomorrow, unless the clock was set, and every change of the
  clock pays for one mail more.

`Process_proofs`, about reset links:

* `TypeCorrect`: `TypeOK`, in which a stored token has an existing user and a
  request that changes a password a token of that user. Inductive with
  `Attached`: what a request carries from one await to the next was stored, and
  what is stored keeps its user, since the foreign key refuses the purge.
* `SpentIsUsedHolds`: a token that paid for a password is marked. Inductive with
  `CommitSpends`: a request about to commit has its token among those it will
  mark, unless another one has marked it already.
* `SerialSpendsAllHolds`: without overlap a token pays once, since what
  the request resolved is unused until its commit (`Fresh`), and no other link stays
  valid, since it has seen every unused one of its user (`SeesAll`).

`SelfUpdate_proofs`, for any number of commits, failures and kills:

* `TypeCorrect`: `TypeOK`, which is the order origin, fetched, checkout, then
  packages, schema and processes. Inductive by itself.
* `NeverBackHolds`: each of these moves forward only, from that order.
* `UndisturbedLockHolds` and `UndisturbedLoadHolds` for any services, from `Covered`: one
  update at most is past the test, the lock file is there exactly while it runs its
  commands, a pending restart excludes updates and waits on a migrated checkout.

`Inventory_proofs`:

* `TypeCorrect`: `TypeOK`, in which no reference dangles: a value has its item
  and its field, a field its category. Inductive with `KnowsItsRow`: a form past
  its checks has a row to write or is about to add one; a purge takes the values
  of its item along, the deletion of a field its values.
* `OneCodePerTableHolds`: whatever a form saw, its commit runs into the index
  (`UniqueAmongActive`), and so does a restore; nothing else writes a code or
  makes a row active.
* `UnrestoredScanHolds`: until something overlaps or is restored, no code is on two
  active things of whatever table (`CodesDiffer`), since what the only form has
  found to be free still is (`CodeFree`). A scan looks for a code in the items first.
* `SerialValuesFitHolds`: the fields a form has read are those of the category it
  writes, and the values it deletes all that its item has beside them (`ReadsHold`).

`LegacyImport_proofs`:

* `TypeCorrect`: `HSpec => []Inv`, in every interleaving. `Inv` has the types, the
  constraints of the schema (`Constraints`), that a row has a badge of its own
  document, of the worker linked to its login, or another one (`BadgesOK`), that
  only tools are lent, and in the old system once (`OpenOK`), and that an import in
  flight goes by rows of its documents (`PlanOK`). These rows may be gone by its
  commit: then the constraints reject it, or it writes to rows that still exist. The
  lemmas `ThingsWritten`,
  `PersonsWritten` and `RecordsWritten` say what a commit makes of the tables,
  `RowByRow` what the constraints say row by row.
* `SerialHolds`: as long as nothing crosses an import it is the only one, and what
  it has read is what it would read now (`Serial`). The other three rest on it.
* `SerialStatusHolds`: what has an open lending is not offered as available
  (`LentNotOffered`). The commit of an import takes the available ones among the
  items whose open lendings it adds (`CommitNotOffered`) and leaves the others
  defective or retired; of the operations of the application only a return offers an
  item, whose one open lending it closes, and an edit that has seen none
  (`MeanwhileNotOffered`).
* `SerialGoesThroughHolds`: what the import looks for (`ThingFound`, `LoginFound`,
  `BadgeFound`) is what the indexes compare, so its new rows differ from the kept
  ones (`CodesApartAfter`, `BadgesApartAfter`) whatever happened before. Only for
  the names of people and for open lendings it needs that nothing was disposed of:
  `Undisposed` says that people are there and have the badge of their document.
* `SecondChangesNothingHolds`: after the commit every document has its row, by the
  query that the next import asks (`Done`), and an import that finds all of them
  plans nothing (`DoneIsQuiet`).

`Cart_proofs`, about a cart of any size, any number of tabs and submissions:

* `Invariance`: `Spec => []Inv`, one lemma per action. A careful customer keeps to
  one tab whose button never lapsed; it is enough that this has been so up to now,
  since tabs in use and lapsed buttons only grow (`StillCareful`).
* `OnceEachHolds`: `CountOK` counts, for a careful customer, what was reserved, the
  submissions that may still reserve (`Pending`) and what is in the cart, against how
  often it was put there: adding pays for one, a submission moves it from the cart to
  the loop, the commit spends it, and a refusal drops it. Several submissions may be
  in flight, since a page that waits can be left.
* `NothingUnseenHolds`: nothing is put into the cart while its only tab shows it
  (`ShownOK`), because the buttons that do so are on other pages.
* `EveryEntryReportedHolds`: every entry of a form is to do, about to be committed,
  or reported (`EntriesKept`); the answer after the loop is sent when nothing is left.

The assumptions on constants are those of the modules, which TLC evaluates on the
instances: `None` and other markers are no rows; finite sets where something is
counted (the rows of `ConsumableStock`, the submissions of `Cart`); items and
consumables are rows of two tables; stripping a code twice is stripping it once;
"verfuegbar" and "ausgeliehen" are not among the statuses that bar an item; kills are
the only faults of an update; a day has its hour of the check; the documents of an
import are in collections of their own, and a login belongs to one worker at most; the
marks for where a submission of the cart is are no entries. No theorem has an
assumption of its own.

Only model-checked:

* The liveness properties `LockoutEnds`, `Reported` and `UndisturbedRelease`, and what
  concerns `ENABLED`: out of the reach of the proof system.

## Not modelled

The presets of a department that is deleted, locations, photos, lists, exports,
rendering, the camera, the form of the mail settings, and the scripts for
installation and backup. They hold no state that an interleaving could disturb.

## Plan

1. The presets of a department that is deleted, and locations, in `Inventory`.
2. A refinement of `LegacyImport` that splits its queries and flushes.
3. Larger instances of the runs with liveness properties, which no proof covers.
