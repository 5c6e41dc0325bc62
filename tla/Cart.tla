-------------------------------- MODULE Cart --------------------------------
(***************************************************************************)
(* The cart: entries that a browser keeps in its localStorage (cart.js)    *)
(* for all of its tabs, the page of a tab that shows them (cart.html), and *)
(* cart_submit, which tries to reserve one entry of the submitted form     *)
(* after the other and commits each on its own (routers/reservations.py).  *)
(* Reservations end elsewhere (LendingDesk, ConsumableStock); here they    *)
(* only accumulate.  An entry of a consumable stands for one unit.         *)
(***************************************************************************)
EXTENDS Integers, FiniteSetsExt

CONSTANTS
  Items, Consumables,
  Customers,        \* each with a browser and an account
  Tabs, Owner,      \* the tabs of the browsers, and whose they are
  Requests,         \* slots for submissions in flight
  Stock,            \* of every consumable
  MaxAsked,         \* bound: how often a customer puts a consumable into the cart
  None

Entries == Items \cup Consumables

ASSUME CartAssumption == /\ Items \cap Consumables = {}
                         /\ Owner \in [Tabs -> Customers]
                         /\ IsFiniteSet(Requests)
                         /\ None \notin Requests \cup Customers
                         /\ {"idle", "loop"} \cap Entries = {}
                         /\ Stock \in Nat /\ MaxAsked \in Nat

VARIABLES
  cart,     \* the localStorage of a customer's browser
  page,     \* what a tab shows
  state,    \* "here" (an item: verfuegbar), "out", or "gone" (deleted, invisible)
  taken,    \* items that somebody has reserved
  got,      \* units of a consumable that a customer has reserved
  request,  \* submissions in flight
  asked,    \* how often a customer has put a consumable into the cart
  used,     \* tabs that have touched the cart
  lapsed    \* customers who had a button enabled again before an answer came

client == <<cart, page, asked, used, lapsed>>
server == <<state, taken, got, request>>
vars == <<client, server>>

\* Any other page of the application, and that of a cart with nothing to submit.
Elsewhere == [at |-> "elsewhere", form |-> {}, shown |-> {}, awaits |-> None]

\* The cart page: the entries it has shown, and those among its hidden fields.
CartPage(form, shown) == [at |-> "cart", form |-> form, shown |-> shown, awaits |-> None]

Idle == [at |-> "idle"]

\* Where its loop is (or the entry it is about to commit), what is left, and what is
\* among the succeeded and failed.
Submission == [at : Entries \cup {"loop"}, of : Customers, todo : SUBSET Entries,
               form : SUBSET Entries, reported : SUBSET Entries]

Reserved(k) == MapThenSumSet(LAMBDA c : got[c][k], Customers)

TypeOK ==
  /\ cart \in [Customers -> SUBSET Entries]
  /\ page \in [Tabs -> {Elsewhere} \cup [at : {"cart", "sent"}, form : SUBSET Entries,
                                        shown : SUBSET Entries, awaits : Requests \cup {None}]]
  /\ state \in [Entries -> {"here", "out", "gone"}]
  /\ taken \subseteq Items
  /\ got \in [Customers -> [Consumables -> Nat]]
  /\ request \in [Requests -> {Idle} \cup Submission]
  /\ asked \in [Customers -> [Consumables -> 0 .. MaxAsked]]
  /\ used \subseteq Tabs /\ lapsed \subseteq Customers
  /\ \A t \in Tabs : page[t].form \subseteq page[t].shown

Init == /\ cart = [c \in Customers |-> {}]
        /\ page = [t \in Tabs |-> Elsewhere]
        /\ state = [e \in Entries |-> "here"]
        /\ taken = {}
        /\ got = [c \in Customers |-> [k \in Consumables |-> 0]]
        /\ request = [r \in Requests |-> Idle]
        /\ asked = got
        /\ used = {} /\ lapsed = {}

-----------------------------------------------------------------------------
(* The browser. *)

\* addItem, addConsumable: the button on any page but that of the cart.
Add(t, e) == LET c == Owner[t] IN
  /\ page[t] = Elsewhere
  /\ e \notin cart[c]
  /\ cart' = [cart EXCEPT ![c] = @ \cup {e}]
  /\ IF e \in Items THEN UNCHANGED asked
     ELSE asked[c][e] < MaxAsked /\ asked' = [asked EXCEPT ![c][e] = @ + 1]
  /\ used' = used \cup {t}
  /\ UNCHANGED <<page, lapsed, server>>

\* The same button of an entry that is in the cart.
PutBack(t, e) == LET c == Owner[t] IN
  /\ page[t] = Elsewhere
  /\ e \in cart[c]
  /\ cart' = [cart EXCEPT ![c] = @ \ {e}]
  /\ used' = used \cup {t}
  /\ UNCHANGED <<page, asked, lapsed, server>>

\* "Entfernen" takes an entry out of the cart and its row out of the page.
Remove(t, e) == LET c == Owner[t] IN
  /\ page[t].at = "cart" /\ e \in page[t].shown
  /\ cart' = [cart EXCEPT ![c] = @ \ {e}]
  /\ page' = [page EXCEPT ![t].form = @ \ {e}, ![t].shown = @ \ {e}]
  /\ UNCHANGED <<asked, used, lapsed, server>>

\* An item may be reserved: status and open reservation.
Free(i) == state[i] = "here" /\ i \notin taken

\* The stock covers another one.
Covered(k) == state[k] = "here" /\ Reserved(k) + 1 <= Stock

Available(e) == IF e \in Items THEN Free(e) ELSE Covered(e)

\* Mutant: what is not available has no row in the page.
OpenCart_ShowsAvailable(t) == LET c == Owner[t]
                                  available == {e \in cart[c] : Available(e)} IN
  /\ page' = [page EXCEPT ![t] = IF available = {} THEN Elsewhere
                                  ELSE CartPage(available, available)]
  /\ used' = used \cup {t}
  /\ UNCHANGED <<cart, asked, lapsed, server>>

\* The page is opened: it asks cart_items for the entries, makes those that are
\* available into hidden fields, and takes out of the cart what is gone.  If none
\* is available it shows no rows and no button.
OpenCart(t) == LET c == Owner[t]
                   gone == {e \in cart[c] : state[e] = "gone"}
                   available == {e \in cart[c] : Available(e)} IN
  /\ page' = [page EXCEPT ![t] = IF available = {} THEN Elsewhere
                                  ELSE CartPage(available, cart[c])]
  /\ cart' = [cart EXCEPT ![c] = @ \ gone]
  /\ used' = used \cup {t}
  /\ UNCHANGED <<asked, lapsed, server>>

\* Logging out empties the cart; the other tabs go on showing what they show.
Logout(t) == /\ cart' = [cart EXCEPT ![Owner[t]] = {}]
             /\ page' = [page EXCEPT ![t] = Elsewhere]
             /\ used' = used \cup {t}
             /\ UNCHANGED <<asked, lapsed, server>>

\* Another page is opened, be it that an answer is still to come.
Leave(t) == /\ page[t].at \in {"cart", "sent"}
            /\ page' = [page EXCEPT ![t] = Elsewhere]
            /\ UNCHANGED <<cart, asked, used, lapsed, server>>

\* Mutant: the button is not disabled.
Submit_Unguarded(t, r) == LET c == Owner[t] IN
  /\ page[t].at = "cart"
  /\ request[r] = Idle
  /\ request' = [request EXCEPT ![r] =
       [at |-> "loop", of |-> c, todo |-> page[t].form, form |-> page[t].form,
        reported |-> {}]]
  /\ cart' = [cart EXCEPT ![c] = {}]
  /\ UNCHANGED <<page, asked, used, lapsed, state, taken, got>>

\* The form is sent, be it that all its rows were removed: its button is disabled,
\* and the whole cart is cleared.
Submit(t, r) == LET c == Owner[t] IN
  /\ page[t].at = "cart"
  /\ request[r] = Idle
  /\ request' = [request EXCEPT ![r] =
       [at |-> "loop", of |-> c, todo |-> page[t].form, form |-> page[t].form,
        reported |-> {}]]
  /\ page' = [page EXCEPT ![t].at = "sent", ![t].awaits = r]
  /\ cart' = [cart EXCEPT ![c] = {}]
  /\ UNCHANGED <<asked, used, lapsed, state, taken, got>>

\* form-guard.js: after 15 seconds without a new page the button is back, and so
\* is the form.
GuardLapses(t) == /\ page[t].at = "sent"
                  /\ page' = [page EXCEPT ![t].at = "cart", ![t].awaits = None]
                  /\ lapsed' = lapsed \cup {Owner[t]}
                  /\ UNCHANGED <<cart, asked, used, server>>

-----------------------------------------------------------------------------
(* The server. *)

\* Whatever tab still waits for this submission gets a new page.
Answered(r) == page' = [t \in Tabs |-> IF page[t].awaits = r THEN Elsewhere ELSE page[t]]

\* The loops take items first.
Turn(r, e) == /\ request[r].at = "loop"
              /\ e \in request[r].todo
              /\ e \in Consumables => request[r].todo \cap Items = {}

\* Mutant: the first refusal ends the loop.
Refuse_Ends(r, e) == /\ Turn(r, e) /\ ~Available(e)
                     /\ request' = [request EXCEPT ![r].todo = {}, ![r].reported = @ \cup {e}]
                     /\ UNCHANGED <<client, state, taken, got>>

\* _try_reserve_item, _try_reserve_consumable: not available (any more).
Refuse(r, e) == /\ Turn(r, e) /\ ~Available(e)
                /\ request' = [request EXCEPT ![r].todo = @ \ {e}, ![r].reported = @ \cup {e}]
                /\ UNCHANGED <<client, state, taken, got>>

\* ... or available, as far as it has read.
Check(r, e) == /\ Turn(r, e) /\ Available(e)
               /\ request' = [request EXCEPT ![r].at = e, ![r].todo = @ \ {e}]
               /\ UNCHANGED <<client, state, taken, got>>

\* Their commit: an item that somebody has reserved meanwhile runs into the index.
Commit(r) == LET e == request[r].at  c == request[r].of IN
  /\ \/ /\ e \in Items \ taken
        /\ taken' = taken \cup {e}
        /\ UNCHANGED got
     \/ /\ e \in Consumables
        /\ got' = [got EXCEPT ![c][e] = @ + 1]
        /\ UNCHANGED taken
  /\ request' = [request EXCEPT ![r].at = "loop", ![r].reported = @ \cup {e}]
  /\ UNCHANGED <<client, state>>

\* The session is rolled back, which expires the item, and reading its id for the
\* log fails: the request ends with an error, the rest of the loop is not run.
Collide(r) == /\ request[r].at \in taken
              /\ request' = [request EXCEPT ![r] = Idle]
              /\ Answered(r)
              /\ UNCHANGED <<cart, asked, used, lapsed, state, taken, got>>

\* The customer has no badge: nothing is tried, and no entry is reported.
TurnAway(r) == /\ request[r].at = "loop" /\ request[r].todo = request[r].form
               /\ request' = [request EXCEPT ![r] = Idle]
               /\ Answered(r)
               /\ UNCHANGED <<cart, asked, used, lapsed, state, taken, got>>

\* The redirect to /reservations, with what was reserved and what was refused, or
\* after an empty form back to the cart.
Answer(r) == /\ request[r].at = "loop" /\ request[r].todo = {}
             /\ request' = [request EXCEPT ![r] = Idle]
             /\ Answered(r)
             /\ UNCHANGED <<cart, asked, used, lapsed, state, taken, got>>

\* reserve_item, reserve_consumable: without the cart, in one step.
ReserveSingly(c, e) ==
  /\ Available(e)
  /\ \A t \in Tabs : Owner[t] # c
  /\ IF e \in Items THEN taken' = taken \cup {e} /\ UNCHANGED got
                     ELSE got' = [got EXCEPT ![c][e] = @ + 1] /\ UNCHANGED taken
  /\ UNCHANGED <<client, state, request>>

\* Lent and returned, deleted and restored, by others.
Elsewise(e) == \E s \in {"here", "out", "gone"} :
  /\ s # state[e] /\ (e \in Consumables => s # "out")
  /\ state' = [state EXCEPT ![e] = s]
  /\ UNCHANGED <<client, taken, got, request>>

Serve(r) == \/ \E e \in Entries : Refuse(r, e) \/ Check(r, e)
            \/ Commit(r) \/ Collide(r) \/ TurnAway(r) \/ Answer(r)

Next == \/ \E t \in Tabs : \/ \E e \in Entries : Add(t, e) \/ PutBack(t, e) \/ Remove(t, e)
                           \/ OpenCart(t) \/ Leave(t) \/ Logout(t) \/ GuardLapses(t)
                           \/ \E r \in Requests : Submit(t, r)
        \/ \E r \in Requests : Serve(r)
        \/ \E c \in Customers, e \in Entries : ReserveSingly(c, e)
        \/ \E e \in Entries : Elsewise(e)

Spec == Init /\ [][Next]_vars

-----------------------------------------------------------------------------
OneTab(c) == \A t, u \in used : Owner[t] = c /\ Owner[u] = c => t = u

\* Keeps to one tab, and no button was enabled again early.
Careful(c) == OneTab(c) /\ c \notin lapsed

\* Who uses one tab, and whose button was not enabled again early, gets a
\* consumable at most once for every time it was put into the cart: form-guard.js
\* keeps a form from being sent twice.
OnceEach == \A c \in Customers, k \in Consumables :
  Careful(c) /\ (\E t \in Tabs : Owner[t] = c) => got[c][k] <= asked[c][k]

\* Who uses one tab has seen every entry that a submission takes out of the cart.
NothingUnseen ==
  [][\A t \in Tabs : page[t].at = "cart" /\ page'[t].at = "sent" /\ OneTab(Owner[t])
                      => cart[Owner[t]] \subseteq page[t].shown]_vars

\* reservations.py: a single failure does not end the loop and is reported.  An
\* answer after the loop has every entry of the form in one of its lists.
EveryEntryReported ==
  [][\A r \in Requests : Answer(r) => request[r].reported = request[r].form]_vars
=============================================================================
