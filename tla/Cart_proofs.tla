----------------------------- MODULE Cart_proofs -----------------------------
(***************************************************************************)
(* Proofs about Cart, for any sets of entries, customers, tabs and         *)
(* submissions: a careful customer is served once for every entry put into *)
(* the cart, a submission takes nothing out of the cart that its page has  *)
(* not shown, and an answer reports every entry of its form.               *)
(***************************************************************************)
EXTENDS Cart, FiniteSetTheorems, TLAPS

\* The submissions of c that may still reserve k.
Pending(c, k) == {r \in Requests :
  request[r] # Idle /\ request[r].of = c /\ (request[r].at = k \/ k \in request[r].todo)}

\* A tab that shows the cart has touched it.
PagesOK == \A t \in Tabs : page[t] # Elsewhere => t \in used

\* The page of a customer's only tab has shown all that is in the cart, since the
\* buttons that put an entry there are on other pages.
ShownOK == \A t \in Tabs :
  OneTab(Owner[t]) /\ page[t] # Elsewhere => cart[Owner[t]] \subseteq page[t].shown

\* The consumables of a careful customer's form are those of the cart.
FormOK == \A t \in Tabs :
  Careful(Owner[t]) /\ page[t].at = "cart" => page[t].form \cap Consumables \subseteq cart[Owner[t]]

\* A submission never loses an entry of its form, and the one it is about to
\* commit is no longer to do.
EntriesKept == \A r \in Requests : request[r] # Idle =>
  /\ request[r].form = request[r].reported \cup request[r].todo \cup ({request[r].at} \ {"loop"})
  /\ request[r].at \notin request[r].todo

InCart(c, k) == IF k \in cart[c] THEN 1 ELSE 0

\* What was reserved, what may still be and what is in the cart was asked for once each.
CountOK == \A c \in Customers, k \in Consumables :
  Careful(c) /\ (\E t \in Tabs : Owner[t] = c) =>
    got[c][k] + Cardinality(Pending(c, k)) + InCart(c, k) <= asked[c][k]

Inv == TypeOK /\ PagesOK /\ ShownOK /\ FormOK /\ EntriesKept /\ CountOK

-----------------------------------------------------------------------------
(* The shapes of the parts of the state. *)

\* A page that shows the cart, its form open or sent.
Page == [at : {"cart", "sent"}, form : SUBSET Entries, shown : SUBSET Entries,
         awaits : Requests \cup {None}]

\* TypeOK by its conjuncts.
LEMMA Types ==
  TypeOK <=> /\ cart \in [Customers -> SUBSET Entries]
             /\ page \in [Tabs -> {Elsewhere} \cup Page]
             /\ state \in [Entries -> {"here", "out", "gone"}]
             /\ taken \subseteq Items
             /\ got \in [Customers -> [Consumables -> Nat]]
             /\ request \in [Requests -> {Idle} \cup Submission]
             /\ asked \in [Customers -> [Consumables -> 0 .. MaxAsked]]
             /\ used \subseteq Tabs /\ lapsed \subseteq Customers
             /\ \A t \in Tabs : page[t].form \subseteq page[t].shown
  BY DEF TypeOK, Page

\* A page is the cart with its form open or sent, or any other page.
LEMMA PageShape ==
  ASSUME TypeOK, NEW t \in Tabs
  PROVE  /\ Owner[t] \in Customers
         /\ page[t].at = "elsewhere" <=> page[t] = Elsewhere
         /\ page[t] # Elsewhere => page[t] \in Page
  BY CartAssumption, Types DEF Page, Elsewhere

\* A busy slot holds a submission, and what it is about to commit is no marker.
LEMMA SlotShape ==
  ASSUME TypeOK, NEW r \in Requests
  PROVE  /\ request[r] = Idle \/ request[r] \in Submission
         /\ request[r].at \in Entries \cup {"loop"} => request[r] \in Submission
         /\ request[r] \in Submission => request[r] # Idle
  BY CartAssumption, Types DEF Submission, Idle

\* The tabs in use and the customers of a lapsed button only grow, so that who is
\* careful after a step was so before.
LEMMA StillCareful ==
  ASSUME used \subseteq used', lapsed \subseteq lapsed'
  PROVE  \A c : (OneTab(c)' => OneTab(c)) /\ (Careful(c)' => Careful(c))
  BY DEF OneTab, Careful

\* A step of the server that sends no answer leaves the browser's parts alone.
LEMMA ClientAlone ==
  ASSUME PagesOK, ShownOK, FormOK, UNCHANGED client
  PROVE  PagesOK' /\ ShownOK' /\ FormOK'
  BY DEF PagesOK, ShownOK, FormOK, client, OneTab, Careful

\* The submissions in flight can be counted.
LEMMA PendingFinite ==
  \A c, k : IsFiniteSet(Pending(c, k)) /\ Cardinality(Pending(c, k)) \in Nat
  <1> SUFFICES ASSUME NEW c, NEW k
               PROVE  IsFiniteSet(Pending(c, k)) /\ Cardinality(Pending(c, k)) \in Nat
    OBVIOUS
  <1>1. IsFiniteSet(Requests) /\ Pending(c, k) \subseteq Requests
    BY CartAssumption DEF Pending
  <1>2. IsFiniteSet(Pending(c, k))
    BY <1>1, FS_Subset
  <1> QED
    BY <1>2, FS_CardinalityType

\* As long as nothing is put into the cart, nothing more is reserved and nothing
\* becomes pending, the count is kept.
LEMMA CountStays ==
  ASSUME TypeOK, TypeOK', CountOK, UNCHANGED asked, used \subseteq used', lapsed \subseteq lapsed',
         \A c \in Customers : (\E t \in Tabs : Owner[t] = c) =>
           got'[c] = got[c] /\ cart'[c] \subseteq cart[c],
         \A c \in Customers, k \in Consumables : Pending(c, k)' \subseteq Pending(c, k)
  PROVE  CountOK'
  <1> SUFFICES ASSUME NEW c \in Customers, NEW k \in Consumables,
                      Careful(c)', NEW t \in Tabs, Owner[t] = c
               PROVE  got'[c][k] + Cardinality(Pending(c, k)') + InCart(c, k)' <= asked'[c][k]
    BY DEF CountOK
  <1>1. got[c][k] + Cardinality(Pending(c, k)) + InCart(c, k) <= asked[c][k]
    BY StillCareful DEF CountOK
  <1>2. /\ Cardinality(Pending(c, k)') <= Cardinality(Pending(c, k))
        /\ Cardinality(Pending(c, k)') \in Nat /\ Cardinality(Pending(c, k)) \in Nat
    <2>1. IsFiniteSet(Pending(c, k)) /\ Pending(c, k)' \subseteq Pending(c, k)
      BY PendingFinite
    <2>2. /\ IsFiniteSet(Pending(c, k)')
          /\ Cardinality(Pending(c, k)') <= Cardinality(Pending(c, k))
      BY <2>1, FS_Subset
    <2> QED
      BY <2>1, <2>2, FS_CardinalityType
  <1>3. InCart(c, k)' <= InCart(c, k) /\ InCart(c, k)' \in Nat /\ InCart(c, k) \in Nat
    BY DEF InCart
  <1>4. got'[c][k] = got[c][k] /\ got[c][k] \in Nat /\ asked'[c][k] = asked[c][k]
        /\ asked[c][k] \in Nat
    BY Types, CartAssumption
  <1> QED
    BY <1>1, <1>2, <1>3, <1>4

\* A tab in use is the only one of a customer that keeps to one tab: what it does to
\* the cart touches no other page that matters.
LEMMA OneTabActs ==
  ASSUME TypeOK, PagesOK, ShownOK, FormOK, NEW t \in Tabs,
         t \in used', used \subseteq used', lapsed \subseteq lapsed',
         \A u \in Tabs : u # t => page'[u] = page[u],
         \A d \in Customers : d # Owner[t] => cart'[d] = cart[d],
         OneTab(Owner[t])' /\ page'[t] # Elsewhere => cart'[Owner[t]] \subseteq page'[t].shown,
         Careful(Owner[t])' /\ page'[t].at = "cart"
           => page'[t].form \cap Consumables \subseteq cart'[Owner[t]]
  PROVE  PagesOK' /\ ShownOK' /\ FormOK'
  <1>1. PagesOK'
    BY DEF PagesOK
  <1>2. ASSUME NEW u \in Tabs, u # t, OneTab(Owner[u])', page[u] # Elsewhere
        PROVE  cart'[Owner[u]] = cart[Owner[u]]
    <2>1. Owner[u] # Owner[t]
      BY <1>2 DEF PagesOK, OneTab
    <2> QED
      BY <2>1, PageShape
  <1>3. \A u \in Tabs : page[u].at \in {"cart", "sent"} => page[u] # Elsewhere
    BY DEF Elsewhere
  <1>4. ASSUME NEW u \in Tabs, OneTab(Owner[u])', page'[u] # Elsewhere
        PROVE  cart'[Owner[u]] \subseteq page'[u].shown
    <2>1. CASE u = t
      BY <2>1, <1>4
    <2>2. CASE u # t
      BY <2>2, <1>2, <1>4, StillCareful DEF ShownOK
    <2> QED
      BY <2>1, <2>2
  <1>5. ASSUME NEW u \in Tabs, Careful(Owner[u])', page'[u].at = "cart"
        PROVE  page'[u].form \cap Consumables \subseteq cart'[Owner[u]]
    <2>1. CASE u = t
      BY <2>1, <1>5
    <2>2. CASE u # t
      <3>1. OneTab(Owner[u])' /\ page[u] # Elsewhere
        BY <2>2, <1>3, <1>5 DEF Careful
      <3> QED
        BY <2>2, <3>1, <1>2, <1>5, StillCareful DEF FormOK
    <2> QED
      BY <2>1, <2>2
  <1> QED
    BY <1>1, <1>4, <1>5 DEF ShownOK, FormOK

-----------------------------------------------------------------------------
(* The browser's actions. *)

\* Init establishes the invariant.
LEMMA InitInv == Init => Inv
  <1> SUFFICES ASSUME Init PROVE Inv
    OBVIOUS
  <1>1. TypeOK
    BY CartAssumption DEF Init, TypeOK, Elsewhere
  <1>2. PagesOK /\ ShownOK /\ FormOK
    BY CartAssumption DEF Init, PagesOK, ShownOK, FormOK, Elsewhere
  <1>3. EntriesKept
    BY DEF Init, EntriesKept
  <1>4. CountOK
    <2> SUFFICES ASSUME NEW c \in Customers, NEW k \in Consumables
                 PROVE  got[c][k] + Cardinality(Pending(c, k)) + InCart(c, k) <= asked[c][k]
      BY DEF CountOK
    <2>1. Pending(c, k) = {} /\ InCart(c, k) = 0 /\ got[c][k] = 0 /\ asked[c][k] = 0
      BY DEF Init, Pending, InCart
    <2> QED
      BY <2>1, FS_EmptySet
  <1> QED
    BY <1>1, <1>2, <1>3, <1>4 DEF Inv

\* An entry goes into the cart from a page that is not the cart's, and is asked
\* for once more.
LEMMA AddInv ==
  ASSUME Inv, NEW t \in Tabs, NEW e \in Entries, Add(t, e)
  PROVE  Inv'
  <1> DEFINE c == Owner[t]
  <1>1. /\ c \in Customers /\ page[t] = Elsewhere /\ e \notin cart[c]
        /\ cart' = [cart EXCEPT ![c] = @ \cup {e}]
        /\ used' = used \cup {t}
        /\ UNCHANGED <<page, lapsed, state, taken, got, request>>
    BY PageShape DEF Add, server, Inv
  <1>2. \/ e \in Items /\ asked' = asked
        \/ /\ e \in Consumables /\ asked[c][e] < MaxAsked
           /\ asked' = [asked EXCEPT ![c][e] = @ + 1]
    BY DEF Add, Entries
  <1>3. TypeOK'
    <2>1. asked' \in [Customers -> [Consumables -> 0 .. MaxAsked]]
      <3>1. CASE asked' = asked
        BY <3>1, Types DEF Inv
      <3>2. CASE /\ e \in Consumables /\ asked[c][e] < MaxAsked
                 /\ asked' = [asked EXCEPT ![c][e] = @ + 1]
        <4>1. asked[c] \in [Consumables -> 0 .. MaxAsked] /\ asked[c][e] + 1 \in 0 .. MaxAsked
          BY <1>1, <3>2, Types, CartAssumption DEF Inv
        <4>2. [asked[c] EXCEPT ![e] = @ + 1] \in [Consumables -> 0 .. MaxAsked]
          BY <4>1
        <4>3. asked' = [asked EXCEPT ![c] = [asked[c] EXCEPT ![e] = @ + 1]]
          BY <3>2
        <4> QED
          BY <1>1, <4>2, <4>3, Types DEF Inv
      <3> QED
        BY <1>2, <3>1, <3>2
    <2> QED
      BY <1>1, <2>1, Types DEF Inv, TypeOK
  <1>4. PagesOK' /\ ShownOK' /\ FormOK'
    <2>1. page'[t] = Elsewhere /\ \A d \in Customers : d # c => cart'[d] = cart[d]
      BY <1>1, Types DEF Inv
    <2>2. page'[t].at = "elsewhere"
      BY <2>1 DEF Elsewhere
    <2>3. t \in used' /\ used \subseteq used' /\ lapsed \subseteq lapsed' /\ page' = page
      BY <1>1
    <2>4. TypeOK /\ PagesOK /\ ShownOK /\ FormOK
      BY DEF Inv
    <2> QED
      BY <2>1, <2>2, <2>3, <2>4, OneTabActs
  <1>5. EntriesKept'
    BY <1>1 DEF Inv, EntriesKept
  <1>6. CountOK'
    <2> SUFFICES ASSUME NEW d \in Customers, NEW k \in Consumables,
                        Careful(d)', NEW u \in Tabs, Owner[u] = d
                 PROVE  got'[d][k] + Cardinality(Pending(d, k)') + InCart(d, k)' <= asked'[d][k]
      BY DEF CountOK
    <2>1. got[d][k] + Cardinality(Pending(d, k)) + InCart(d, k) <= asked[d][k]
      BY <1>1, StillCareful DEF Inv, CountOK
    <2>2. Pending(d, k)' = Pending(d, k) /\ got' = got
      BY <1>1 DEF Pending
    <2>3. got[d][k] \in Nat /\ asked[d][k] \in Nat
      BY Types, CartAssumption DEF Inv
    <2>4. CASE d = c /\ k = e
      <3>1. InCart(d, k) = 0 /\ InCart(d, k)' = 1
        BY <2>4, <1>1, Types DEF Inv, InCart
      <3>2. asked'[d][k] = asked[d][k] + 1
        BY <1>1, <1>2, <2>4, CartAssumption, Types DEF Inv
      <3> QED
        BY <3>1, <3>2, <2>1, <2>2, <2>3, PendingFinite
    <2>5. CASE ~(d = c /\ k = e)
      <3>1. asked'[d][k] = asked[d][k]
        BY <1>1, <1>2, <2>5, Types DEF Inv
      <3>2. InCart(d, k)' = InCart(d, k)
        BY <1>1, <2>5, Types DEF Inv, InCart
      <3> QED
        BY <3>1, <3>2, <2>1, <2>2
    <2> QED
      BY <2>4, <2>5
  <1> QED
    BY <1>3, <1>4, <1>5, <1>6 DEF Inv

\* A step of one tab that asks for nothing more.
LEMMA BrowserActs ==
  ASSUME Inv, TypeOK', NEW t \in Tabs, UNCHANGED <<asked, got, request>>,
         t \in used', used \subseteq used', lapsed \subseteq lapsed',
         \A u \in Tabs : u # t => page'[u] = page[u],
         \A d \in Customers : d # Owner[t] => cart'[d] = cart[d],
         cart'[Owner[t]] \subseteq cart[Owner[t]],
         OneTab(Owner[t])' /\ page'[t] # Elsewhere => cart'[Owner[t]] \subseteq page'[t].shown,
         Careful(Owner[t])' /\ page'[t].at = "cart"
           => page'[t].form \cap Consumables \subseteq cart'[Owner[t]]
  PROVE  Inv'
  <1>1. PagesOK' /\ ShownOK' /\ FormOK'
    BY OneTabActs DEF Inv
  <1>2. EntriesKept'
    BY DEF Inv, EntriesKept
  <1>3. CountOK'
    <2>1. \A c, k : Pending(c, k)' \subseteq Pending(c, k)
      BY DEF Pending
    <2>2. \A d \in Customers : cart'[d] \subseteq cart[d]
      OBVIOUS
    <2> QED
      BY <2>1, <2>2, CountStays DEF Inv
  <1> QED
    BY <1>1, <1>2, <1>3 DEF Inv

\* An entry is taken out of the cart on a page that does not show the cart.
LEMMA PutBackInv ==
  ASSUME Inv, NEW t \in Tabs, NEW e \in Entries, PutBack(t, e)
  PROVE  Inv'
  <1>1. /\ Owner[t] \in Customers /\ page[t] = Elsewhere
        /\ cart' = [cart EXCEPT ![Owner[t]] = @ \ {e}]
        /\ used' = used \cup {t}
        /\ UNCHANGED <<page, asked, lapsed, state, taken, got, request>>
    BY PageShape DEF PutBack, server, Inv
  <1>2. TypeOK'
    BY <1>1, Types DEF Inv, TypeOK
  <1>3. page'[t] = Elsewhere /\ page'[t].at = "elsewhere"
    BY <1>1 DEF Elsewhere
  <1>4. /\ \A d \in Customers : d # Owner[t] => cart'[d] = cart[d]
        /\ cart'[Owner[t]] \subseteq cart[Owner[t]]
    BY <1>1, Types DEF Inv
  <1> QED
    BY <1>1, <1>2, <1>3, <1>4, BrowserActs

\* A row of the cart page is removed, and its entry from the cart.
LEMMA RemoveInv ==
  ASSUME Inv, NEW t \in Tabs, NEW e \in Entries, Remove(t, e)
  PROVE  Inv'
  <1> DEFINE c == Owner[t]
  <1>1. /\ c \in Customers /\ page[t].at = "cart"
        /\ cart' = [cart EXCEPT ![c] = @ \ {e}]
        /\ page' = [page EXCEPT ![t].form = @ \ {e}, ![t].shown = @ \ {e}]
        /\ UNCHANGED <<asked, used, lapsed, state, taken, got, request>>
    BY PageShape DEF Remove, server, Inv
  <1>2. page[t] \in Page /\ page[t] # Elsewhere
    BY <1>1, PageShape DEF Inv, Elsewhere
  <1>3. /\ page'[t] = [page[t] EXCEPT !.form = @ \ {e}, !.shown = @ \ {e}]
        /\ \A u \in Tabs : u # t => page'[u] = page[u]
    BY <1>1, Types DEF Inv
  <1>4. /\ page'[t] \in Page /\ page'[t].at = "cart"
        /\ page'[t].form = page[t].form \ {e} /\ page'[t].shown = page[t].shown \ {e}
    <2> DEFINE old == page[t]
               new == [old EXCEPT !.form = @ \ {e}, !.shown = @ \ {e}]
    <2>1. old \in Page /\ page'[t] = new /\ old.at = "cart"
      BY <1>1, <1>2, <1>3
    <2> HIDE DEF old
    <2>2. /\ new \in Page /\ new.at = "cart"
          /\ new.form = old.form \ {e} /\ new.shown = old.shown \ {e}
      BY <2>1 DEF Page
    <2> HIDE DEF new
    <2> QED
      BY <2>1, <2>2 DEF old
  <1>5. /\ \A d \in Customers : d # c => cart'[d] = cart[d]
        /\ cart'[c] = cart[c] \ {e}
    BY <1>1, Types DEF Inv
  <1>6. TypeOK'
    <2>1. page' \in [Tabs -> {Elsewhere} \cup Page]
      BY <1>1, <1>3, <1>4, Types DEF Inv
    <2>2. \A u \in Tabs : page'[u].form \subseteq page'[u].shown
      BY <1>3, <1>4, Types DEF Inv
    <2> QED
      BY <1>1, <2>1, <2>2, Types DEF Inv, TypeOK, Page
  <1>7. t \in used'
    BY <1>1, <1>2 DEF Inv, PagesOK
  <1>8. OneTab(c)' => cart'[c] \subseteq page'[t].shown
    BY <1>1, <1>2, <1>4, <1>5, StillCareful DEF Inv, ShownOK
  <1>9. Careful(c)' => page'[t].form \cap Consumables \subseteq cart'[c]
    BY <1>1, <1>4, <1>5, StillCareful DEF Inv, FormOK
  <1> QED
    BY <1>1, <1>3, <1>4, <1>5, <1>6, <1>7, <1>8, <1>9, BrowserActs

\* The cart page is opened: its form holds entries that the cart still has.
LEMMA OpenCartInv ==
  ASSUME Inv, NEW t \in Tabs, OpenCart(t)
  PROVE  Inv'
  <1> DEFINE c == Owner[t]
             gone == {e \in cart[c] : state[e] = "gone"}
             available == {e \in cart[c] : Available(e)}
             new == IF available = {} THEN Elsewhere ELSE CartPage(available, cart[c])
  <1>1. /\ c \in Customers
        /\ cart' = [cart EXCEPT ![c] = @ \ gone]
        /\ page' = [page EXCEPT ![t] = new]
        /\ used' = used \cup {t}
        /\ UNCHANGED <<asked, lapsed, state, taken, got, request>>
    BY PageShape DEF OpenCart, server, Inv
  <1>2. cart[c] \subseteq Entries
    BY <1>1, Types DEF Inv
  <1>3. available \subseteq cart[c] \ gone
    BY <1>2 DEF Available, Free, Covered, Entries
  <1> HIDE DEF available, gone
  <1>4. /\ new \in {Elsewhere} \cup Page /\ new.form \subseteq available
        /\ new.form \subseteq new.shown
        /\ new # Elsewhere => new.shown = cart[c]
    BY <1>2, <1>3 DEF CartPage, Page, Elsewhere
  <1> HIDE DEF new
  <1>5. /\ \A d \in Customers : d # c => cart'[d] = cart[d]
        /\ cart'[c] = cart[c] \ gone
    BY <1>1, Types DEF Inv
  <1>6. page'[t] = new /\ \A u \in Tabs : u # t => page'[u] = page[u]
    BY <1>1, Types DEF Inv
  <1>7. TypeOK'
    <2>1. page' \in [Tabs -> {Elsewhere} \cup Page]
      BY <1>1, <1>4, Types DEF Inv
    <2>2. \A u \in Tabs : page'[u].form \subseteq page'[u].shown
      BY <1>4, <1>6, Types DEF Inv
    <2>3. cart' \in [Customers -> SUBSET Entries]
      BY <1>1, Types DEF Inv
    <2> QED
      BY <1>1, <2>1, <2>2, <2>3, Types DEF Inv, TypeOK, Page
  <1>8. new.form \cap Consumables \subseteq cart'[c]
    BY <1>3, <1>4, <1>5
  <1>9. page'[t] # Elsewhere => cart'[c] \subseteq page'[t].shown
    BY <1>4, <1>5, <1>6
  <1> QED
    BY <1>1, <1>5, <1>6, <1>7, <1>8, <1>9, BrowserActs

\* The page is left for another, the cart is emptied or stays as it is.
LEMMA GoElsewhere ==
  ASSUME Inv, NEW t \in Tabs, page' = [page EXCEPT ![t] = Elsewhere],
         cart' = cart \/ cart' = [cart EXCEPT ![Owner[t]] = {}],
         t \in used', used' \subseteq used \cup {t}, used \subseteq used',
         UNCHANGED <<asked, lapsed, state, taken, got, request>>
  PROVE  Inv'
  <1>1. Owner[t] \in Customers
    BY PageShape DEF Inv
  <1>2. page'[t] = Elsewhere /\ \A u \in Tabs : u # t => page'[u] = page[u]
    BY Types DEF Inv
  <1>3. page'[t].at = "elsewhere" /\ page'[t].form = {}
    BY <1>2 DEF Elsewhere
  <1>4. /\ \A d \in Customers : d # Owner[t] => cart'[d] = cart[d]
        /\ cart'[Owner[t]] \subseteq cart[Owner[t]]
        /\ cart' \in [Customers -> SUBSET Entries]
    BY <1>1, Types DEF Inv
  <1>5. TypeOK'
    <2>1. \A u \in Tabs : page'[u].form \subseteq page'[u].shown
      BY <1>2, <1>3, Types DEF Inv
    <2> QED
      BY <1>4, <2>1, Types DEF Inv, TypeOK, Page
  <1> QED
    BY <1>2, <1>3, <1>4, <1>5, BrowserActs

\* Logging out.
LEMMA LogoutInv ==
  ASSUME Inv, NEW t \in Tabs, Logout(t)
  PROVE  Inv'
  BY GoElsewhere DEF Logout, server

\* The page of the cart is left.
LEMMA LeaveInv ==
  ASSUME Inv, NEW t \in Tabs, Leave(t)
  PROVE  Inv'
  <1>1. t \in used
    BY DEF Leave, Inv, PagesOK, Elsewhere
  <1> QED
    BY <1>1, GoElsewhere DEF Leave, server

\* The guard lapses: whose tab it is counts as careful no longer.
LEMMA GuardLapsesInv ==
  ASSUME Inv, NEW t \in Tabs, GuardLapses(t)
  PROVE  Inv'
  <1>1. /\ page[t].at = "sent"
        /\ page' = [page EXCEPT ![t].at = "cart", ![t].awaits = None]
        /\ lapsed' = lapsed \cup {Owner[t]}
        /\ UNCHANGED <<cart, asked, used, state, taken, got, request>>
    BY DEF GuardLapses, server
  <1>2. page[t] \in Page /\ page[t] # Elsewhere
    BY <1>1, PageShape DEF Inv, Elsewhere
  <1>3. /\ page'[t] = [page[t] EXCEPT !.at = "cart", !.awaits = None]
        /\ \A u \in Tabs : u # t => page'[u] = page[u]
    BY <1>1, Types DEF Inv
  <1>4. /\ page'[t] \in Page
        /\ page'[t].form = page[t].form /\ page'[t].shown = page[t].shown
    BY <1>2, <1>3 DEF Page
  <1>5. t \in used /\ ~Careful(Owner[t])' /\ Owner[t] \in Customers
    BY <1>1, <1>2, PageShape DEF Inv, PagesOK, Careful
  <1>6. TypeOK'
    <2>1. page' \in [Tabs -> {Elsewhere} \cup Page]
      BY <1>1, <1>3, <1>4, Types DEF Inv
    <2>2. \A u \in Tabs : page'[u].form \subseteq page'[u].shown
      BY <1>3, <1>4, Types DEF Inv
    <2> QED
      BY <1>1, <1>5, <2>1, <2>2, Types DEF Inv, TypeOK, Page
  <1>7. OneTab(Owner[t])' => cart'[Owner[t]] \subseteq page'[t].shown
    BY <1>1, <1>2, <1>4, StillCareful DEF Inv, ShownOK
  <1> QED
    BY <1>1, <1>3, <1>5, <1>6, <1>7, BrowserActs

\* The form is sent: what was in the cart of a careful customer may now be
\* reserved by this submission.
LEMMA SubmitInv ==
  ASSUME Inv, NEW t \in Tabs, NEW r \in Requests, Submit(t, r)
  PROVE  Inv'
  <1> DEFINE c == Owner[t]
             q == [at |-> "loop", of |-> c, todo |-> page[t].form, form |-> page[t].form,
                   reported |-> {}]
             old == page[t]
             new == [old EXCEPT !.at = "sent", !.awaits = r]
  <1>1. /\ c \in Customers /\ page[t].at = "cart" /\ request[r] = Idle
        /\ request' = [request EXCEPT ![r] = q]
        /\ page' = [page EXCEPT ![t].at = "sent", ![t].awaits = r]
        /\ cart' = [cart EXCEPT ![c] = {}]
        /\ UNCHANGED <<asked, used, lapsed, state, taken, got>>
    BY PageShape DEF Submit, Inv
  <1>2. old \in Page /\ old # Elsewhere
    BY <1>1, PageShape DEF Inv, Elsewhere
  <1>3. page'[t] = new /\ \A u \in Tabs : u # t => page'[u] = page[u]
    BY <1>1, Types DEF Inv
  <1> HIDE DEF old
  <1>4. /\ new \in Page /\ new.at = "sent"
        /\ new.form = old.form /\ new.shown = old.shown
    BY <1>2 DEF Page
  <1> HIDE DEF new
  <1>5. /\ \A d \in Customers : d # c => cart'[d] = cart[d]
        /\ cart'[c] = {}
    BY <1>1, Types DEF Inv
  <1>6. /\ q \in Submission /\ q.at = "loop" /\ q.of = c /\ q.todo = page[t].form
        /\ q.form = page[t].form /\ q.reported = {}
    BY <1>1, <1>2 DEF Submission, Page, old
  <1> HIDE DEF q
  <1>7. /\ request'[r] = q /\ q # Idle
        /\ \A s \in Requests : s # r => request'[s] = request[s]
    BY <1>1, <1>6, Types DEF Inv, Idle
  <1>8. TypeOK'
    <2>1. page' \in [Tabs -> {Elsewhere} \cup Page]
      BY <1>1, <1>3, <1>4, Types DEF Inv
    <2>2. \A u \in Tabs : page'[u].form \subseteq page'[u].shown
      BY <1>3, <1>4, Types DEF Inv, old
    <2>3. cart' \in [Customers -> SUBSET Entries] /\ request' \in [Requests -> {Idle} \cup Submission]
      BY <1>1, <1>6, Types DEF Inv
    <2> QED
      BY <1>1, <2>1, <2>2, <2>3, Types DEF Inv, TypeOK, Page
  <1>9. t \in used /\ UNCHANGED <<used, lapsed>>
    BY <1>1, <1>2 DEF Inv, PagesOK, old
  <1>10. PagesOK' /\ ShownOK' /\ FormOK'
    BY <1>3, <1>4, <1>5, <1>9, OneTabActs DEF Inv
  <1>11. EntriesKept'
    <2>1. "loop" \notin q.todo
      BY <1>6, CartAssumption DEF Submission
    <2> QED
      BY <1>6, <1>7, <2>1 DEF Inv, EntriesKept
  <1>12. CountOK'
    <2> SUFFICES ASSUME NEW d \in Customers, NEW k \in Consumables,
                        Careful(d)', NEW u \in Tabs, Owner[u] = d
                 PROVE  got'[d][k] + Cardinality(Pending(d, k)') + InCart(d, k)' <= asked'[d][k]
      BY DEF CountOK
    <2>1. Careful(d)
      BY <1>9, StillCareful
    <2>2. got[d][k] + Cardinality(Pending(d, k)) + InCart(d, k) <= asked[d][k]
      BY <2>1 DEF Inv, CountOK
    <2>3. got[d][k] \in Nat /\ asked[d][k] \in Nat /\ InCart(d, k) \in {0, 1}
      BY Types, CartAssumption DEF Inv, InCart
    <2>4. CASE d = c /\ k \in page[t].form
      <3>1. Pending(d, k)' = Pending(d, k) \cup {r} /\ r \notin Pending(d, k)
        BY <2>4, <1>1, <1>6, <1>7 DEF Pending
      <3>2. Cardinality(Pending(d, k)') = Cardinality(Pending(d, k)) + 1
        BY <3>1, PendingFinite, FS_AddElement
      <3>3. InCart(d, k) = 1 /\ InCart(d, k)' = 0
        BY <2>1, <2>4, <1>1, <1>5 DEF Inv, FormOK, InCart
      <3> QED
        BY <2>2, <2>3, <3>2, <3>3, <1>1, PendingFinite
    <2>5. CASE ~(d = c /\ k \in page[t].form)
      <3>1. k # "loop"
        BY CartAssumption DEF Entries
      <3>2. Pending(d, k)' = Pending(d, k)
        BY <2>5, <3>1, <1>1, <1>6, <1>7 DEF Pending
      <3>3. InCart(d, k)' <= InCart(d, k) /\ InCart(d, k)' \in {0, 1}
        BY <1>5 DEF InCart
      <3> QED
        BY <2>2, <2>3, <3>2, <3>3, <1>1, PendingFinite
    <2> QED
      BY <2>4, <2>5
  <1> QED
    BY <1>8, <1>10, <1>11, <1>12 DEF Inv

-----------------------------------------------------------------------------
(* The server's actions. *)

\* A submission that goes on keeps its form, and nothing but its own entries pending.
LEMMA GoesOn ==
  ASSUME Inv, UNCHANGED client, NEW r \in Requests, request[r] # Idle,
         NEW q \in Submission, q.of = request[r].of,
         q.form = q.reported \cup q.todo \cup ({q.at} \ {"loop"}), q.at \notin q.todo,
         request' = [request EXCEPT ![r] = q]
  PROVE  /\ PagesOK' /\ ShownOK' /\ FormOK' /\ EntriesKept'
         /\ request' \in [Requests -> {Idle} \cup Submission]
         /\ \A s \in Requests : request'[s] = IF s = r THEN q ELSE request[s]
         /\ \A c, k : \A s \in Pending(c, k)' :
              \/ s \in Pending(c, k)
              \/ s = r /\ c = q.of /\ (q.at = k \/ k \in q.todo)
  <1>1. request' \in [Requests -> {Idle} \cup Submission]
    BY Types DEF Inv
  <1>2. \A s \in Requests : request'[s] = IF s = r THEN q ELSE request[s]
    BY Types DEF Inv
  <1>3. EntriesKept'
    BY <1>2 DEF Inv, EntriesKept
  <1>4. \A c, k : \A s \in Pending(c, k)' :
          \/ s \in Pending(c, k)
          \/ s = r /\ c = q.of /\ (q.at = k \/ k \in q.todo)
    BY <1>2 DEF Pending
  <1> QED
    BY <1>1, <1>2, <1>3, <1>4, ClientAlone DEF Inv

\* An entry is refused.
LEMMA RefuseInv ==
  ASSUME Inv, NEW r \in Requests, NEW e \in Entries, Refuse(r, e)
  PROVE  Inv'
  <1> DEFINE old == request[r]
             q == [old EXCEPT !.todo = @ \ {e}, !.reported = @ \cup {e}]
  <1>1. /\ old.at = "loop" /\ e \in old.todo
        /\ request' = [request EXCEPT ![r] = q]
        /\ UNCHANGED client /\ UNCHANGED <<state, taken, got>>
    BY Types DEF Refuse, Turn, Inv
  <1>2. old \in Submission /\ old # Idle
    BY <1>1, SlotShape DEF Inv
  <1>3. old.form = old.reported \cup old.todo \cup ({old.at} \ {"loop"})
    BY <1>2 DEF Inv, EntriesKept
  <1> HIDE DEF old
  <1>4. /\ q \in Submission /\ q.of = old.of /\ q.at = "loop" /\ q.form = old.form
        /\ q.todo = old.todo \ {e} /\ q.reported = old.reported \cup {e}
    BY <1>1, <1>2 DEF Submission
  <1> HIDE DEF q
  <1>5. /\ q.form = q.reported \cup q.todo \cup ({q.at} \ {"loop"})
        /\ q.at \notin q.todo
    BY <1>1, <1>2, <1>3, <1>4, CartAssumption DEF Submission
  <1>6. /\ PagesOK' /\ ShownOK' /\ FormOK' /\ EntriesKept'
        /\ request' \in [Requests -> {Idle} \cup Submission]
        /\ \A c, k : \A s \in Pending(c, k)' :
             \/ s \in Pending(c, k)
             \/ s = r /\ c = q.of /\ (q.at = k \/ k \in q.todo)
    BY <1>1, <1>2, <1>4, <1>5, GoesOn DEF old
  <1>7. TypeOK'
    BY <1>1, <1>6, Types DEF Inv, TypeOK, client
  <1>8. \A c \in Customers, k \in Consumables : Pending(c, k)' \subseteq Pending(c, k)
    BY <1>1, <1>2, <1>4, <1>6, CartAssumption DEF Pending, old, Entries
  <1>9. CountOK'
    BY <1>1, <1>7, <1>8, CountStays DEF Inv, client
  <1> QED
    BY <1>6, <1>7, <1>9 DEF Inv

\* An entry is found available, and is about to be committed.
LEMMA CheckInv ==
  ASSUME Inv, NEW r \in Requests, NEW e \in Entries, Check(r, e)
  PROVE  Inv'
  <1> DEFINE old == request[r]
             q == [old EXCEPT !.at = e, !.todo = @ \ {e}]
  <1>1. /\ old.at = "loop" /\ e \in old.todo
        /\ request' = [request EXCEPT ![r] = q]
        /\ UNCHANGED client /\ UNCHANGED <<state, taken, got>>
    BY Types DEF Check, Turn, Inv
  <1>2. old \in Submission /\ old # Idle
    BY <1>1, SlotShape DEF Inv
  <1>3. old.form = old.reported \cup old.todo \cup ({old.at} \ {"loop"})
    BY <1>2 DEF Inv, EntriesKept
  <1> HIDE DEF old
  <1>4. /\ q \in Submission /\ q.of = old.of /\ q.at = e /\ q.form = old.form
        /\ q.todo = old.todo \ {e} /\ q.reported = old.reported
    BY <1>1, <1>2 DEF Submission
  <1> HIDE DEF q
  <1>5. /\ q.form = q.reported \cup q.todo \cup ({q.at} \ {"loop"})
        /\ q.at \notin q.todo
    BY <1>1, <1>2, <1>3, <1>4, CartAssumption DEF Submission
  <1>6. /\ PagesOK' /\ ShownOK' /\ FormOK' /\ EntriesKept'
        /\ request' \in [Requests -> {Idle} \cup Submission]
        /\ \A c, k : \A s \in Pending(c, k)' :
             \/ s \in Pending(c, k)
             \/ s = r /\ c = q.of /\ (q.at = k \/ k \in q.todo)
    BY <1>1, <1>2, <1>4, <1>5, GoesOn DEF old
  <1>7. TypeOK'
    BY <1>1, <1>6, Types DEF Inv, TypeOK, client
  <1>8. \A c \in Customers, k \in Consumables : Pending(c, k)' \subseteq Pending(c, k)
    BY <1>1, <1>2, <1>4, <1>6, CartAssumption DEF Pending, old, Entries
  <1>9. CountOK'
    BY <1>1, <1>7, <1>8, CountStays DEF Inv, client
  <1> QED
    BY <1>6, <1>7, <1>9 DEF Inv

\* The commit: what was pending is served.
LEMMA CommitInv ==
  ASSUME Inv, NEW r \in Requests, Commit(r)
  PROVE  Inv'
  <1> DEFINE old == request[r]
             e == old.at
             b == old.of
             q == [old EXCEPT !.at = "loop", !.reported = @ \cup {e}]
  <1>1. /\ request' = [request EXCEPT ![r] = q]
        /\ UNCHANGED client /\ UNCHANGED state
        /\ e \in Entries
    BY Types DEF Commit, Inv, Entries
  <1>2. \/ e \in Items /\ taken' = taken \cup {e} /\ got' = got
        \/ e \in Consumables /\ got' = [got EXCEPT ![b][e] = @ + 1] /\ taken' = taken
    BY DEF Commit
  <1>3. old \in Submission /\ old # Idle
    BY <1>1, SlotShape DEF Inv
  <1>4. /\ old.form = old.reported \cup old.todo \cup ({old.at} \ {"loop"})
        /\ old.at \notin old.todo
    BY <1>3 DEF Inv, EntriesKept
  <1>5. b \in Customers
    BY <1>3 DEF Submission
  <1>6. /\ taken' \subseteq Items
        /\ got' \in [Customers -> [Consumables -> Nat]]
    <2> HIDE DEF old
    <2>1. CASE e \in Items /\ taken' = taken \cup {e} /\ got' = got
      BY <2>1, <1>5, Types DEF Inv
    <2>2. CASE e \in Consumables /\ got' = [got EXCEPT ![b][e] = @ + 1] /\ taken' = taken
      <3>1. got[b] \in [Consumables -> Nat] /\ got[b][e] + 1 \in Nat
        BY <2>2, <1>5, Types DEF Inv
      <3>2. [got[b] EXCEPT ![e] = @ + 1] \in [Consumables -> Nat]
        BY <3>1
      <3>3. got' = [got EXCEPT ![b] = [got[b] EXCEPT ![e] = @ + 1]]
        BY <2>2
      <3> QED
        BY <2>2, <1>5, <3>2, <3>3, Types DEF Inv
    <2> QED
      BY <1>2, <2>1, <2>2
  <1>7. /\ q \in Submission /\ q.of = old.of /\ q.at = "loop" /\ q.form = old.form
        /\ q.todo = old.todo /\ q.reported = old.reported \cup {old.at}
    <2> HIDE DEF old
    <2> QED
      BY <1>1, <1>3 DEF Submission
  <1>8. /\ q.form = q.reported \cup q.todo \cup ({q.at} \ {"loop"})
        /\ q.at \notin q.todo
    <2> HIDE DEF q
    <2>1. "loop" \notin old.todo /\ old.at # "loop"
      BY <1>1, <1>3, CartAssumption DEF Submission
    <2> QED
      BY <1>4, <1>7, <2>1
  <1> HIDE DEF q
  <1>9. /\ PagesOK' /\ ShownOK' /\ FormOK' /\ EntriesKept'
        /\ request' \in [Requests -> {Idle} \cup Submission]
        /\ \A s \in Requests : request'[s] = IF s = r THEN q ELSE request[s]
    BY <1>1, <1>3, <1>7, <1>8, GoesOn
  <1>10. ASSUME NEW d \in Customers, NEW k \in Consumables
         PROVE  /\ d = b /\ k = e => Pending(d, k)' = Pending(d, k) \ {r}
                /\ ~(d = b /\ k = e) => Pending(d, k)' = Pending(d, k)
    <2>1. k # "loop" /\ q # Idle
      BY <1>7, CartAssumption DEF Entries, Submission, Idle
    <2>2. r \in Pending(d, k) <=> d = b /\ (k = e \/ k \in old.todo)
      BY <1>3 DEF Pending
    <2>3. r \in Pending(d, k)' <=> d = b /\ k \in old.todo
      BY <2>1, <1>7, <1>9 DEF Pending
    <2>4. \A s \in Requests : s # r => (s \in Pending(d, k)' <=> s \in Pending(d, k))
      BY <1>9 DEF Pending
    <2>5. Pending(d, k) \subseteq Requests /\ Pending(d, k)' \subseteq Requests
      BY DEF Pending
    <2> QED
      BY <1>4, <2>2, <2>3, <2>4, <2>5
  <1>11. TypeOK'
    BY <1>1, <1>6, <1>9, Types DEF Inv, TypeOK, client
  <1>12. CountOK'
    <2> SUFFICES ASSUME NEW d \in Customers, NEW k \in Consumables,
                        Careful(d), NEW u \in Tabs, Owner[u] = d
                 PROVE  got'[d][k] + Cardinality(Pending(d, k)') + InCart(d, k) <= asked[d][k]
      BY <1>1 DEF CountOK, client, Careful, OneTab, InCart
    <2>1. got[d][k] + Cardinality(Pending(d, k)) + InCart(d, k) <= asked[d][k]
      BY DEF Inv, CountOK
    <2>2. got[d][k] \in Nat /\ asked[d][k] \in Nat /\ InCart(d, k) \in {0, 1}
      BY Types, CartAssumption DEF Inv, InCart
    <2>3. CASE d = b /\ k = e
      <3>1. got'[d][k] = got[d][k] + 1
        BY <2>3, <1>2, <1>5, CartAssumption, Types DEF Inv
      <3>2. r \in Pending(d, k) /\ Pending(d, k)' = Pending(d, k) \ {r}
        BY <2>3, <1>3, <1>10 DEF Pending
      <3>3. Cardinality(Pending(d, k)') = Cardinality(Pending(d, k)) - 1
        <4>1. IsFiniteSet(Pending(d, k))
          BY PendingFinite
        <4>2. Cardinality(Pending(d, k) \ {r}) = Cardinality(Pending(d, k)) - 1
          BY <3>2, <4>1, FS_RemoveElement
        <4> QED
          BY <3>2, <4>2
      <3> QED
        BY <2>1, <2>2, <3>1, <3>3, PendingFinite
    <2>4. CASE ~(d = b /\ k = e)
      <3>1. got'[d][k] = got[d][k]
        BY <2>4, <1>2, <1>5, Types DEF Inv
      <3>2. Pending(d, k)' = Pending(d, k)
        BY <2>4, <1>10
      <3> QED
        BY <2>1, <3>1, <3>2
    <2> QED
      BY <2>3, <2>4
  <1> QED
    BY <1>9, <1>11, <1>12 DEF Inv

\* A submission ends, and the page that waits for it with it.
LEMMA EndInv ==
  ASSUME Inv, NEW r \in Requests, request' = [request EXCEPT ![r] = Idle], Answered(r),
         UNCHANGED <<cart, asked, used, lapsed, state, taken, got>>
  PROVE  Inv'
  <1>1. /\ request'[r] = Idle
        /\ \A s \in Requests : s # r => request'[s] = request[s]
    BY Types DEF Inv
  <1>2. \A t \in Tabs : page'[t] = IF page[t].awaits = r THEN Elsewhere ELSE page[t]
    BY DEF Answered
  <1>3. TypeOK'
    <2>1. page' \in [Tabs -> {Elsewhere} \cup Page]
      BY Types DEF Inv, Answered
    <2>2. \A t \in Tabs : page'[t].form \subseteq page'[t].shown
      BY <1>2, Types DEF Inv, Elsewhere
    <2>3. request' \in [Requests -> {Idle} \cup Submission]
      BY Types DEF Inv
    <2> QED
      BY <2>1, <2>2, <2>3, Types DEF Inv, TypeOK, Page
  <1>4. Elsewhere.awaits = None /\ Elsewhere.at = "elsewhere"
    BY DEF Elsewhere
  <1>5. \A c : (OneTab(c)' <=> OneTab(c)) /\ (Careful(c)' <=> Careful(c))
    BY DEF OneTab, Careful
  <1>6. PagesOK' /\ ShownOK' /\ FormOK'
    BY <1>2, <1>4, <1>5 DEF Inv, PagesOK, ShownOK, FormOK
  <1>7. EntriesKept'
    BY <1>1 DEF Inv, EntriesKept
  <1>8. CountOK'
    <2>1. \A c, k : Pending(c, k)' \subseteq Pending(c, k)
      BY <1>1 DEF Pending
    <2> QED
      BY <2>1, <1>3, CountStays DEF Inv
  <1> QED
    BY <1>3, <1>6, <1>7, <1>8 DEF Inv

\* What is reserved without the cart counts for customers without a tab.
LEMMA ReserveSinglyInv ==
  ASSUME Inv, NEW c \in Customers, NEW e \in Entries, ReserveSingly(c, e)
  PROVE  Inv'
  <1>1. /\ UNCHANGED client /\ UNCHANGED <<state, request>>
        /\ \A t \in Tabs : Owner[t] # c
    BY DEF ReserveSingly
  <1>2. \/ e \in Items /\ taken' = taken \cup {e} /\ got' = got
        \/ e \in Consumables /\ got' = [got EXCEPT ![c][e] = @ + 1] /\ taken' = taken
    BY DEF ReserveSingly, Entries
  <1>3. /\ taken' \subseteq Items
        /\ got' \in [Customers -> [Consumables -> Nat]]
        /\ \A d \in Customers : d # c => got'[d] = got[d]
    <2>1. CASE e \in Items /\ taken' = taken \cup {e} /\ got' = got
      BY <2>1, Types DEF Inv
    <2>2. CASE e \in Consumables /\ got' = [got EXCEPT ![c][e] = @ + 1] /\ taken' = taken
      <3>1. got[c] \in [Consumables -> Nat] /\ got[c][e] + 1 \in Nat
        BY <2>2, Types DEF Inv
      <3>2. [got[c] EXCEPT ![e] = @ + 1] \in [Consumables -> Nat]
        BY <3>1
      <3>3. got' = [got EXCEPT ![c] = [got[c] EXCEPT ![e] = @ + 1]]
        BY <2>2
      <3> QED
        BY <2>2, <3>2, <3>3, Types DEF Inv
    <2> QED
      BY <1>2, <2>1, <2>2
  <1>4. TypeOK'
    BY <1>1, <1>3, Types DEF Inv, TypeOK, client
  <1>5. EntriesKept'
    BY <1>1 DEF Inv, EntriesKept
  <1>6. CountOK'
    <2>1. \A d, k : Pending(d, k)' \subseteq Pending(d, k)
      BY <1>1 DEF Pending
    <2> QED
      BY <2>1, <1>1, <1>3, <1>4, CountStays DEF Inv, client
  <1> QED
    BY <1>1, <1>4, <1>5, <1>6, ClientAlone DEF Inv

\* What others do to an entry.
LEMMA ElsewiseInv ==
  ASSUME Inv, NEW e \in Entries, Elsewise(e)
  PROVE  Inv'
  <1>1. /\ UNCHANGED client /\ UNCHANGED <<taken, got, request>>
        /\ state' \in [Entries -> {"here", "out", "gone"}]
    BY Types DEF Elsewise, Inv
  <1>2. TypeOK'
    BY <1>1, Types DEF Inv, TypeOK, client
  <1>3. EntriesKept'
    BY <1>1 DEF Inv, EntriesKept
  <1>4. CountOK'
    <2>1. \A c, k : Pending(c, k)' \subseteq Pending(c, k)
      BY <1>1 DEF Pending
    <2> QED
      BY <2>1, <1>1, <1>2, CountStays DEF Inv, client
  <1> QED
    BY <1>1, <1>2, <1>3, <1>4, ClientAlone DEF Inv

\* A step that changes nothing.
LEMMA StutterInv ==
  ASSUME Inv, UNCHANGED vars
  PROVE  Inv'
  <1>1. UNCHANGED client /\ UNCHANGED <<state, taken, got, request>>
    BY DEF vars, server
  <1>2. TypeOK' /\ EntriesKept'
    BY <1>1 DEF Inv, TypeOK, EntriesKept, client
  <1>3. CountOK'
    <2>1. \A c, k : Pending(c, k)' \subseteq Pending(c, k)
      BY <1>1 DEF Pending
    <2> QED
      BY <2>1, <1>1, <1>2, CountStays DEF Inv, client
  <1> QED
    BY <1>1, <1>2, <1>3, ClientAlone DEF Inv

-----------------------------------------------------------------------------
(* The theorems. *)

\* Every step keeps the invariant.
LEMMA NextInv == Inv /\ [Next]_vars => Inv'
  <1> SUFFICES ASSUME Inv, [Next]_vars PROVE Inv'
    OBVIOUS
  <1>1. CASE \E t \in Tabs, e \in Entries : Add(t, e) \/ PutBack(t, e) \/ Remove(t, e)
    BY <1>1, AddInv, PutBackInv, RemoveInv
  <1>2. CASE \E t \in Tabs : OpenCart(t) \/ Leave(t) \/ Logout(t) \/ GuardLapses(t)
    BY <1>2, OpenCartInv, LeaveInv, LogoutInv, GuardLapsesInv
  <1>3. CASE \E t \in Tabs, r \in Requests : Submit(t, r)
    BY <1>3, SubmitInv
  <1>4. CASE \E r \in Requests, e \in Entries : Refuse(r, e) \/ Check(r, e)
    BY <1>4, RefuseInv, CheckInv
  <1>5. CASE \E r \in Requests : Commit(r) \/ Collide(r) \/ TurnAway(r) \/ Answer(r)
    <2>1. PICK r \in Requests : Commit(r) \/ Collide(r) \/ TurnAway(r) \/ Answer(r)
      BY <1>5
    <2>2. CASE Commit(r)
      BY <2>2, CommitInv
    <2>3. CASE Collide(r) \/ TurnAway(r) \/ Answer(r)
      BY <2>3, EndInv DEF Collide, TurnAway, Answer
    <2> QED
      BY <2>1, <2>2, <2>3
  <1>6. CASE \E c \in Customers, e \in Entries : ReserveSingly(c, e)
    BY <1>6, ReserveSinglyInv
  <1>7. CASE \E e \in Entries : Elsewise(e)
    BY <1>7, ElsewiseInv
  <1>8. CASE UNCHANGED vars
    BY <1>8, StutterInv
  <1> QED
    BY <1>1, <1>2, <1>3, <1>4, <1>5, <1>6, <1>7, <1>8 DEF Next, Serve

\* Browsers, submissions and what is reserved keep to the invariant: carts hold
\* entries, pages and submissions belong together, and no submission loses an entry.
THEOREM Invariance == Spec => []Inv
  BY InitInv, NextInv, PTL DEF Spec

\* A careful customer gets a consumable at most once for every time it was put
\* into the cart.
THEOREM OnceEachHolds == Spec => []OnceEach
  <1>1. Inv => OnceEach
    <2> SUFFICES ASSUME Inv, NEW c \in Customers, NEW k \in Consumables,
                        Careful(c), NEW t \in Tabs, Owner[t] = c
                 PROVE  got[c][k] <= asked[c][k]
      BY DEF OnceEach
    <2>1. got[c][k] + Cardinality(Pending(c, k)) + InCart(c, k) <= asked[c][k]
      BY DEF Inv, CountOK
    <2>2. /\ got[c][k] \in Nat /\ asked[c][k] \in Nat
          /\ Cardinality(Pending(c, k)) \in Nat /\ InCart(c, k) \in {0, 1}
      BY Types, CartAssumption, PendingFinite DEF Inv, InCart
    <2> QED
      BY <2>1, <2>2
  <1> QED
    BY <1>1, Invariance, PTL

\* The page of a careful customer's only tab has shown every entry that its
\* submission takes out of the cart.
THEOREM NothingUnseenHolds == Spec => NothingUnseen
  <1>1. Inv => \A t \in Tabs : page[t].at = "cart" /\ OneTab(Owner[t])
                                 => cart[Owner[t]] \subseteq page[t].shown
    BY DEF Inv, ShownOK, Elsewhere
  <1>2. Inv => \A t \in Tabs :
          page[t].at = "cart" /\ page'[t].at = "sent" /\ OneTab(Owner[t])
            => cart[Owner[t]] \subseteq page[t].shown
    BY <1>1
  <1> QED
    BY <1>2, Invariance, PTL DEF NothingUnseen

\* An answer after the loop names every entry of the form.
THEOREM EveryEntryReportedHolds == Spec => EveryEntryReported
  <1>1. ASSUME Inv, NEW r \in Requests, Answer(r)
        PROVE  request[r].reported = request[r].form
    <2>1. request[r] \in Submission /\ request[r] # Idle
      BY <1>1, SlotShape DEF Inv, Answer
    <2> QED
      BY <1>1, <2>1 DEF Inv, EntriesKept, Answer
  <1>2. Inv => \A r \in Requests : Answer(r) => request[r].reported = request[r].form
    BY <1>1
  <1> QED
    BY <1>2, Invariance, PTL DEF EveryEntryReported
=============================================================================
