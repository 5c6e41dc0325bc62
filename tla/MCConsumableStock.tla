-------------------------- MODULE MCConsumableStock ---------------------------
(***************************************************************************)
(* Instances of ConsumableStock for TLC, with one history variable:        *)
(* whether two requests have ever been in flight at the same time.         *)
(***************************************************************************)
EXTENDS ConsumableStock, TLC

VARIABLE overlapped

Overlap == \E r, s \in Requests : r # s /\ ~At(r, "idle") /\ ~At(s, "idle")

HInit == Init /\ overlapped = FALSE
HNext == Next /\ overlapped' = (overlapped \/ Overlap')
HSpec == HInit /\ [][HNext]_<<vars, overlapped>>

\* Rows of one table, and the slots requests run in, are interchangeable.
Symmetry == Permutations(Consumables) \cup Permutations(Workers)
              \cup Permutations(Departments) \cup Permutations(Usages)
              \cup Permutations(Reservations) \cup Permutations(Requests)
-----------------------------------------------------------------------------
\* As long as no requests have overlapped, an open reservation carries the
\* department of its consumable, although update_consumable can move it, and a
\* reservation ends in one way: a withdrawal uses up, a cancellation and a forced
\* purge cancel, nothing but what is open.
SerialReservations == overlapped \/ (DepartmentsAgree /\ ReservationEndsOnce)
=============================================================================
