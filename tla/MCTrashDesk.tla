----------------------------- MODULE MCTrashDesk ------------------------------
(***************************************************************************)
(* Instances of TrashDesk for TLC.  The history variable of MCLendingDesk  *)
(* says here whether any two requests, of the desk or of the trash, have   *)
(* ever been in flight together.                                           *)
(***************************************************************************)
EXTENDS TrashDesk, MCLendingDesk

CONSTANTS w1, w2, d1, d2

\* The home departments of the workers.
TwoHomes == (w1 :> d1) @@ (w2 :> d2)

\* Workers and departments are told apart by Home, so they are not permuted.
TSymmetry == Permutations(Items) \cup Permutations(Lendings)
               \cup Permutations(Reservations) \cup Permutations(Requests)

TOverlap == \/ Overlap
            \/ \E r \in Requests, a \in Slots : ~At(r, "idle") /\ ~TAt(a, "idle")
            \/ \E a, b \in Slots : a # b /\ ~TAt(a, "idle") /\ ~TAt(b, "idle")

THInit == TInit /\ overlapped = FALSE
THNext == TNext /\ overlapped' = (overlapped \/ TOverlap')
THSpec == THInit /\ [][THNext]_<<tvars, overlapped>>
-----------------------------------------------------------------------------
\* As long as no requests have overlapped, what is open is whole: it has its
\* item and its worker, for a purge closes what it detaches or is blocked by
\* it; it carries the department of its item, by which purge_department looks it
\* up; and a reservation ends once, for a forced purge cancels the open ones only.
SerialOpenRows == overlapped \/ (OpenHasParties /\ DepartmentsAgree /\ ReservationEndsOnce)

\* As long as no requests have overlapped, an item that is out shows
\* "ausgeliehen", whatever was thrown away, restored or purged meanwhile.
SerialOutShowsLent == overlapped \/ OutShowsLent
=============================================================================
