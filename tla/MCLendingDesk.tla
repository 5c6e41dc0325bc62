---------------------------- MODULE MCLendingDesk ----------------------------
(***************************************************************************)
(* Instances of LendingDesk for TLC, with one history variable: whether    *)
(* two requests have ever been in flight at the same time.  A property of  *)
(* the desk that needs requests to run one after the other is stated as    *)
(* "as long as no requests have overlapped", so that one run covers both   *)
(* the serial and the concurrent behaviours.                               *)
(***************************************************************************)
EXTENDS LendingDesk, TLC

VARIABLE overlapped

Overlap == \E r, s \in Requests : r # s /\ ~At(r, "idle") /\ ~At(s, "idle")

HInit == Init /\ overlapped = FALSE
HNext == Next /\ overlapped' = (overlapped \/ Overlap')
HSpec == HInit /\ [][HNext]_<<vars, overlapped>>

\* Rows of one table, and the slots requests run in, are interchangeable.
Symmetry == Permutations(Items) \cup Permutations(Workers)
              \cup Permutations(Departments) \cup Permutations(Lendings)
              \cup Permutations(Reservations) \cup Permutations(Requests)
-----------------------------------------------------------------------------
\* As long as no requests have overlapped, an item that is out shows
\* "ausgeliehen", and no step leaves "ausgeliehen" on an item that is not out:
\* none but an edit form that was kept open until the item had come back, whose
\* status update_item takes (models/item.py: the status is updated in step with
\* the lendings).
KeepsStatus ==
  \A i \in Items :
    /\ OutShows(i)'
    /\ ShownIsOut(i) => ShownIsOut(i)' \/ \E r \in Requests : BringsLentBack(r, i)

SerialStatus == [][overlapped' \/ KeepsStatus]_<<vars, overlapped>>

\* As long as no requests have overlapped, the desk implements ClaimLedger: a
\* reservation keeps the item for its owner until it is used up or released.
SerialClaimLedger ==
  Claims!Init /\ [][overlapped' \/ Claims!Next]_<<holderMap, claimMap>>
=============================================================================
