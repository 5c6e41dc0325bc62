----------------------------- MODULE MCInventory ------------------------------
(***************************************************************************)
(* Instances of Inventory for TLC, with one history variable: whether a    *)
(* request has ever overlapped with anything else, and if not, whether     *)
(* anything was ever restored from the trash.                              *)
(***************************************************************************)
EXTENDS Inventory, TLC

CONSTANTS k1, k2

VARIABLE history

\* k2 is k1 with a space.
Spaced == (k1 :> k1) @@ (k2 :> k1)

\* Two requests in flight, or a step of the administration while one is.
Overlap == \/ \E r, s \in Requests : r # s /\ ~At(r, "idle") /\ ~At(s, "idle")
           \/ requests' = requests /\ \E r \in Requests : ~At(r, "idle")

HInit == Init /\ history = "serial"
HNext ==
  /\ Next
  /\ history' = IF history = "overlapped" \/ Overlap THEN "overlapped"
                ELSE IF \E x \in Things : things[x].life = "trashed" /\ Active(x)' THEN "restored"
                ELSE history
HSpec == HInit /\ [][HNext]_<<vars, history>>

\* Rows of one table, and the slots requests run in, are interchangeable.
Symmetry == Permutations(Items) \cup Permutations(Consumables) \cup Permutations(Names)
              \cup Permutations(Categories) \cup Permutations(Fields)
              \cup Permutations(Requests)
-----------------------------------------------------------------------------
\* As long as no requests have overlapped and nothing was restored, every scan
\* finds what carries the code, whatever is created, edited and deleted: the
\* forms ask the other table too.
UnrestoredScan == history = "serial" => EveryScanHits

\* As long as no requests have overlapped, an item has values only for fields
\* of its category, wherever it moved and whatever was deleted meanwhile.
SerialValuesFit == history # "overlapped" => ValuesFit
=============================================================================
