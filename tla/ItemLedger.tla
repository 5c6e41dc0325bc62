------------------------------ MODULE ItemLedger ------------------------------
(***************************************************************************)
(* What the desk promises about who has what, whatever requests overlap:   *)
(* an item is handed only to somebody while nobody has it, and it changes  *)
(* hands only by being taken back first.  One request may hand out or take *)
(* back several items.                                                     *)
(***************************************************************************)
CONSTANTS Items, Workers, None

VARIABLE holder   \* the worker an item is out to, or None

Init == holder = [i \in Items |-> None]

HandOut(w, S) ==
  /\ \A i \in S : holder[i] = None
  /\ holder' = [i \in Items |-> IF i \in S THEN w ELSE holder[i]]

TakeBack(S) ==
  holder' = [i \in Items |-> IF i \in S THEN None ELSE holder[i]]

Next == \E S \in SUBSET Items : TakeBack(S) \/ \E w \in Workers : HandOut(w, S)

Spec == Init /\ [][Next]_holder
=============================================================================
