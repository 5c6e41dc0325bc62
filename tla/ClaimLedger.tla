----------------------------- MODULE ClaimLedger ------------------------------
(***************************************************************************)
(* What the desk promises about holding and claiming (reserving) an item   *)
(* while requests do not overlap: only an item that is in can be claimed,  *)
(* by one worker at a time; a claim keeps everybody else from getting the  *)
(* item and is used up when its owner gets it.                             *)
(***************************************************************************)
CONSTANTS Items, Workers, None

VARIABLES holder,  \* the worker an item is out to, or None
          claim    \* the worker an item is reserved for, or None

Init == /\ holder = [i \in Items |-> None]
        /\ claim = [i \in Items |-> None]

Claim(i, w) == /\ holder[i] = None
               /\ claim[i] = None
               /\ claim' = [claim EXCEPT ![i] = w]
               /\ UNCHANGED holder

Release(i) == /\ claim' = [claim EXCEPT ![i] = None]
              /\ UNCHANGED holder

HandOut(w, S) ==
  /\ \A i \in S : holder[i] = None /\ claim[i] \in {None, w}
  /\ holder' = [i \in Items |-> IF i \in S THEN w ELSE holder[i]]
  /\ claim' = [i \in Items |-> IF i \in S THEN None ELSE claim[i]]

TakeBack(S) ==
  /\ holder' = [i \in Items |-> IF i \in S THEN None ELSE holder[i]]
  /\ UNCHANGED claim

Next == \/ \E i \in Items : Release(i) \/ \E w \in Workers : Claim(i, w)
        \/ \E S \in SUBSET Items : TakeBack(S) \/ \E w \in Workers : HandOut(w, S)

Spec == Init /\ [][Next]_<<holder, claim>>
=============================================================================
