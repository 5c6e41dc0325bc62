--------------------------- MODULE MCLegacyImport ---------------------------
(***************************************************************************)
(* Instances of LegacyImport for TLC, with one history variable: whether   *)
(* anything has ever happened while an import was in flight.               *)
(***************************************************************************)
EXTENDS LegacyImport, TLC

CONSTANTS t1, k1, w1, l1, e1, e2

\* The worker has the login, lends the tool and withdraws from the supply.
TheLogins  == (w1 :> l1)
TheThings  == (e1 :> t1) @@ (e2 :> k1)
TheWorkers == (e1 :> w1) @@ (e2 :> w1)

VARIABLE crossed

InFlight == {i \in Imports : import[i] # Idle}

HInit == Init /\ crossed = FALSE

\* Something other than its end has happened while an import was in flight.
HNext == /\ Next
         /\ crossed' = (crossed \/ (InFlight # {} /\ InFlight \subseteq InFlight'))

HSpec == HInit /\ [][HNext]_<<vars, crossed>>

\* "defekt" and "ausgemustert" are treated alike.
Symmetry == Permutations(Unfit)

-----------------------------------------------------------------------------
\* What an import would do now: nothing.  Workers without a badge are left out,
\* who are made anew by every import (build_worker_kwargs).
Quiet(p) ==
  /\ NewThings(p) = {} /\ p.records = {}
  /\ \A q \in Rows(Badged \cup Logins) : PersonsAfter(p)[q] = person[q]

\* As long as nothing has happened during an import, it is idempotent
\* (migrate_from_mongodb.py: "mehrfaches Ausfuehren mit --apply legt nichts
\* doppelt an"): a second one right after it changes nothing, whatever was lent,
\* trashed, purged or given a new badge before, here and in the old system.
SecondChangesNothing ==
  [][\A i \in Imports, kind \in {"cli", "web"} :
       ~crossed /\ import[i].kind = kind /\ ImportCommit(i)
         => (\A p \in {Plan(kind, says) : says \in [Tools -> OldStatus]} : Quiet(p))']_<<vars, crossed>>

\* As long as nothing has happened during an import, an item that is lent, here or
\* by a lending that an import took over, is not offered as available, whatever
\* status the old system and the forms gave it: map_item_status does not take
\* "ausgeliehen" over, and _migrate_lendings derives it from the open lendings.
SerialStatus ==
  \/ crossed
  \/ \A y \in DOMAIN record :
       record[y].is = "open" => status[record[y].thing] # "verfuegbar"

\* Two open lendings of one tool: one here, one in the old system.
Conflict == \E y \in DOMAIN record, r \in source.open :
              record[y].is = "open" /\ y[1] # r /\ record[y].thing[1] = ThingOf[r]

\* As long as nothing has happened during an import and nothing was disposed of,
\* every import goes through, unless a tool is lent here and there.
SerialGoesThrough == \/ crossed \/ disposals > 0 \/ Conflict
                     \/ \A i \in InFlight : Room(import[i]) => Admits(import[i])
=============================================================================
