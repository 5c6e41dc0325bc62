------------------------------ MODULE LowStock ------------------------------
(***************************************************************************)
(* The daily mail about low stock: core/low_stock.py, run by every process *)
(* of the application from the lifespan of main.py, and send_email of      *)
(* core/email.py.                                                          *)
(*                                                                         *)
(* The loop computes once, from the local time, how long it has to sleep,  *)
(* and then sleeps that long whatever happens to the clock.  Nothing that  *)
(* it did is written down.  A day has the hours 0 .. DayLength - 1 and     *)
(* starts again; a check ends within its hour.                             *)
(***************************************************************************)
EXTENDS Integers, FiniteSets

CONSTANTS
  Services,    \* processes that run the application
  Admins,      \* active administrators
  DayLength,   \* hours of a day
  CheckHour,   \* _CHECK_HOUR
  MaxSet       \* bound: how often the local clock is put back or forth

ASSUME LowStockAssumption == /\ DayLength \in Nat \ {0}
                             /\ CheckHour \in 0 .. DayLength - 1
                             /\ MaxSet \in Nat
                             /\ IsFiniteSet(Services)

\* What has to work for a mail: the database, and the mail server together
\* with settings that are enabled.
Parts == {"database", "mail"}

VARIABLES
  hour,       \* the local time
  sets,       \* how often the clock was set
  loop,       \* per service: what low_stock_check_loop is doing
  low,        \* some consumable that is not in the trash is at its minimum
  reachable,  \* administrators with an address
  broken,     \* the parts that do not work
  mails       \* mails an administrator got today, per service

mailVars == <<hour, sets, loop, low, reachable, broken, mails>>

\* The process does not run.
Off == [at |-> "off", left |-> 0, to |-> {}]

\* asyncio.sleep of so many hours.
Sleeping(n) == [at |-> "sleep", left |-> n, to |-> {}]

\* The loop over the administrators that were read.
Mailing(A) == [at |-> "mail", left |-> 0, to |-> A]

\* Mutant: at the hour of the check, the next run is now.
UntilNextRun_Now(h) == IF h > CheckHour THEN CheckHour + DayLength - h ELSE CheckHour - h

\* Today's check if it is still to come, else tomorrow's.
UntilNextRun(h) == IF h >= CheckHour THEN CheckHour + DayLength - h ELSE CheckHour - h

NothingMailed == [s \in Services |-> [a \in Admins |-> 0]]

MailInit == /\ hour \in 0 .. DayLength - 1
            /\ sets = 0
            /\ loop = [s \in Services |-> Off]
            /\ low = FALSE
            /\ reachable = Admins
            /\ broken = {}
            /\ mails = NothingMailed

-----------------------------------------------------------------------------
(* The process. *)

Goto(s, l) == loop' = [loop EXCEPT ![s] = l]

\* lifespan: the task starts with the process ...
StartLoop(s) == /\ loop[s] = Off
                /\ Goto(s, Sleeping(UntilNextRun(hour)))
                /\ UNCHANGED <<hour, sets, low, reachable, broken, mails>>

\* ... and is cancelled with it, in the middle of its mails or not.
StopLoop(s) == /\ loop[s] # Off
               /\ Goto(s, Off)
               /\ UNCHANGED <<hour, sets, low, reachable, broken, mails>>

Due(s) == loop[s] = Sleeping(0)

\* run_low_stock_check up to the mails: nothing to report and nobody to report
\* to are the same to the loop.
Check(s) == /\ Due(s)
            /\ "database" \notin broken
            /\ Goto(s, Mailing(IF low THEN reachable ELSE {}))
            /\ UNCHANGED <<hour, sets, low, reachable, broken, mails>>

\* Mutant: the exception ends the task.
CheckFails_Ends(s) == /\ Due(s) \/ loop[s].to # {}
                      /\ "database" \in broken
                      /\ Goto(s, [at |-> "ended", left |-> 0, to |-> {}])
                      /\ UNCHANGED <<hour, sets, low, reachable, broken, mails>>

\* An exception, of the first queries or of the one for the mail settings: the
\* loop logs it and goes on with the next day, and who was not mailed is not.
CheckFails(s) == /\ Due(s) \/ loop[s].to # {}
                 /\ "database" \in broken
                 /\ Goto(s, Sleeping(UntilNextRun(hour)))
                 /\ UNCHANGED <<hour, sets, low, reachable, broken, mails>>

\* send_email to one administrator; when it fails it returns False, which
\* nobody looks at.
MailOne(s) == \E a \in loop[s].to :
             /\ "database" \notin broken
             /\ Goto(s, Mailing(loop[s].to \ {a}))
             /\ mails' = IF "mail" \in broken THEN mails ELSE [mails EXCEPT ![s][a] = @ + 1]
             /\ UNCHANGED <<hour, sets, low, reachable, broken>>

\* All mails are out; the loop starts over.
Again(s) == /\ loop[s] = Mailing({})
            /\ Goto(s, Sleeping(UntilNextRun(hour)))
            /\ UNCHANGED <<hour, sets, low, reachable, broken, mails>>

-----------------------------------------------------------------------------
(* The world. *)

\* An hour passes, unless a loop has to act first.
Tick == /\ \A s \in Services : ~Due(s) /\ loop[s].at # "mail"
        /\ hour' = (hour + 1) % DayLength
        /\ loop' = [s \in Services |-> IF loop[s].at = "sleep" THEN Sleeping(loop[s].left - 1)
                                                              ELSE loop[s]]
        /\ mails' = IF hour' = 0 THEN NothingMailed ELSE mails
        /\ UNCHANGED <<sets, low, reachable, broken>>

\* Daylight saving, or somebody corrects the clock, by an hour of the same day.
SetClock == /\ sets < MaxSet
            /\ \A s \in Services : loop[s].at # "mail"
            /\ hour' \in {hour - 1, hour + 1} \cap (0 .. DayLength - 1)
            /\ sets' = sets + 1
            /\ UNCHANGED <<loop, low, reachable, broken, mails>>

\* The stock, the addresses and the parts come and go.
StockChanges == /\ low' = ~low
                /\ UNCHANGED <<hour, sets, loop, reachable, broken, mails>>

AddressChanges == \E a \in Admins :
  /\ reachable' = IF a \in reachable THEN reachable \ {a} ELSE reachable \cup {a}
  /\ UNCHANGED <<hour, sets, loop, low, broken, mails>>

PartChanges == \E p \in Parts :
  /\ broken' = IF p \in broken THEN broken \ {p} ELSE broken \cup {p}
  /\ UNCHANGED <<hour, sets, loop, low, reachable, mails>>

World == Tick \/ SetClock \/ StockChanges \/ AddressChanges \/ PartChanges

Run(s) == Check(s) \/ CheckFails(s) \/ MailOne(s) \/ Again(s)

-----------------------------------------------------------------------------
MailTypeOK ==
  /\ hour \in 0 .. DayLength - 1
  /\ sets \in 0 .. MaxSet
  /\ loop \in [Services -> {Off} \cup {Sleeping(n) : n \in 0 .. DayLength}
                                 \cup {Mailing(A) : A \in SUBSET Admins}]
  /\ low \in BOOLEAN
  /\ reachable \subseteq Admins
  /\ broken \subseteq Parts
  /\ mails \in [Services -> [Admins -> Nat]]
=============================================================================
