----------------------------- MODULE AppProcess -----------------------------
(***************************************************************************)
(* What the processes of the application keep in their memory only: the    *)
(* rate limits (LoginLimiter, of the process the client talks to) and the  *)
(* loop of the daily mail (LowStock).  Both begin anew with every start;   *)
(* main.py ties them to the process with its lifespan.                     *)
(***************************************************************************)
EXTENDS LowStock, LoginLimiter

CONSTANT Web   \* the process the client talks to

ASSUME WebAssumption == Web \in Services

pvars == <<mailVars, limiterVars>>

PInit == MailInit /\ LimiterInit

\* lifespan up to its yield.
Start(s) == StartLoop(s) /\ UNCHANGED limiterVars

\* The process ends, by a stop or a crash; its memory is gone.
Stop(s) == /\ StopLoop(s)
           /\ IF s = Web THEN Restart ELSE UNCHANGED limiterVars

\* The process answers its clients, and its entries age.
Serve == /\ loop[Web] # Off
         /\ Answer \/ EntryExpires
         /\ UNCHANGED mailVars

RunLoop(s) == Run(s) /\ UNCHANGED limiterVars

Around == World /\ UNCHANGED limiterVars

PNext == \/ \E s \in Services : Start(s) \/ Stop(s) \/ RunLoop(s)
         \/ Serve
         \/ Around

\* A process that runs goes on with its loop, and time passes for all.
Fairness == /\ WF_pvars(Tick /\ UNCHANGED limiterVars)
            /\ \A s \in Services : WF_pvars(RunLoop(s))
            /\ WF_pvars(Serve /\ FailureExpires)

PSpec == PInit /\ [][PNext]_pvars /\ Fairness

-----------------------------------------------------------------------------
\* low_stock.py: one mail a day.  Whatever starts, stops and fails, a loop mails
\* an administrator once a day, and once more for every time the clock was set.
OneMailADay == \A s \in Services, a \in Admins : mails[s][a] <= 1 + sets

\* Nothing is missed for good: while a process runs, something is low and all
\* parts work, every administrator with an address is mailed again and again,
\* whatever failed before (low_stock_check_loop logs an exception and goes on).
Reported == \A s \in Services, a \in Admins :
  <>[](loop[s] # Off /\ low /\ a \in reachable /\ broken = {}) => []<>(mails[s][a] > 0)
=============================================================================
