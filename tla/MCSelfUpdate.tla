----------------------------- MODULE MCSelfUpdate -----------------------------
(***************************************************************************)
(* Instances of SelfUpdate for TLC, with one history variable: whether     *)
(* anything has happened that the lock file does not cover, that is, a     *)
(* kill, updates of both services past the test of the lock file at once,  *)
(* or an update past it while the restart of the last one is pending.      *)
(***************************************************************************)
EXTENDS SelfUpdate

VARIABLE disturbed

Entered == {r \in Requests : At(r, "lock") \/ Updating(r)}

Disturbance == \/ \E r, s \in Entered : requests[r].at # requests[s].at
               \/ restart /\ Entered # {}

HInit == Init /\ disturbed = FALSE
HNext == \/ Step /\ disturbed' = (disturbed \/ Disturbance')
         \/ Kill /\ disturbed' = TRUE
HSpec == HInit /\ [][HNext]_<<vars, disturbed>>

\* Every command has a timeout, so every request goes on (_run).
HFairSpec ==
  HSpec /\ \A r \in Requests : WF_<<vars, disturbed>>((UpdateStep(r) \/ CheckStep(r)) /\ HNext)
-----------------------------------------------------------------------------
\* Undisturbed, the lock file is there exactly while one update is running, so
\* "Es laeuft bereits ein Update" is what it says, whichever step fails, and of
\* two requests of one service the second finds it, wherever the first one awaits
\* a command.
UndisturbedLock == disturbed \/ (LockMeansUpdate /\ OneUpdate)

\* Undisturbed, no service ever loads code whose migrations did not go through:
\* an update that fails restarts nothing and the next one completes it.
UndisturbedLoad == disturbed \/ LoadedIsMigrated

\* Undisturbed, every update ends and takes its lock file along.
UndisturbedRelease == <>disturbed \/ LockIsReleased
=============================================================================
