------------------------------ MODULE SelfUpdate ------------------------------
(***************************************************************************)
(* The in-app update of the native LXC installation (core/self_update.py,  *)
(* routers/admin_update.py): two services run the application from one     *)
(* checkout, and a request to either may check for an update or run one.   *)
(*                                                                         *)
(* A commit of the repository is its number in the history.  The checkout, *)
(* the installed packages and the database schema are each modelled by the *)
(* commit they correspond to.                                              *)
(*                                                                         *)
(* Requests of one process only take turns where the code awaits a         *)
(* command; a process can stop the other one anywhere.                     *)
(***************************************************************************)
EXTENDS Naturals

CONSTANTS
  Processes,   \* the services scandy-lite and scandy-lite-https
  Requests,    \* slots for requests that are in flight
  MaxCommit,   \* bound on the history of origin/master
  Faults,      \* {"kill"} if processes may be killed, else {}
  None

ASSUME UpdateAssumption == MaxCommit \in Nat /\ Faults \subseteq {"kill"}

VARIABLES
  origin,        \* master in the remote repository
  tracking,      \* origin/master as fetched last
  disk,          \* the checkout (HEAD)
  requirements,  \* requirements-runtime.txt, None while there is no such file
  venv,          \* installed packages
  schema,        \* alembic version of the database
  lockFile,      \* .update.lock exists
  restart,       \* systemctl restart was scheduled and has not happened
  loaded,        \* the code a process runs
  lastCheck,     \* _last_check of a process: an error, or two commits
  requests

installed == <<tracking, disk, requirements, venv, schema>>
process == <<loaded, lastCheck>>
vars == <<origin, installed, lockFile, restart, process, requests>>

Commits == 0..MaxCommit

Unknown == [local |-> None, remote |-> None]   \* a check that failed

Check == [local : Commits \cup {None}, remote : Commits \cup {None}]

UpdateSteps == {"fetch", "reset", "pip", "alembic"}

CheckSteps == {"check.fetch", "check.local", "check.remote"}

PC == {"idle", "lock"} \cup UpdateSteps \cup CheckSteps

Request == [pc    : PC,
            at    : Processes \cup {None},
            local : Commits \cup {None}]     \* what git rev-parse HEAD said

Idle == [pc |-> "idle", at |-> None, local |-> None]

Larger(m, n) == IF m > n THEN m ELSE n

-----------------------------------------------------------------------------
At(r, pc) == requests[r].pc = pc

Updating(r) == requests[r].pc \in UpdateSteps

Continue(r, pc) == requests' = [requests EXCEPT ![r].pc = pc]

Finish(r) == requests' = [requests EXCEPT ![r] = Idle]

\* The event loop of the process is not between the test and the creation of
\* the lock file, where the code does not await.
MayRun(p) == \A r \in Requests : ~(At(r, "lock") /\ requests[r].at = p)

\* A command of this request has ended and the request goes on.
Resumes(r, pc) == At(r, pc) /\ MayRun(requests[r].at)

-----------------------------------------------------------------------------
(* run_update *)

\* Mutant: whether there is a lock file is not asked.
RunUpdate_Anyway(r, p) ==
  /\ At(r, "idle")
  /\ MayRun(p)
  /\ requests' = [requests EXCEPT ![r] = [Idle EXCEPT !.pc = "lock", !.at = p]]
  /\ UNCHANGED <<origin, installed, lockFile, restart, process>>

\* LOCK_FILE.exists()
RunUpdate(r, p) ==
  /\ At(r, "idle")
  /\ MayRun(p)
  /\ ~lockFile
  /\ requests' = [requests EXCEPT ![r] = [Idle EXCEPT !.pc = "lock", !.at = p]]
  /\ UNCHANGED <<origin, installed, lockFile, restart, process>>

\* LOCK_FILE.write_text("")
WriteLock(r) ==
  /\ At(r, "lock")
  /\ lockFile' = TRUE
  /\ Continue(r, "fetch")
  /\ UNCHANGED <<origin, installed, restart, process>>

Fetch(r) ==
  /\ Resumes(r, "fetch")
  /\ tracking' = origin
  /\ Continue(r, "reset")
  /\ UNCHANGED <<origin, disk, requirements, venv, schema, lockFile, restart, process>>

\* Mutant: the checkout is not moved to what was fetched but left behind.
Reset_Backwards(r) ==
  /\ Resumes(r, "reset")
  /\ disk' = 0
  /\ requirements' = 0
  /\ Continue(r, "pip")
  /\ UNCHANGED <<origin, tracking, venv, schema, lockFile, restart, process>>

\* git reset --hard, and the filtered requirements written for pip.
Reset(r) ==
  /\ Resumes(r, "reset")
  /\ disk' = tracking
  /\ requirements' = tracking
  /\ Continue(r, "pip")
  /\ UNCHANGED <<origin, tracking, venv, schema, lockFile, restart, process>>

\* pip fails if the file is gone (StepFails); the file is removed afterwards.
Pip(r) ==
  /\ Resumes(r, "pip")
  /\ requirements # None
  /\ venv' = requirements
  /\ requirements' = None
  /\ Continue(r, "alembic")
  /\ UNCHANGED <<origin, tracking, disk, schema, lockFile, restart, process>>

\* alembic upgrade head, and the end of a successful update: the lock file is
\* removed, the cached check dropped, the restart of both services scheduled.
Alembic(r) ==
  LET p == requests[r].at IN
  /\ Resumes(r, "alembic")
  /\ schema' = Larger(schema, disk)
  /\ lockFile' = FALSE
  /\ lastCheck' = [lastCheck EXCEPT ![p] = None]
  /\ restart' = TRUE
  /\ Finish(r)
  /\ UNCHANGED <<origin, tracking, disk, requirements, venv, loaded>>

\* Mutant: the lock file is removed after a success only.
StepFails_KeepsLock(r) ==
  /\ Updating(r) /\ MayRun(requests[r].at)
  /\ Finish(r)
  /\ UNCHANGED <<origin, installed, lockFile, restart, process>>

\* Mutant: the services restart whether the update succeeded or not.
StepFails_Restarts(r) ==
  /\ Updating(r) /\ MayRun(requests[r].at)
  /\ requirements' = IF At(r, "pip") THEN None ELSE requirements
  /\ lockFile' = FALSE
  /\ restart' = TRUE
  /\ Finish(r)
  /\ UNCHANGED <<origin, tracking, disk, venv, schema, process>>

\* A command fails or is killed after its timeout.  It may have done its work:
\* git may have updated what it was asked to, every migration commits on its
\* own.  The lock file is removed, nothing is undone, nothing restarts.
StepFails(r) ==
  /\ Updating(r) /\ MayRun(requests[r].at)
  /\ tracking' \in IF At(r, "fetch") THEN {tracking, origin} ELSE {tracking}
  /\ disk' \in IF At(r, "reset") THEN {disk, tracking} ELSE {disk}
  /\ venv' \in IF At(r, "pip") /\ requirements # None THEN {venv, requirements} ELSE {venv}
  /\ schema' \in IF At(r, "alembic") THEN schema..Larger(schema, disk) ELSE {schema}
  /\ requirements' = IF At(r, "pip") THEN None ELSE requirements
  /\ lockFile' = FALSE
  /\ Finish(r)
  /\ UNCHANGED <<origin, restart, process>>

-----------------------------------------------------------------------------
(* check_for_update *)

\* trigger_check, the only caller, passes force=True: the cache is not looked at,
\* and how old it is does not matter.
CheckForUpdate(r, p) ==
  /\ At(r, "idle")
  /\ MayRun(p)
  /\ requests' = [requests EXCEPT ![r] = [Idle EXCEPT !.pc = "check.fetch", !.at = p]]
  /\ UNCHANGED <<origin, installed, lockFile, restart, process>>

CheckFetch(r) ==
  /\ Resumes(r, "check.fetch")
  /\ tracking' = origin
  /\ Continue(r, "check.local")
  /\ UNCHANGED <<origin, disk, requirements, venv, schema, lockFile, restart, process>>

CheckLocal(r) ==
  /\ Resumes(r, "check.local")
  /\ requests' = [requests EXCEPT ![r].pc = "check.remote", ![r].local = disk]
  /\ UNCHANGED <<origin, installed, lockFile, restart, process>>

Cache(r, check) ==
  LET p == requests[r].at IN
  /\ lastCheck' = [lastCheck EXCEPT ![p] = check]
  /\ Finish(r)
  /\ UNCHANGED <<origin, lockFile, restart, loaded>>

CheckRemote(r) ==
  /\ Resumes(r, "check.remote")
  /\ Cache(r, [local |-> requests[r].local, remote |-> tracking])
  /\ UNCHANGED installed

CheckFails(r) ==
  /\ requests[r].pc \in CheckSteps /\ MayRun(requests[r].at)
  /\ Cache(r, Unknown)
  /\ tracking' \in IF At(r, "check.fetch") THEN {tracking, origin} ELSE {tracking}
  /\ UNCHANGED <<disk, requirements, venv, schema>>

-----------------------------------------------------------------------------
(* Around the program *)

Push == /\ origin < MaxCommit
        /\ origin' = origin + 1
        /\ UNCHANGED <<installed, lockFile, restart, process, requests>>

\* All requests are gone and both services load what is on the disk.
Reload == /\ restart' = FALSE
          /\ loaded' = [p \in Processes |-> disk]
          /\ lastCheck' = [p \in Processes |-> None]
          /\ requests' = [r \in Requests |-> Idle]
          /\ UNCHANGED <<origin, installed>>

\* The scheduled systemctl restart.  The commands of an update that is running
\* get SIGTERM with the service and the update ends as failed.
Restart == /\ restart
           /\ Reload
           /\ lockFile' = IF \E r \in Requests : Updating(r) THEN FALSE ELSE lockFile

\* The machine or the services are killed: nothing cleans up.
Kill == /\ "kill" \in Faults
        /\ Reload
        /\ UNCHANGED lockFile

-----------------------------------------------------------------------------
Init == /\ origin = 0 /\ tracking = 0 /\ disk = 0 /\ venv = 0 /\ schema = 0
        /\ requirements = None
        /\ lockFile = FALSE
        /\ restart = FALSE
        /\ loaded = [p \in Processes |-> 0]
        /\ lastCheck = [p \in Processes |-> None]
        /\ requests = [r \in Requests |-> Idle]

UpdateStep(r) == WriteLock(r) \/ Fetch(r) \/ Reset(r) \/ Pip(r) \/ Alembic(r) \/ StepFails(r)

CheckStep(r) == CheckFetch(r) \/ CheckLocal(r) \/ CheckRemote(r) \/ CheckFails(r)

\* Everything but a kill.
Step == \/ \E r \in Requests : \/ \E p \in Processes : RunUpdate(r, p) \/ CheckForUpdate(r, p)
                               \/ UpdateStep(r) \/ CheckStep(r)
        \/ Push \/ Restart

Next == Step \/ Kill

Spec == Init /\ [][Next]_vars

\* Every command has a timeout, so every request goes on (_run).
FairSpec == Spec /\ \A r \in Requests : WF_vars(UpdateStep(r) \/ CheckStep(r))

-----------------------------------------------------------------------------
\* Types, and the order of what is installed: the checkout is never ahead of
\* what was fetched, the schema and the running code never ahead of the
\* checkout, whatever fails and whoever runs an update at the same time.
TypeOK ==
  /\ origin \in Commits /\ tracking \in 0..origin /\ disk \in 0..tracking
  /\ venv \in 0..disk /\ schema \in 0..disk
  /\ requirements \in 0..disk \cup {None}
  /\ lockFile \in BOOLEAN /\ restart \in BOOLEAN
  /\ loaded \in [Processes -> 0..disk]
  /\ lastCheck \in [Processes -> Check \cup {None}]
  /\ requests \in [Requests -> Request]

\* No failure, kill or overlap of updates takes the installation back.
NeverBack == [][disk' >= disk /\ schema' >= schema /\ \A p \in Processes : loaded'[p] >= loaded[p]]_vars

\* One update at a time: nothing awaits between the test and the creation of
\* the lock file.  Updates of the two services may still overlap (MCSelfUpdate).
OneUpdate == \A r, s \in Requests : Updating(r) /\ Updating(s) => r = s

\* The lock file is there exactly while an update is running (run_update: "Es
\* laeuft bereits ein Update (Sperrdatei vorhanden)").  True while nothing is
\* killed and updates do not overlap with each other or with a restart.
LockMeansUpdate == lockFile <=> \E r \in Requests : Updating(r)

\* If nothing is killed, an update ends and leaves no lock file.
LockIsReleased == lockFile ~> ~lockFile

\* After a failed step nothing restarts: no process loads code whose
\* migrations did not go through (run_update's docstring).  True while nothing
\* is killed and updates do not overlap with each other or with a restart.
LoadedIsMigrated == \A p \in Processes : loaded[p] <= schema
=============================================================================
