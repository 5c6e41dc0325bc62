--------------------------- MODULE SelfUpdate_proofs --------------------------
(***************************************************************************)
(* Theorems about SelfUpdate for any number of services and requests and   *)
(* any history, kills included.  TypeOK is inductive as it stands: it says *)
(* in which order commits reach the checkout, the packages, the schema and *)
(* the processes, and that order is what makes no step go back.  That one  *)
(* update runs at a time, that the lock file means it and that it loads    *)
(* only migrated code holds until something happens that the lock file     *)
(* does not cover (MCSelfUpdate).                                          *)
(***************************************************************************)
EXTENDS MCSelfUpdate, TLAPS

LEMMA InitTypeOK == Init => TypeOK
<1> SUFFICES ASSUME Init PROVE TypeOK
  OBVIOUS
<1>1. requests \in [Requests -> Request]
  BY DEF Init, Request, PC, Idle
<1>2. /\ loaded \in [Processes -> 0..disk]
      /\ lastCheck \in [Processes -> Check \cup {None}]
  BY DEF Init
<1>3. 0 \in 0..0 /\ 0 \in Commits
  BY UpdateAssumption DEF Commits
<1> QED
  BY <1>1, <1>2, <1>3 DEF Init, TypeOK

\* What every action but Reload does to the requests.
LEMMA RequestsType ==
  ASSUME TypeOK, NEW r \in Requests, NEW q \in Request,
         requests' = [requests EXCEPT ![r] = q]
  PROVE  requests' \in [Requests -> Request]
BY DEF TypeOK

LEMMA RequestTypes ==
  ASSUME TypeOK, NEW r \in Requests
  PROVE  /\ Idle \in Request
         /\ \A pc \in PC : [requests[r] EXCEPT !.pc = pc] \in Request
         /\ \A pc \in PC, p \in Processes : [Idle EXCEPT !.pc = pc, !.at = p] \in Request
         /\ [requests[r] EXCEPT !.pc = "check.remote", !.local = disk] \in Request
<1>1. Idle \in Request /\ requests[r] \in Request
  BY DEF TypeOK, Request, Idle, PC
<1>2. disk \in Commits
  BY UpdateAssumption DEF TypeOK, Commits
<1>3. "check.remote" \in PC
  BY DEF PC, CheckSteps
<1> QED
  BY <1>1, <1>2, <1>3 DEF Request, Idle

\* The order that TypeOK keeps, without requests and caches.
Ordered ==
  /\ origin \in Commits /\ tracking \in 0..origin /\ disk \in 0..tracking
  /\ venv \in 0..disk /\ schema \in 0..disk
  /\ requirements \in 0..disk \cup {None}
  /\ lockFile \in BOOLEAN /\ restart \in BOOLEAN
  /\ loaded \in [Processes -> 0..disk]

Forward == disk' >= disk /\ schema' >= schema /\ \A p \in Processes : loaded'[p] >= loaded[p]

-----------------------------------------------------------------------------
LEMMA UpdateStepOrdered ==
  ASSUME Ordered, NEW r \in Requests, UpdateStep(r)
  PROVE  Ordered' /\ Forward
<1> USE UpdateAssumption DEF Ordered, Forward, Commits
<1>1. CASE WriteLock(r)
  BY <1>1 DEF WriteLock, installed, process
<1>2. CASE Fetch(r)
  BY <1>2 DEF Fetch, process
<1>3. CASE Reset(r)
  BY <1>3 DEF Reset, process
<1>4. CASE Pip(r)
  BY <1>4 DEF Pip, process
<1>5. CASE Alembic(r)
  <2>1. schema' = disk /\ schema' >= schema
    BY <1>5 DEF Alembic, Larger
  <2>2. UNCHANGED <<origin, tracking, disk, requirements, venv, loaded>>
    BY <1>5 DEF Alembic
  <2>3. lockFile' \in BOOLEAN /\ restart' \in BOOLEAN
    BY <1>5 DEF Alembic
  <2>4. Forward
    BY <2>1, <2>2
  <2>5. Ordered'
    BY <2>1, <2>2, <2>3
  <2> QED
    BY <2>4, <2>5
<1>6. CASE StepFails(r)
  <2>1. UNCHANGED <<origin, restart, loaded>> /\ lockFile' = FALSE
    BY <1>6 DEF StepFails, process
  <2>2. tracking' \in {tracking, origin}
    BY <1>6 DEF StepFails
  <2>3. disk' \in {disk, tracking}
    BY <1>6 DEF StepFails
  <2>4. schema' \in schema..disk
    BY <1>6 DEF StepFails, Larger
  <2>5. venv' \in 0..disk
    BY <1>6 DEF StepFails
  <2>6. requirements' \in {requirements, None}
    BY <1>6 DEF StepFails
  <2>7. tracking' >= disk' /\ tracking' \in 0..origin /\ disk' >= disk
    BY <1>6, <2>2, <2>3 DEF StepFails
  <2>8. loaded' \in [Processes -> 0..disk'] /\ \A p \in Processes : loaded'[p] >= loaded[p]
    BY <2>1, <2>3, <2>7
  <2>9. Forward
    BY <2>4, <2>7, <2>8
  <2>10. Ordered'
    <3>1. /\ origin' \in Commits /\ tracking' \in 0..origin' /\ disk' \in 0..tracking'
      BY <2>1, <2>2, <2>3, <2>7
    <3>2. venv' \in 0..disk' /\ schema' \in 0..disk'
      <4>1. disk \in Nat /\ disk' \in Nat /\ disk' >= disk /\ schema >= 0
        BY <2>3, <2>7
      <4> QED
        BY <2>4, <2>5, <4>1
    <3>3. requirements' \in 0..disk' \cup {None}
      BY <2>3, <2>6, <2>7
    <3> QED
      BY <2>1, <2>8, <3>1, <3>2, <3>3
  <2> QED
    BY <2>9, <2>10
<1> QED
  BY <1>1, <1>2, <1>3, <1>4, <1>5, <1>6 DEF UpdateStep

LEMMA NextOrdered ==
  ASSUME Ordered, [Next]_vars
  PROVE  Ordered' /\ Forward
<1> USE UpdateAssumption DEF Ordered, Forward, Commits
<1>1. ASSUME NEW r \in Requests, UpdateStep(r)
      PROVE  Ordered' /\ Forward
  BY <1>1, UpdateStepOrdered
<1>2. ASSUME NEW r \in Requests, CheckStep(r)
      PROVE  Ordered' /\ Forward
  BY <1>2 DEF CheckStep, CheckFetch, CheckLocal, CheckRemote, CheckFails, Cache, installed,
              process
<1>3. ASSUME NEW r \in Requests, NEW p \in Processes, RunUpdate(r, p) \/ CheckForUpdate(r, p)
      PROVE  Ordered' /\ Forward
  BY <1>3 DEF RunUpdate, CheckForUpdate, installed, process
<1>4. CASE Push
  BY <1>4 DEF Push, installed, process
<1>5. CASE Restart \/ Kill
  <2>1. loaded' = [p \in Processes |-> disk] /\ restart' = FALSE
    BY <1>5 DEF Restart, Kill, Reload
  <2>2. UNCHANGED <<origin, tracking, disk, requirements, venv, schema>>
    BY <1>5 DEF Restart, Kill, Reload, installed
  <2>3. lockFile' \in BOOLEAN
    BY <1>5 DEF Restart, Kill
  <2>4. Forward
    BY <2>1, <2>2
  <2>5. Ordered'
    <3>1. loaded' \in [Processes -> 0..disk']
      BY <2>1, <2>2
    <3> QED
      BY <2>1, <2>2, <2>3, <3>1
  <2> QED
    BY <2>4, <2>5
<1>6. CASE UNCHANGED vars
  BY <1>6 DEF vars, installed, process
<1> QED
  BY <1>1, <1>2, <1>3, <1>4, <1>5, <1>6 DEF Next, Step

-----------------------------------------------------------------------------
LEMMA NextTypeOK ==
  ASSUME TypeOK, [Next]_vars
  PROVE  TypeOK'
<1>1. Ordered'
  BY NextOrdered DEF TypeOK, Ordered
<1>2. requests' \in [Requests -> Request] /\ lastCheck' \in [Processes -> Check \cup {None}]
  <2> USE DEF PC, UpdateSteps, CheckSteps
  <2>1. ASSUME NEW r \in Requests, UpdateStep(r)
        PROVE  /\ requests' \in [Requests -> Request]
               /\ lastCheck' \in [Processes -> Check \cup {None}]
    <3>1. lastCheck' \in [Processes -> Check \cup {None}]
      BY <2>1 DEF UpdateStep, WriteLock, Fetch, Reset, Pip, Alembic, StepFails, process, TypeOK
    <3>2. \E q \in Request : requests' = [requests EXCEPT ![r] = q]
      <4>1. Finish(r) \/ \E pc \in PC : Continue(r, pc)
        BY <2>1 DEF UpdateStep, WriteLock, Fetch, Reset, Pip, Alembic, StepFails
      <4> QED
        BY <4>1, RequestTypes DEF Finish, Continue, TypeOK
    <3> QED
      BY <3>1, <3>2, RequestsType
  <2>2. ASSUME NEW r \in Requests, CheckStep(r)
        PROVE  /\ requests' \in [Requests -> Request]
               /\ lastCheck' \in [Processes -> Check \cup {None}]
    <3>1. /\ Unknown \in Check
          /\ [local |-> requests[r].local, remote |-> tracking] \in Check
      BY UpdateAssumption DEF TypeOK, Request, Check, Unknown, Commits
    <3>2. lastCheck' \in [Processes -> Check \cup {None}]
      BY <2>2, <3>1 DEF CheckStep, CheckFetch, CheckLocal, CheckRemote, CheckFails, Cache,
                        process, TypeOK
    <3>3. \E q \in Request : requests' = [requests EXCEPT ![r] = q]
      <4>1. CASE CheckFetch(r)
        BY <4>1, RequestTypes DEF CheckFetch, Continue, TypeOK
      <4>2. CASE CheckLocal(r)
        BY <4>2, RequestTypes DEF CheckLocal, TypeOK
      <4>3. CASE CheckRemote(r) \/ CheckFails(r)
        BY <4>3, RequestTypes DEF CheckRemote, CheckFails, Cache, Finish
      <4> QED
        BY <2>2, <4>1, <4>2, <4>3 DEF CheckStep
    <3> QED
      BY <3>2, <3>3, RequestsType
  <2>3. ASSUME NEW r \in Requests, NEW p \in Processes, RunUpdate(r, p) \/ CheckForUpdate(r, p)
        PROVE  /\ requests' \in [Requests -> Request]
               /\ lastCheck' \in [Processes -> Check \cup {None}]
    <3>1. \E q \in Request : requests' = [requests EXCEPT ![r] = q]
      BY <2>3, RequestTypes DEF RunUpdate, CheckForUpdate
    <3>2. lastCheck' = lastCheck
      BY <2>3 DEF RunUpdate, CheckForUpdate, process
    <3> QED
      BY <3>1, <3>2, RequestsType DEF TypeOK
  <2>4. CASE Push \/ UNCHANGED vars
    BY <2>4 DEF Push, vars, process, TypeOK
  <2>5. CASE Restart \/ Kill
    <3>1. Idle \in Request
      BY DEF Request, Idle
    <3> QED
      BY <2>5, <3>1 DEF Restart, Kill, Reload
  <2> QED
    BY <2>1, <2>2, <2>3, <2>4, <2>5 DEF Next, Step
<1> QED
  BY <1>1, <1>2 DEF Ordered, TypeOK

-----------------------------------------------------------------------------
\* Types, and the order of what is installed (run_update: fetch, reset, pip,
\* alembic, restart), however updates, failures and kills interleave.
THEOREM TypeCorrect == Spec => []TypeOK
BY InitTypeOK, NextTypeOK, PTL DEF Spec

\* Neither the checkout nor the schema nor the running code ever goes back, for
\* any number of services that update at the same time.
THEOREM NeverBackHolds == Spec => NeverBack
<1>1. TypeOK /\ [Next]_vars => [Forward]_vars
  BY NextOrdered DEF TypeOK, Ordered
<1> QED
  BY InitTypeOK, NextTypeOK, <1>1, PTL DEF Spec, NeverBack, Forward

-----------------------------------------------------------------------------
(* As long as the lock file covers what happens.                             *)

\* Past the test of the lock file.
PastTest(r) == At(r, "lock") \/ Updating(r)

\* What the steps of one request do to the requests that have entered.
LEMMA OtherRequests ==
  ASSUME TypeOK, NEW r \in Requests, NEW q, requests' = [requests EXCEPT ![r] = q]
  PROVE  requests'[r] = q /\ \A s \in Requests \ {r} : requests'[s] = requests[s]
BY DEF TypeOK

\* One update at most is past the test; the lock file is there exactly while it
\* runs its commands; and when it has ended well, the schema is that of the
\* checkout until both services have loaded it.
Covered ==
  /\ \A r, s \in Requests : PastTest(r) /\ PastTest(s) => r = s
  /\ lockFile <=> \E r \in Requests : Updating(r)
  /\ restart => \A r \in Requests : ~PastTest(r)
  /\ restart => schema = disk
  /\ \A p \in Processes : loaded[p] <= schema

Undisturbed == ~disturbed => Covered

\* What is installed stays as it is.
SameCode == UNCHANGED <<disk, schema, loaded>>

\* A request goes on with its update.
LEMMA CoveredGoesOn ==
  ASSUME TypeOK, Covered, NEW r \in Requests, PastTest(r), NEW pc \in UpdateSteps, Continue(r, pc),
         lockFile', restart' = restart, schema' = schema, loaded' = loaded
  PROVE  Covered'
<1>1. requests'[r].pc = pc /\ \A s \in Requests \ {r} : requests'[s] = requests[s]
  BY DEF TypeOK, Request, Continue
<1>2. ~restart
  BY DEF Covered
<1> QED
  BY <1>1, <1>2 DEF Covered, PastTest, Updating, At

\* A request that has nothing to do with an update moves on.
LEMMA CoveredElsewhere ==
  ASSUME TypeOK, Covered, NEW r \in Requests, ~PastTest(r),
         requests'[r].pc \notin {"lock"} \cup UpdateSteps,
         \A s \in Requests \ {r} : requests'[s] = requests[s],
         UNCHANGED <<lockFile, restart>>, SameCode
  PROVE  Covered'
<1>1. \A s \in Requests : PastTest(s)' <=> PastTest(s)
  BY DEF PastTest, Updating, At
<1>2. \A s \in Requests : Updating(s)' <=> Updating(s)
  BY DEF PastTest, Updating, At
<1> QED
  BY <1>1, <1>2 DEF Covered, SameCode

\* The one update ends: its lock file is gone.
LEMMA CoveredEnds ==
  ASSUME TypeOK, Covered, NEW r \in Requests, Updating(r), Finish(r), lockFile' = FALSE,
         schema' \in Nat, schema' >= schema, loaded' = loaded, restart' => schema' = disk'
  PROVE  Covered'
<1>1. \A s \in Requests : s # r => ~PastTest(s)
  BY DEF Covered, PastTest
<1>2. requests'[r] = Idle /\ \A s \in Requests \ {r} : requests'[s] = requests[s]
  BY OtherRequests DEF Finish
<1>3. \A s \in Requests : ~PastTest(s)' /\ ~Updating(s)'
  BY <1>1, <1>2 DEF PastTest, Updating, At, Idle, UpdateSteps
<1>4. \A p \in Processes : loaded[p] \in Nat /\ loaded[p] <= schema
  BY DEF TypeOK, Covered
<1>5. schema \in Nat
  BY DEF TypeOK
<1>6. \A p \in Processes : loaded'[p] <= schema'
  BY <1>4, <1>5
<1> QED
  BY <1>3, <1>6 DEF Covered

LEMMA StepCovered ==
  ASSUME TypeOK, Covered, Step, ~Disturbance'
  PROVE  Covered'
<1>1. ASSUME NEW r \in Requests, NEW p \in Processes, RunUpdate(r, p)
      PROVE  Covered'
  <2>1. /\ requests'[r].pc = "lock" /\ requests'[r].at = p
        /\ \A s \in Requests \ {r} : requests'[s] = requests[s]
        /\ UNCHANGED <<lockFile, restart>> /\ SameCode
    BY <1>1 DEF RunUpdate, TypeOK, Idle, SameCode, installed, process
  <2>2. ~lockFile /\ \A s \in Requests : ~Updating(s)
    BY <1>1 DEF RunUpdate, Covered
  <2>3. ~restart /\ \A s \in Requests : At(s, "lock")' => requests'[s].at = p
    BY <2>1 DEF Disturbance, Entered, At
  <2>4. \A s \in Requests : ~PastTest(s)
    BY <1>1, <2>1, <2>2, <2>3 DEF RunUpdate, MayRun, PastTest, At
  <2>5. /\ \A s \in Requests \ {r} : ~PastTest(s)'
        /\ \A s \in Requests : ~Updating(s)'
    BY <2>1, <2>2, <2>4 DEF PastTest, Updating, At, UpdateSteps
  <2> QED
    BY <2>1, <2>2, <2>3, <2>5 DEF Covered, SameCode
<1>2. ASSUME NEW r \in Requests, WriteLock(r)
      PROVE  Covered'
  <2>1. /\ Continue(r, "fetch") /\ lockFile' /\ restart' = restart /\ schema' = schema
        /\ loaded' = loaded /\ PastTest(r) /\ "fetch" \in UpdateSteps
    BY <1>2 DEF WriteLock, PastTest, UpdateSteps, installed, process
  <2> QED
    BY <2>1, CoveredGoesOn
<1>3. ASSUME NEW r \in Requests, Fetch(r) \/ Reset(r) \/ Pip(r)
      PROVE  Covered'
  <2>1. PastTest(r) /\ Updating(r)
    BY <1>3 DEF Fetch, Reset, Pip, Resumes, At, PastTest, Updating, UpdateSteps
  <2>2. lockFile /\ lockFile' = lockFile /\ UNCHANGED <<restart, schema, loaded>>
    BY <1>3, <2>1 DEF Fetch, Reset, Pip, process, Covered
  <2>3. \E pc \in UpdateSteps : Continue(r, pc)
    BY <1>3 DEF Fetch, Reset, Pip, UpdateSteps
  <2> QED
    BY <2>1, <2>2, <2>3, CoveredGoesOn
<1>4. ASSUME NEW r \in Requests, Alembic(r)
      PROVE  Covered'
  <2>1. Updating(r) /\ Finish(r) /\ lockFile' = FALSE /\ loaded' = loaded /\ disk' = disk
    BY <1>4 DEF Alembic, Resumes, At, Updating, UpdateSteps
  <2>2. disk \in Nat /\ schema \in 0..disk
    BY DEF TypeOK
  <2>3. schema' = disk
    BY <1>4, <2>2 DEF Alembic, Larger
  <2>4. schema' \in Nat /\ schema' >= schema /\ schema' = disk'
    BY <2>1, <2>2, <2>3
  <2> QED
    BY <2>1, <2>4, CoveredEnds
<1>5. ASSUME NEW r \in Requests, StepFails(r)
      PROVE  Covered'
  <2>1. Updating(r) /\ Finish(r) /\ lockFile' = FALSE /\ loaded' = loaded /\ restart' = restart
    BY <1>5 DEF StepFails, process
  <2>2. ~restart
    BY <2>1 DEF Covered, PastTest
  <2>3. schema \in Nat /\ Larger(schema, disk) \in Nat
    BY DEF TypeOK, Larger
  <2>4. schema' \in Nat /\ schema' >= schema
    BY <1>5, <2>3 DEF StepFails
  <2> QED
    BY <2>1, <2>2, <2>4, CoveredEnds
<1>6. ASSUME NEW r \in Requests, NEW p \in Processes, CheckForUpdate(r, p)
      PROVE  Covered'
  <2>1. /\ requests'[r].pc = "check.fetch" /\ ~PastTest(r)
        /\ \A s \in Requests \ {r} : requests'[s] = requests[s]
        /\ UNCHANGED <<lockFile, restart>> /\ SameCode
    BY <1>6 DEF CheckForUpdate, Idle, TypeOK, PastTest, Updating, At, UpdateSteps, SameCode,
                installed, process
  <2> QED
    BY <2>1, CoveredElsewhere DEF UpdateSteps
<1>7. ASSUME NEW r \in Requests, CheckStep(r)
      PROVE  Covered'
  <2>1. ~PastTest(r)
    BY <1>7 DEF CheckStep, CheckFetch, CheckLocal, CheckRemote, CheckFails, Resumes, At,
                PastTest, Updating, UpdateSteps, CheckSteps
  <2>2. UNCHANGED <<lockFile, restart>> /\ SameCode
    BY <1>7 DEF CheckStep, CheckFetch, CheckLocal, CheckRemote, CheckFails, Cache, SameCode,
                installed, process
  <2>3. /\ requests'[r].pc \in {"check.local", "check.remote", "idle"}
        /\ \A s \in Requests \ {r} : requests'[s] = requests[s]
    BY <1>7 DEF CheckStep, CheckFetch, CheckLocal, CheckRemote, CheckFails, Cache, Finish,
                Continue, Idle, TypeOK, Request
  <2> QED
    BY <2>1, <2>2, <2>3, CoveredElsewhere DEF UpdateSteps
<1>8. CASE Push
  <2>1. UNCHANGED <<requests, lockFile, restart>> /\ SameCode
    BY <1>8 DEF Push, installed, process, SameCode
  <2> QED
    BY <2>1 DEF Covered, PastTest, Updating, At, SameCode
<1>9. CASE Restart
  <2>1. Reload /\ schema = disk /\ \A r \in Requests : ~Updating(r)
    BY <1>9 DEF Restart, Covered, PastTest
  <2>2. ~lockFile' /\ ~restart' /\ \A r \in Requests : requests'[r].pc = "idle"
    BY <1>9, <2>1 DEF Restart, Reload, Covered, Idle
  <2>3. \A p \in Processes : loaded'[p] <= schema'
    BY <2>1 DEF Reload, installed, TypeOK
  <2> QED
    BY <2>2, <2>3 DEF Covered, PastTest, Updating, At, UpdateSteps
<1> QED
  BY <1>1, <1>2, <1>3, <1>4, <1>5, <1>6, <1>7, <1>8, <1>9 DEF Step, UpdateStep

LEMMA UndisturbedInvariant == HSpec => [](TypeOK /\ Undisturbed)
<1>1. HInit => TypeOK /\ Undisturbed
  <2>1. Init => Covered
    BY DEF Init, Covered, PastTest, Updating, At, Idle, UpdateSteps
  <2> QED
    BY <2>1, InitTypeOK DEF HInit, Undisturbed
<1>2. TypeOK /\ Undisturbed /\ [HNext]_<<vars, disturbed>> => (TypeOK /\ Undisturbed)'
  <2> SUFFICES ASSUME TypeOK, Undisturbed, [HNext]_<<vars, disturbed>>
               PROVE  TypeOK' /\ Undisturbed'
    OBVIOUS
  <2>1. TypeOK'
    BY NextTypeOK DEF HNext, Next
  <2>2. ASSUME Step, disturbed' = (disturbed \/ Disturbance'), ~disturbed'
        PROVE  Covered'
    <3>1. ~disturbed /\ ~Disturbance'
      BY <2>2
    <3> QED
      BY <2>2, <3>1, StepCovered DEF Undisturbed
  <2>3. ASSUME UNCHANGED <<vars, disturbed>>, ~disturbed'
        PROVE  Covered'
    BY <2>3 DEF Undisturbed, Covered, PastTest, Updating, At, vars, installed, process
  <2> QED
    BY <2>1, <2>2, <2>3 DEF HNext, Undisturbed
<1> QED
  BY <1>1, <1>2, PTL DEF HSpec

\* Until a kill, an update of both services at once or an update before the
\* restart of the last one, the lock file is there exactly while one update is
\* running, for any number of services.
THEOREM UndisturbedLockHolds == HSpec => []UndisturbedLock
<1>1. Undisturbed => UndisturbedLock
  BY DEF Undisturbed, Covered, UndisturbedLock, LockMeansUpdate, OneUpdate, PastTest
<1> QED
  BY <1>1, UndisturbedInvariant, PTL

\* And no service loads code whose migrations did not go through: a restart is
\* scheduled after the migrations, and nothing moves the checkout until then.
THEOREM UndisturbedLoadHolds == HSpec => []UndisturbedLoad
<1>1. Undisturbed => UndisturbedLoad
  BY DEF Undisturbed, Covered, UndisturbedLoad, LoadedIsMigrated
<1> QED
  BY <1>1, UndisturbedInvariant, PTL
=============================================================================
