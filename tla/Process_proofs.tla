---------------------------- MODULE Process_proofs ----------------------------
(***************************************************************************)
(* Theorems about the memory of the processes and about the reset links    *)
(* whose requests they limit: by how much the logins in flight can exceed  *)
(* their limit, for any number of requests; how many mails an              *)
(* administrator gets in a day, for any services, administrators, length   *)
(* of the day and hour of the check, where the invariant counts the checks *)
(* that may still come today; and PasswordReset, for any number of users,  *)
(* tokens and requests.                                                    *)
(***************************************************************************)
EXTENDS AppProcess, MCPasswordReset, FiniteSetTheorems, TLAPS

\* Login adds a request to those being verified, an answer removes one.
LEMMA VerifyingSize ==
  ASSUME LimiterTypeOK, NEW r \in Attempts
  PROVE  /\ Cardinality(verifying) \in Nat
         /\ Cardinality(verifying) <= Cardinality(Attempts)
         /\ Cardinality(Attempts) \in Nat
         /\ r \notin verifying => Cardinality(verifying \cup {r}) = Cardinality(verifying) + 1
         /\ r \in verifying => Cardinality(verifying \ {r}) = Cardinality(verifying) - 1
<1>1. IsFiniteSet(Attempts)
  BY LimiterAssumption
<1>2. IsFiniteSet(verifying) /\ Cardinality(verifying) <= Cardinality(Attempts)
  BY <1>1, FS_Subset DEF LimiterTypeOK
<1>3. Cardinality(verifying) \in Nat /\ Cardinality(Attempts) \in Nat
  BY <1>1, <1>2, FS_CardinalityType
<1>4. r \notin verifying => Cardinality(verifying \cup {r}) = Cardinality(verifying) + 1
  BY <1>2, FS_AddElement
<1>5. r \in verifying => Cardinality(verifying \ {r}) = Cardinality(verifying) - 1
  BY <1>2, FS_RemoveElement
<1> QED BY <1>2, <1>3, <1>4, <1>5

\* The counters stay natural numbers: an entry expires only if there is one.
THEOREM LimiterTypeCorrect == LimiterSpec => []LimiterTypeOK
<1>1. LimiterInit => LimiterTypeOK
  BY DEF LimiterInit, LimiterTypeOK
<1>2. LimiterTypeOK /\ [LimiterNext]_limiterVars => LimiterTypeOK'
  BY DEF LimiterTypeOK, LimiterNext, limiterVars, Answer, Login, Refuse, Fail, Succeed, ForgotPassword,
         EntryExpires, FailureExpires, ResetExpires, Restart
<1> QED BY <1>1, <1>2, PTL DEF LimiterSpec

\* Logins that are in flight when the limit is reached exceed it by all of them
\* but one at most: each of them passed the test while the count was below it.
THEOREM OverrunBoundedHolds == LimiterSpec => []OverrunBounded
<1>1. LimiterInit => OverrunBounded
  <2>1. Cardinality({}) = 0
    BY FS_EmptySet
  <2>2. Cardinality(Attempts) \in Nat
    BY LimiterAssumption, FS_CardinalityType
  <2> QED BY <2>1, <2>2, LimiterAssumption DEF LimiterInit, OverrunBounded
<1>2. LimiterTypeOK /\ OverrunBounded /\ [LimiterNext]_limiterVars => OverrunBounded'
  <2> SUFFICES ASSUME LimiterTypeOK, OverrunBounded, [LimiterNext]_limiterVars
               PROVE  OverrunBounded'
    OBVIOUS
  <2> USE LimiterAssumption DEF LimiterTypeOK, OverrunBounded
  <2>1. ASSUME NEW r \in Attempts, Login(r) PROVE OverrunBounded'
    <3>1. Cardinality(verifying') = Cardinality(verifying) + 1
      BY <2>1, VerifyingSize DEF Login
    <3>2. Cardinality(verifying) < Cardinality(Attempts)
      <4>1. verifying \cup {r} \subseteq Attempts
        OBVIOUS
      <4>2. Cardinality(verifying \cup {r}) <= Cardinality(Attempts)
        BY <4>1, FS_Subset
      <4> QED BY <4>2, <3>1, <2>1, VerifyingSize DEF Login
    <3> QED BY <2>1, <3>1, <3>2, VerifyingSize DEF Login, IsRateLimited
  <2>2. ASSUME NEW r \in Attempts, Fail(r) PROVE OverrunBounded'
    <3>1. Cardinality(verifying') = Cardinality(verifying) - 1
      BY <2>2, VerifyingSize DEF Fail
    <3> QED BY <2>2, <3>1, VerifyingSize DEF Fail
  <2>3. ASSUME NEW r \in Attempts, Succeed(r) PROVE OverrunBounded'
    <3>1. Cardinality(verifying') = Cardinality(verifying) - 1
      BY <2>3, VerifyingSize DEF Succeed
    <3> QED BY <2>3, <3>1, VerifyingSize DEF Succeed
  <2>4. CASE FailureExpires
    <3>1. Cardinality(verifying) \in Nat /\ Cardinality(Attempts) \in Nat
      BY FS_Subset, FS_CardinalityType
    <3> QED BY <2>4, <3>1 DEF FailureExpires
  <2>5. CASE UNCHANGED <<failures, verifying>>
    BY <2>5
  <2>6. CASE Restart
    <3>1. Cardinality({}) = 0 /\ Cardinality(Attempts) \in Nat
      BY FS_EmptySet, FS_CardinalityType
    <3> QED BY <2>6, <3>1 DEF Restart
  <2> QED BY <2>1, <2>2, <2>3, <2>4, <2>5, <2>6
        DEF LimiterNext, limiterVars, Answer, Refuse, ForgotPassword, EntryExpires, ResetExpires
<1> QED BY <1>1, <1>2, LimiterTypeCorrect, PTL DEF LimiterSpec

\* The process goes through the steps of LoginLimiter, and through no others:
\* what its clients and its restarts do to the limits does not depend on the
\* loop of the daily mail.
THEOREM LimiterImplemented == PSpec => LimiterSpec
<1>1. PInit => LimiterInit
  BY DEF PInit
<1>2. [PNext]_pvars => [LimiterNext]_limiterVars
  BY DEF PNext, pvars, limiterVars, Start, Stop, RunLoop, Serve, Around, LimiterNext
<1> QED
  BY <1>1, <1>2, PTL DEF PSpec, LimiterSpec

-----------------------------------------------------------------------------
LEMMA LoopKinds ==
  /\ Off.at = "off"
  /\ \A n : Sleeping(n).at = "sleep" /\ Sleeping(n).left = n
  /\ \A A : Mailing(A).at = "mail" /\ Mailing(A).to = A
  /\ \A n, A : Sleeping(n) # Mailing(A) /\ Sleeping(n) # Off /\ Mailing(A) # Off
  /\ \A n : Sleeping(n).to = {} /\ Off.to = {}
BY DEF Off, Sleeping, Mailing

LEMMA UntilNextRunRange ==
  ASSUME NEW h \in 0 .. DayLength - 1
  PROVE  /\ UntilNextRun(h) \in 0 .. DayLength
         /\ h >= CheckHour => h + UntilNextRun(h) = CheckHour + DayLength
         /\ h < CheckHour => h + UntilNextRun(h) = CheckHour
BY LowStockAssumption DEF UntilNextRun

LEMMA MailTypeInit == MailInit => MailTypeOK
<1>1. NothingMailed \in [Services -> [Admins -> Nat]]
  BY DEF NothingMailed
<1>2. ASSUME NEW S
      PROVE  [s \in Services |-> Off] \in [Services -> {Off} \cup S]
  OBVIOUS
<1>3. [s \in Services |-> Off] \in [Services -> {Off} \cup {Sleeping(n) : n \in 0 .. DayLength}
                                             \cup {Mailing(A) : A \in SUBSET Admins}]
  BY <1>2
<1> SUFFICES ASSUME MailInit
             PROVE  MailTypeOK
  OBVIOUS
<1>4. sets \in 0 .. MaxSet
  BY LowStockAssumption DEF MailInit
<1>5. low \in BOOLEAN /\ reachable \subseteq Admins /\ broken \subseteq Parts
  BY DEF MailInit
<1> QED
  BY <1>1, <1>3, <1>4, <1>5 DEF MailInit, MailTypeOK

\* A step of one loop that leaves the clock alone.
LEMMA GotoType ==
  ASSUME MailTypeOK, NEW s \in Services,
         NEW l \in {Off} \cup {Sleeping(n) : n \in 0 .. DayLength} \cup {Mailing(A) : A \in SUBSET Admins},
         Goto(s, l), UNCHANGED <<hour, sets, low, reachable, broken, mails>>
  PROVE  MailTypeOK'
BY DEF MailTypeOK, Goto

LEMMA MailTypeNext ==
  ASSUME MailTypeOK, [PNext]_pvars
  PROVE  MailTypeOK'
<1> DEFINE Sleeps == {Sleeping(n) : n \in 0 .. DayLength}
           Mailings == {Mailing(A) : A \in SUBSET Admins}
<1>1. Sleeping(UntilNextRun(hour)) \in Sleeps
  BY UntilNextRunRange DEF MailTypeOK
<1>2. ASSUME NEW s \in Services, StartLoop(s) \/ StopLoop(s)
      PROVE  MailTypeOK'
  BY <1>1, <1>2, GotoType DEF StartLoop, StopLoop
<1>3. ASSUME NEW s \in Services, Run(s)
      PROVE  MailTypeOK'
  <2>1. CASE Check(s)
    <3>1. (IF low THEN reachable ELSE {}) \in SUBSET Admins
      BY DEF MailTypeOK
    <3> QED
      BY <2>1, <3>1, GotoType DEF Check
  <2>2. CASE CheckFails(s) \/ Again(s)
    BY <1>1, <2>2, GotoType DEF CheckFails, Again
  <2>3. CASE MailOne(s)
    <3>1. PICK a \in loop[s].to :
            /\ Goto(s, Mailing(loop[s].to \ {a}))
            /\ mails' = mails \/ mails' = [mails EXCEPT ![s][a] = @ + 1]
            /\ UNCHANGED <<hour, sets, low, reachable, broken>>
      BY <2>3 DEF MailOne
    <3>2. loop[s].to \subseteq Admins
      BY LoopKinds DEF MailTypeOK
    <3>3. mails' \in [Services -> [Admins -> Nat]]
      <4>1. mails[s] \in [Admins -> Nat] /\ mails[s][a] + 1 \in Nat
        BY <3>2 DEF MailTypeOK
      <4>2. [mails[s] EXCEPT ![a] = @ + 1] \in [Admins -> Nat]
        BY <4>1
      <4> QED
        BY <3>1, <4>2 DEF MailTypeOK
    <3>4. loop' \in [Services -> {Off} \cup Sleeps \cup Mailings]
      BY <3>1, <3>2 DEF MailTypeOK, Goto
    <3> QED
      BY <3>1, <3>3, <3>4 DEF MailTypeOK
  <2> QED
    BY <1>3, <2>1, <2>2, <2>3 DEF Run
<1>4. CASE Tick
  <2>1. hour' \in 0 .. DayLength - 1
    BY <1>4, LowStockAssumption DEF Tick, MailTypeOK
  <2>2. ASSUME NEW s \in Services
        PROVE  loop'[s] \in {Off} \cup Sleeps \cup Mailings
    <3>1. CASE loop[s] \in {Off} \cup Mailings
      BY <1>4, <3>1, LoopKinds DEF Tick
    <3>2. CASE loop[s] \in Sleeps
      <4>1. PICK n \in 0 .. DayLength : loop[s] = Sleeping(n)
        BY <3>2
      <4>2. n # 0 /\ loop'[s] = Sleeping(n - 1)
        BY <1>4, <4>1, LoopKinds DEF Tick, Due
      <4>3. n - 1 \in 0 .. DayLength
        BY <4>2, LowStockAssumption
      <4> QED
        BY <4>2, <4>3
    <3> QED
      BY <3>1, <3>2 DEF MailTypeOK
  <2>3. mails' \in [Services -> [Admins -> Nat]]
    BY <1>4 DEF Tick, MailTypeOK, NothingMailed
  <2>4. loop' \in [Services -> {Off} \cup Sleeps \cup Mailings]
    BY <1>4, <2>2 DEF Tick
  <2> QED
    BY <1>4, <2>1, <2>3, <2>4 DEF Tick, MailTypeOK
<1>5. CASE SetClock
  BY <1>5, LowStockAssumption DEF SetClock, MailTypeOK
<1>6. CASE StockChanges \/ AddressChanges \/ PartChanges
  BY <1>6 DEF StockChanges, AddressChanges, PartChanges, MailTypeOK
<1>7. CASE UNCHANGED mailVars
  BY <1>7 DEF mailVars, MailTypeOK
<1> QED
  BY <1>2, <1>3, <1>4, <1>5, <1>6, <1>7
     DEF PNext, pvars, Start, Stop, RunLoop, Serve, Around, World

-----------------------------------------------------------------------------
\* What an administrator may have got today from a loop that is at l, at the hour
\* h, when the clock has been set k times: every check that may still come today
\* is set aside, the one of a process that starts over before CheckHour too.  A
\* loop that sleeps has missed its hour only if the clock was set.
Fits(h, k, n, l, a) ==
  /\ n <= 1 + k
  /\ h < CheckHour => n <= k
  /\ l.at = "sleep" =>
       /\ h + l.left < DayLength => n <= k
       /\ h + l.left < CheckHour => n + 1 <= k
       /\ k = 0 => h + l.left \in {CheckHour, CheckHour + DayLength}
  /\ l.at = "mail" /\ a \in l.to =>
       /\ n <= k
       /\ h < CheckHour => n + 1 <= k

Budget == \A s \in Services, a \in Admins : Fits(hour, sets, mails[s][a], loop[s], a)

\* A loop that is done for today sleeps, a process that stops forgets it.
LEMMA FitsAgain ==
  ASSUME NEW h \in 0 .. DayLength - 1, NEW k \in Nat, NEW n \in Nat, NEW l, NEW a,
         Fits(h, k, n, l, a)
  PROVE  Fits(h, k, n, Off, a) /\ Fits(h, k, n, Sleeping(UntilNextRun(h)), a)
BY LoopKinds, UntilNextRunRange, LowStockAssumption DEF Fits

\* A check costs what was set aside for it.
LEMMA FitsCheck ==
  ASSUME NEW h \in 0 .. DayLength - 1, NEW k \in Nat, NEW n \in Nat, NEW A, NEW a,
         Fits(h, k, n, Sleeping(0), a)
  PROVE  Fits(h, k, n, Mailing(A), a)
BY LoopKinds, LowStockAssumption DEF Fits

LEMMA FitsMail ==
  ASSUME NEW h \in 0 .. DayLength - 1, NEW k \in Nat, NEW n \in Nat, NEW A, NEW a, NEW b,
         Fits(h, k, n, Mailing(A), a)
  PROVE  /\ Fits(h, k, n, Mailing(A \ {b}), a)
         /\ a \in A => Fits(h, k, n + 1, Mailing(A \ {a}), a)
BY LoopKinds, LowStockAssumption DEF Fits

LEMMA FitsTick ==
  ASSUME NEW h \in 0 .. DayLength - 1, NEW k \in Nat, NEW n \in Nat, NEW a, NEW m \in 1 .. DayLength
  PROVE  LET next == (h + 1) % DayLength
             new  == IF next = 0 THEN 0 ELSE n
         IN  /\ Fits(h, k, n, Sleeping(m), a) => Fits(next, k, new, Sleeping(m - 1), a)
             /\ Fits(h, k, n, Off, a) => Fits(next, k, new, Off, a)
<1>1. CASE h = DayLength - 1
  <2>1. (h + 1) % DayLength = 0
    BY <1>1, LowStockAssumption
  <2> QED
    BY <1>1, <2>1, LoopKinds, LowStockAssumption DEF Fits
<1>2. CASE h # DayLength - 1
  <2>1. (h + 1) % DayLength = h + 1
    BY <1>2, LowStockAssumption
  <2> QED
    BY <1>2, <2>1, LoopKinds, LowStockAssumption DEF Fits
<1> QED
  BY <1>1, <1>2

\* A clock that is set lets one more check happen today.
LEMMA FitsSetClock ==
  ASSUME NEW h \in 0 .. DayLength - 1, NEW k \in Nat, NEW n \in Nat, NEW l, NEW a, NEW m \in 0 .. DayLength,
         l = Off \/ l = Sleeping(m), Fits(h, k, n, l, a),
         NEW next \in {h - 1, h + 1} \cap (0 .. DayLength - 1)
  PROVE  Fits(next, k + 1, n, l, a)
BY LoopKinds, LowStockAssumption DEF Fits

LEMMA BudgetInit == MailInit => Budget
BY LoopKinds, LowStockAssumption DEF MailInit, Budget, Fits, NothingMailed

\* One loop moves, the clock and the mails stay.
LEMMA GotoBudget ==
  ASSUME MailTypeOK, Budget, NEW s \in Services, NEW l, Goto(s, l),
         UNCHANGED <<hour, sets, mails>>,
         \A a \in Admins : Fits(hour, sets, mails[s][a], l, a)
  PROVE  Budget'
<1>1. \A x \in Services : loop'[x] = IF x = s THEN l ELSE loop[x]
  BY DEF Goto, MailTypeOK
<1> QED
  BY <1>1 DEF Budget

LEMMA BudgetNext ==
  ASSUME MailTypeOK, Budget, [PNext]_pvars
  PROVE  Budget'
<1>0. /\ hour \in 0 .. DayLength - 1 /\ sets \in Nat
      /\ \A s \in Services, a \in Admins : mails[s][a] \in Nat
  BY LowStockAssumption DEF MailTypeOK
<1>1. ASSUME NEW s \in Services, StartLoop(s) \/ StopLoop(s) \/ CheckFails(s) \/ Again(s)
      PROVE  Budget'
  <2>1. \A a \in Admins : /\ Fits(hour, sets, mails[s][a], Off, a)
                          /\ Fits(hour, sets, mails[s][a], Sleeping(UntilNextRun(hour)), a)
    BY <1>0, FitsAgain DEF Budget
  <2> QED
    BY <1>1, <2>1, GotoBudget DEF StartLoop, StopLoop, CheckFails, Again
<1>2. ASSUME NEW s \in Services, Check(s)
      PROVE  Budget'
  <2>1. \A a \in Admins : Fits(hour, sets, mails[s][a], Sleeping(0), a)
    BY <1>2 DEF Check, Due, Budget
  <2>2. \A a \in Admins : Fits(hour, sets, mails[s][a], Mailing(IF low THEN reachable ELSE {}), a)
    BY <1>0, <2>1, FitsCheck
  <2> QED
    BY <1>2, <2>2, GotoBudget DEF Check
<1>3. ASSUME NEW s \in Services, MailOne(s)
      PROVE  Budget'
  <2>1. PICK b \in loop[s].to :
          /\ Goto(s, Mailing(loop[s].to \ {b}))
          /\ mails' = mails \/ mails' = [mails EXCEPT ![s][b] = @ + 1]
          /\ UNCHANGED <<hour, sets>>
    BY <1>3 DEF MailOne
  <2>2. PICK A \in SUBSET Admins : loop[s] = Mailing(A) /\ loop[s].to = A
    BY LoopKinds DEF MailTypeOK
  <2>3. \A x \in Services : loop'[x] = IF x = s THEN Mailing(A \ {b}) ELSE loop[x]
    BY <2>1, <2>2 DEF Goto, MailTypeOK
  <2>4. \A x \in Services, a \in Admins :
          mails'[x][a] = mails[x][a] \/ (x = s /\ a = b /\ mails'[x][a] = mails[x][a] + 1)
    BY <2>1, <2>2 DEF MailTypeOK
  <2>5. \A a \in Admins : /\ Fits(hour, sets, mails[s][a], Mailing(A \ {b}), a)
                          /\ a = b => Fits(hour, sets, mails[s][a] + 1, Mailing(A \ {b}), a)
    <3> SUFFICES ASSUME NEW a \in Admins
                 PROVE  /\ Fits(hour, sets, mails[s][a], Mailing(A \ {b}), a)
                        /\ a = b => Fits(hour, sets, mails[s][a] + 1, Mailing(A \ {b}), a)
      OBVIOUS
    <3>1. Fits(hour, sets, mails[s][a], Mailing(A), a)
      BY <2>2 DEF Budget
    <3>2. mails[s][a] \in Nat /\ b \in A
      BY <1>0, <2>1, <2>2
    <3> QED
      BY <1>0, <3>1, <3>2, FitsMail
  <2> QED
    BY <2>1, <2>3, <2>4, <2>5 DEF Budget
<1>4. CASE Tick
  <2> SUFFICES ASSUME NEW s \in Services, NEW a \in Admins
               PROVE  Fits(hour, sets, mails[s][a], loop[s], a)'
    BY DEF Budget
  <2>1. /\ hour' = (hour + 1) % DayLength /\ sets' = sets
        /\ mails'[s][a] = IF hour' = 0 THEN 0 ELSE mails[s][a]
    BY <1>4 DEF Tick, NothingMailed
  <2>2. Fits(hour, sets, mails[s][a], loop[s], a)
    BY DEF Budget
  <2>3. CASE loop[s] = Off
    <3>1. loop'[s] = Off
      BY <1>4, <2>3, LoopKinds DEF Tick
    <3>2. 1 \in 1 .. DayLength
      BY LowStockAssumption
    <3> QED
      BY <1>0, <2>1, <2>2, <2>3, <3>1, <3>2, FitsTick
  <2>4. ASSUME NEW n \in 0 .. DayLength, loop[s] = Sleeping(n)
        PROVE  Fits(hour, sets, mails[s][a], loop[s], a)'
    <3>1. n # 0 /\ loop'[s] = Sleeping(n - 1)
      BY <1>4, <2>4, LoopKinds DEF Tick, Due
    <3>2. n \in 1 .. DayLength
      BY <3>1, LowStockAssumption
    <3> QED
      BY <1>0, <2>1, <2>2, <2>4, <3>1, <3>2, FitsTick
  <2>5. \A A : loop[s] # Mailing(A)
    BY <1>4, LoopKinds DEF Tick
  <2> QED
    BY <2>3, <2>4, <2>5 DEF MailTypeOK
<1>5. CASE SetClock
  <2> SUFFICES ASSUME NEW s \in Services, NEW a \in Admins
               PROVE  Fits(hour, sets, mails[s][a], loop[s], a)'
    BY DEF Budget
  <2>1. loop[s] = Off \/ \E n \in 0 .. DayLength : loop[s] = Sleeping(n)
    BY <1>5, LoopKinds DEF SetClock, MailTypeOK
  <2>2. /\ hour' \in {hour - 1, hour + 1} \cap (0 .. DayLength - 1)
        /\ sets' = sets + 1 /\ mails' = mails /\ loop' = loop
    BY <1>5 DEF SetClock
  <2>3. 0 \in 0 .. DayLength
    BY LowStockAssumption
  <2>4. Fits(hour, sets, mails[s][a], loop[s], a)
    BY DEF Budget
  <2> QED
    BY <1>0, <2>1, <2>2, <2>3, <2>4, FitsSetClock
<1>6. CASE StockChanges \/ AddressChanges \/ PartChanges
  BY <1>6 DEF StockChanges, AddressChanges, PartChanges, Budget
<1>7. CASE UNCHANGED mailVars
  BY <1>7 DEF mailVars, Budget
<1> QED
  BY <1>1, <1>2, <1>3, <1>4, <1>5, <1>6, <1>7
     DEF PNext, pvars, Start, Stop, RunLoop, Run, Serve, Around, World

LEMMA MailInvariant == PSpec => [](MailTypeOK /\ Budget)
<1>1. PInit => MailTypeOK /\ Budget
  BY MailTypeInit, BudgetInit DEF PInit
<1>2. MailTypeOK /\ Budget /\ [PNext]_pvars => (MailTypeOK /\ Budget)'
  BY MailTypeNext, BudgetNext
<1> QED
  BY <1>1, <1>2, PTL DEF PSpec

\* Types of the daily mail: a loop sleeps for a day at most, and mails
\* administrators only.
THEOREM MailTypeCorrect == PSpec => []MailTypeOK
BY MailInvariant, PTL

\* An administrator gets one mail a day from a loop, and one more for every time
\* the clock was set, whatever starts, stops and fails: low_stock_check_loop
\* computes its sleep anew after every check, so that a check at or after
\* CheckHour is followed by one of the next day.
THEOREM OneMailADayHolds == PSpec => []OneMailADay
<1>1. Budget => OneMailADay
  BY DEF Budget, Fits, OneMailADay
<1> QED
  BY <1>1, MailInvariant, PTL

\* The limits hold in the process as they do in LoginLimiter, whichever services
\* start and stop.
THEOREM OverrunBoundedInProcess == PSpec => []OverrunBounded
BY LimiterImplemented, OverrunBoundedHolds, PTL

-----------------------------------------------------------------------------
(***************************************************************************)
(* PasswordReset.  Each of the two invariants is inductive only together   *)
(* with what a request in flight may rely on after an await:               *)
(*   Attached      what a request carries was stored and stays stored;     *)
(*   CommitSpends  a password change that is about to commit marks the     *)
(*                 token it was paid with, unless that is marked already.  *)
(***************************************************************************)
\* A token that a request has stored or resolved stays stored, and it is the
\* token of an existing row: the foreign key lets nobody delete that row.
Attached ==
  /\ \A r \in Requests : At(r, "forgot") \/ At(r, "welcome") => requests[r].user \in Users
  /\ \A r \in Requests :
       At(r, "mail") \/ At(r, "resolved") \/ At(r, "hash") \/ At(r, "reset.commit") =>
         requests[r].token \in Tokens /\ Stored(requests[r].token)

\* What a step does that deletes no row of users.
RowsStay == \A u \in Users : RowExists(u) => users'[u].life \in {"active", "trashed"}

CommitSpends == \A r \in Requests : At(r, "reset.commit") =>
                  \/ tokens[requests[r].token].used
                  \/ requests[r].token \in requests[r].seen

Inv == TypeOK /\ Attached

SpentInv == Inv /\ CommitSpends /\ SpentIsUsed

-----------------------------------------------------------------------------
LEMMA InitInv == Init => SpentInv
<1> SUFFICES ASSUME Init PROVE SpentInv
  OBVIOUS
<1> USE DEF Init, Idle, At, Stored
<1>1. TypeOK
  BY NoneAssumption DEF TypeOK, User, Life, Token, Request, PC, TokensOf, RowExists
<1>2. Attached /\ CommitSpends /\ SpentIsUsed
  BY DEF Attached, CommitSpends, SpentIsUsed
<1> QED
  BY <1>1, <1>2 DEF SpentInv, Inv

\* The steps that leave the tables and the inbox alone: reads of one request.
LEMMA KeepInv ==
  ASSUME Inv, NEW r \in Requests, NEW q \in Request, Keep(r, q),
         q.pc \in {"forgot", "welcome"} => q.user \in Users,
         q.pc \in {"mail", "resolved", "hash", "reset.commit"} =>
           q.token \in Tokens /\ Stored(q.token),
         q.pc \in {"hash", "reset.commit"} => q.token \in TokensOf(q.user)
  PROVE  Inv'
<1>1. /\ requests' \in [Requests -> Request]
      /\ \A s \in Requests : requests'[s] = IF s = r THEN q ELSE requests[s]
  BY DEF Inv, TypeOK, Keep, Continue
<1>2. UNCHANGED <<users, tokens, inbox, spent>>
  BY DEF Keep
<1>3. TypeOK'
  BY <1>1, <1>2 DEF Inv, TypeOK, Stored, RowExists, TokensOf, At
<1>4. Attached'
  BY <1>1, <1>2 DEF Inv, Attached, Stored, At
<1> QED
  BY <1>3, <1>4 DEF Inv

\* The steps of users, other than purge_user: no row disappears.
LEMMA UsersInv ==
  ASSUME Inv, users' \in [Users -> User],
         RowsStay,
         UNCHANGED <<tokens, inbox, spent>>,
         requests' \in [Requests -> Request],
         \A r \in Requests :
           \/ requests'[r] = requests[r] \/ requests'[r] = Idle
           \/ requests'[r].pc = "welcome" /\ requests'[r].user \in Users
  PROVE  Inv'
<1>1. \A u : TokensOf(u)' = TokensOf(u)
  BY DEF TokensOf
<1>2. \A t \in Tokens : Stored(t)' => RowExists(tokens[t].user)'
  <2> SUFFICES ASSUME NEW t \in Tokens, Stored(t) PROVE RowExists(tokens[t].user)'
    BY DEF Stored
  <2>1. tokens[t].user \in Users /\ RowExists(tokens[t].user)
    BY DEF Inv, TypeOK, Token, Stored
  <2> QED
    BY <2>1 DEF RowExists, RowsStay
<1>3. TypeOK'
  <2>1. \A r \in Requests : At(r, "hash")' \/ At(r, "reset.commit")' =>
          requests[r] = requests'[r]
    BY DEF At, Idle
  <2>2. \A r \in Requests : At(r, "hash")' \/ At(r, "reset.commit")' =>
          (requests[r].token \in TokensOf(requests[r].user))'
    BY <1>1, <2>1 DEF Inv, TypeOK, At
  <2>3. inbox' \subseteq {t \in Tokens : Stored(t)}'
    BY DEF Inv, TypeOK, Stored
  <2> QED
    BY <1>2, <2>2, <2>3 DEF Inv, TypeOK
<1>4. Attached'
  BY DEF Inv, Attached, Stored, At, Idle
<1> QED
  BY <1>3, <1>4 DEF Inv

\* The steps of tokens: what is stored keeps its user.
LEMMA TokensInv ==
  ASSUME Inv, tokens' \in [Tokens -> Token], spent' \in [Tokens -> Nat],
         \A t \in Tokens : \/ tokens'[t].user = tokens[t].user
                           \/ ~Stored(t) /\ tokens'[t].user \in Users
                              /\ users'[tokens'[t].user].life \in {"active", "trashed"},
         users' \in [Users -> User], RowsStay,
         inbox' = inbox,
         requests' \in [Requests -> Request],
         \A r \in Requests :
           \/ requests'[r] = requests[r] \/ requests'[r] = Idle
           \/ /\ requests'[r].pc = "mail"
              /\ requests'[r].token \in Tokens /\ Stored(requests[r].token)'
  PROVE  Inv'
<1>1. \A t \in Tokens : Stored(t) => Stored(t)' /\ tokens'[t].user = tokens[t].user
  BY NoneAssumption DEF Stored
<1>2. \A t \in Tokens : Stored(t)' => RowExists(tokens[t].user)'
  <2> SUFFICES ASSUME NEW t \in Tokens, Stored(t)' PROVE users'[tokens'[t].user].life \in {"active", "trashed"}
    BY DEF RowExists
  <2>1. CASE Stored(t)
    <3>1. tokens[t].user \in Users /\ RowExists(tokens[t].user)
      BY <2>1 DEF Inv, TypeOK, Token, Stored
    <3> QED
      BY <1>1, <2>1, <3>1 DEF RowsStay
  <2>2. CASE ~Stored(t)
    BY <2>2 DEF Stored
  <2> QED
    BY <2>1, <2>2
<1>3. \A r \in Requests : At(r, "hash")' \/ At(r, "reset.commit")' =>
        (requests[r].token \in TokensOf(requests[r].user))'
  <2> SUFFICES ASSUME NEW r \in Requests, At(r, "hash")' \/ At(r, "reset.commit")'
               PROVE  (requests[r].token \in TokensOf(requests[r].user))'
    OBVIOUS
  <2>1. requests'[r] = requests[r]
    BY DEF At, Idle
  <2>2. /\ requests[r].token \in Tokens /\ Stored(requests[r].token)
        /\ requests[r].token \in TokensOf(requests[r].user)
    BY <2>1 DEF Inv, TypeOK, Attached, At
  <2> QED
    BY <1>1, <2>1, <2>2 DEF TokensOf
<1>4. inbox' \subseteq {t \in Tokens : Stored(t)}'
  BY <1>1 DEF Inv, TypeOK, Stored
<1>5. TypeOK'
  BY <1>2, <1>3, <1>4 DEF Inv, TypeOK
<1>6. Attached'
  BY <1>1 DEF Inv, Attached, At, Idle
<1> QED
  BY <1>5, <1>6 DEF Inv

LEMMA PurgeInv ==
  ASSUME Inv, NEW r \in Requests, PurgeCommit(r)
  PROVE  Inv'
<1> DEFINE u == requests[r].user
<1>1. \A s \in Requests : requests'[s] = requests[s] \/ requests'[s] = Idle
  BY DEF PurgeCommit, Finish, Inv, TypeOK
<1>2. \A t \in Tokens : Stored(t)' => (RowExists(tokens[t].user))'
  <2> SUFFICES ASSUME NEW t \in Tokens, Stored(t) PROVE (RowExists(tokens[t].user))'
    BY DEF PurgeCommit, Stored
  <2>1. tokens[t].user \in Users /\ RowExists(tokens[t].user) /\ tokens[t].user # u
    BY DEF Inv, TypeOK, Token, Stored, PurgeCommit, TokensOf
  <2> QED
    BY <2>1 DEF PurgeCommit, RowExists, Inv, TypeOK
<1>3. users' \in [Users -> User] /\ requests' \in [Requests -> Request]
  BY DEF PurgeCommit, Finish, Inv, TypeOK, User, Life, Idle, Request, PC
<1>4. TypeOK'
  BY <1>1, <1>2, <1>3 DEF Inv, TypeOK, PurgeCommit, Stored, TokensOf, At, Idle
<1>5. Attached'
  BY <1>1 DEF Inv, Attached, PurgeCommit, Stored, At, Idle
<1> QED
  BY <1>4, <1>5 DEF Inv

\* The requests after Continue(r, q) or Finish(r).
LEMMA RequestsAfter ==
  ASSUME Inv, NEW r \in Requests, NEW q \in Request,
         Continue(r, q) \/ (Finish(r) /\ q = Idle)
  PROVE  /\ requests' \in [Requests -> Request]
         /\ \A s \in Requests : requests'[s] = IF s = r THEN q ELSE requests[s]
BY DEF Inv, TypeOK, Continue, Finish

LEMMA IdleIsRequest == Idle \in Request
BY DEF Idle, Request, PC

LEMMA MailInv ==
  ASSUME Inv, NEW r \in Requests, Mail(r)
  PROVE  Inv'
<1>1. /\ requests' \in [Requests -> Request]
      /\ \A s \in Requests : requests'[s] = IF s = r THEN Idle ELSE requests[s]
  BY RequestsAfter, IdleIsRequest DEF Mail
<1>2. requests[r].token \in Tokens /\ Stored(requests[r].token)
  BY DEF Mail, Inv, Attached
<1>3. TypeOK'
  BY <1>1, <1>2 DEF Inv, TypeOK, Mail, Stored, RowExists, TokensOf, At, Idle
<1>4. Attached'
  BY <1>1 DEF Inv, Attached, Mail, Stored, At, Idle
<1> QED
  BY <1>3, <1>4 DEF Inv

\* Every step of a request keeps the types and what requests rely on.
LEMMA HandleInv ==
  ASSUME Inv, NEW r \in Requests, Handle(r)
  PROVE  Inv'
<1> USE IdleIsRequest
<1>1. ASSUME NEW u \in Users, NEW password \in BOOLEAN, CreateUser(r, u, password)
      PROVE  Inv'
  <2> DEFINE q == [Idle EXCEPT !.pc = "welcome", !.user = u]
  <2>1. q \in Request /\ q.pc = "welcome" /\ q.user = u
    BY DEF Idle, Request, PC
  <2>a. Continue(r, q)
    BY <1>1 DEF CreateUser
  <2> HIDE DEF q
  <2>2. /\ requests' \in [Requests -> Request]
        /\ \A s \in Requests : requests'[s] = IF s = r THEN q ELSE requests[s]
    BY <2>1, <2>a, RequestsAfter
  <2>3. users' \in [Users -> User] /\ RowsStay
    BY <1>1 DEF CreateUser, Inv, TypeOK, User, Life, RowsStay, RowExists
  <2> QED
    BY <1>1, <2>1, <2>2, <2>3, UsersInv DEF CreateUser
<1>2. ASSUME NEW u \in Users, Forgot(r, u) PROVE Inv'
  BY <1>2, KeepInv DEF Forgot, Idle, Request, PC
<1>3. ASSUME NEW u \in Users, EditLoad(r, u) PROVE Inv'
  BY <1>3, KeepInv DEF EditLoad, Idle, Request, PC
<1>4. ASSUME NEW u \in Users, PurgeLoad(r, u) PROVE Inv'
  BY <1>4, KeepInv DEF PurgeLoad, Idle, Request, PC
<1>5. ASSUME NEW t \in Tokens, StoreToken(r, t) PROVE Inv'
  <2> DEFINE q == [requests[r] EXCEPT !.pc = "mail", !.token = t]
             u == requests[r].user
  <2>1. q \in Request /\ q.pc = "mail" /\ q.token = t
    BY DEF Inv, TypeOK, Request, PC
  <2>a. Continue(r, q)
    BY <1>5 DEF StoreToken
  <2> HIDE DEF q
  <2>2. /\ requests' \in [Requests -> Request]
        /\ \A s \in Requests : requests'[s] = IF s = r THEN q ELSE requests[s]
    BY <2>1, <2>a, RequestsAfter
  <2>3. u \in Users /\ RowExists(u)
    BY <1>5 DEF StoreToken, Inv, Attached
  <2>4. /\ tokens' \in [Tokens -> Token]
        /\ \A x \in Tokens : tokens'[x].user = IF x = t THEN u ELSE tokens[x].user
    BY <1>5, <2>3 DEF StoreToken, Inv, TypeOK, Token
  <2>5. Stored(t)'
    BY <2>3, <2>4, NoneAssumption DEF Stored
  <2>6. \A x \in Tokens : \/ tokens'[x].user = tokens[x].user
                          \/ /\ ~Stored(x) /\ tokens'[x].user \in Users
                             /\ users'[tokens'[x].user].life \in {"active", "trashed"}
    BY <1>5, <2>3, <2>4 DEF StoreToken, RowExists
  <2>7. \A s \in Requests : \/ requests'[s] = requests[s]
                            \/ /\ requests'[s].pc = "mail"
                               /\ requests'[s].token \in Tokens /\ Stored(requests[s].token)'
    BY <2>1, <2>2, <2>5 DEF Stored
  <2>8. /\ users' \in [Users -> User] /\ RowsStay /\ inbox' = inbox
        /\ spent' \in [Tokens -> Nat]
    BY <1>5 DEF StoreToken, Inv, TypeOK, RowsStay, RowExists
  <2> QED
    BY <2>2, <2>4, <2>6, <2>7, <2>8, TokensInv
<1>6. ASSUME NEW t \in Tokens, Resolve(r, t) PROVE Inv'
  BY <1>6, KeepInv DEF Resolve, Idle, Request, PC, Valid
<1>7. CASE Mail(r)
  BY <1>7, MailInv
<1>8. CASE ResetUser(r)
  <2>1. /\ requests[r] \in Request /\ requests[r].token \in Tokens
        /\ Stored(requests[r].token)
        /\ tokens[requests[r].token].user \in Users
    BY <1>8 DEF ResetUser, Inv, TypeOK, Attached, Token, Stored
  <2> QED
    BY <1>8, <2>1, KeepInv DEF ResetUser, Request, PC, TokensOf
<1>9. CASE ResetQuery(r)
  <2>1. /\ requests[r] \in Request /\ requests[r].token \in Tokens
        /\ Stored(requests[r].token)
        /\ requests[r].token \in TokensOf(requests[r].user)
    BY <1>9 DEF ResetQuery, Inv, TypeOK, Attached, At
  <2> QED
    BY <1>9, <2>1, KeepInv DEF ResetQuery, Request, PC, TokensOf, Unused
<1>10. CASE ResetCommit(r)
  <2>1. /\ requests' \in [Requests -> Request]
        /\ \A s \in Requests : requests'[s] = IF s = r THEN Idle ELSE requests[s]
    BY <1>10, RequestsAfter DEF ResetCommit
  <2>2. users' \in [Users -> User] /\ RowsStay
    <3>1. users \in [Users -> User]
      BY DEF Inv, TypeOK
    <3>2. users' = [users EXCEPT ![requests[r].user] = [users[requests[r].user] EXCEPT !.password = TRUE]]
      BY <1>10 DEF ResetCommit
    <3>3. \A u \in Users : [users[u] EXCEPT !.password = TRUE] \in User
      BY <3>1 DEF User
    <3>4. users' \in [Users -> User]
      BY <3>1, <3>2, <3>3
    <3>5. \A u \in Users : users'[u].life = users[u].life
      BY <3>1, <3>2 DEF User
    <3> QED
      BY <3>1, <3>4, <3>5 DEF RowsStay, RowExists, User
  <2>3. /\ tokens' \in [Tokens -> Token]
        /\ \A t \in Tokens : tokens'[t].user = tokens[t].user
    BY <1>10 DEF ResetCommit, Inv, TypeOK, Token
  <2>b. requests[r].token \in Tokens
    BY <1>10 DEF ResetCommit, Inv, Attached
  <2>4. spent' \in [Tokens -> Nat] /\ inbox' = inbox
    BY <1>10, <2>b DEF ResetCommit, Inv, TypeOK
  <2> QED
    BY <2>1, <2>2, <2>3, <2>4, TokensInv
<1>11. ASSUME NEW email \in BOOLEAN, EditCommit(r, email) PROVE Inv'
  <2>1. /\ requests' \in [Requests -> Request]
        /\ \A s \in Requests : requests'[s] = IF s = r THEN Idle ELSE requests[s]
    BY <1>11, RequestsAfter DEF EditCommit
  <2>2. users' \in [Users -> User] /\ RowsStay
    <3>1. users \in [Users -> User]
      BY DEF Inv, TypeOK
    <3>2. users' = [users EXCEPT ![requests[r].user] =
                      [users[requests[r].user] EXCEPT !.password = TRUE, !.email = email]]
      BY <1>11 DEF EditCommit
    <3>3. \A u \in Users : [users[u] EXCEPT !.password = TRUE, !.email = email] \in User
      BY <3>1 DEF User
    <3>4. users' \in [Users -> User]
      BY <3>1, <3>2, <3>3
    <3>5. \A u \in Users : users'[u].life = users[u].life
      BY <3>1, <3>2 DEF User
    <3> QED
      BY <3>1, <3>4, <3>5 DEF RowsStay, RowExists, User
  <2> QED
    BY <1>11, <2>1, <2>2, UsersInv DEF EditCommit
<1>12. CASE PurgeCommit(r)
  BY <1>12, PurgeInv
<1>13. CASE Abort(r)
  BY <1>13, KeepInv DEF Abort, Finish, Keep, Continue, Idle
<1> QED
  BY <1>1, <1>2, <1>3, <1>4, <1>5, <1>6, <1>7, <1>8, <1>9, <1>10, <1>11, <1>12, <1>13
  DEF Handle

LEMMA NextInv ==
  ASSUME Inv, [Next]_vars
  PROVE  Inv'
<1>1. ASSUME NEW r \in Requests, Handle(r) PROVE Inv'
  BY <1>1, HandleInv
<1>2. ASSUME NEW u \in Users, SsoUser(u) \/ Toggle(u) \/ Delete(u) \/ Restore(u)
      PROVE  Inv'
  <2> USE DEF Inv, TypeOK, User, RowsStay, RowExists
  <2>1. CASE SsoUser(u)
    BY <2>1, UsersInv DEF SsoUser, Life
  <2>2. CASE Toggle(u)
    BY <2>2, UsersInv DEF Toggle
  <2>3. CASE Delete(u)
    BY <2>3, UsersInv DEF Delete, Life
  <2>4. CASE Restore(u)
    BY <2>4, UsersInv DEF Restore, Life
  <2> QED
    BY <1>2, <2>1, <2>2, <2>3, <2>4
<1>3. ASSUME NEW t \in Tokens, Expire(t) PROVE Inv'
  <2>1. /\ tokens' \in [Tokens -> Token]
        /\ \A x \in Tokens : tokens'[x].user = tokens[x].user
    BY <1>3 DEF Expire, Inv, TypeOK, Token
  <2> QED
    BY <1>3, <2>1, TokensInv DEF Expire, Inv, TypeOK, RowsStay, RowExists
<1>4. CASE UNCHANGED vars
  <2>1. RowsStay
    BY <1>4 DEF vars, RowsStay, RowExists
  <2> QED
    BY <1>4, <2>1, UsersInv DEF vars, Inv, TypeOK
<1> QED
  BY <1>1, <1>2, <1>3, <1>4 DEF Next

-----------------------------------------------------------------------------
\* What the steps do to the marks, to the changes paid for, and to the
\* requests that are about to commit.
LEMMA HandleSteps ==
  ASSUME Inv, NEW r \in Requests, Handle(r), ~ResetCommit(r), ~ResetQuery(r)
  PROVE  /\ \A t \in Tokens : tokens'[t].used = tokens[t].used
         /\ spent' = spent
         /\ \A s \in Requests : At(s, "reset.commit")' => requests'[s] = requests[s]
<1> USE DEF Inv, TypeOK, Keep, Continue, Finish, At, Idle
<1>1. ASSUME NEW u \in Users, NEW password \in BOOLEAN,
             CreateUser(r, u, password) \/ Forgot(r, u) \/ EditLoad(r, u) \/ PurgeLoad(r, u)
      PROVE  /\ tokens' = tokens /\ spent' = spent
             /\ \A s \in Requests : At(s, "reset.commit")' => requests'[s] = requests[s]
  BY <1>1 DEF CreateUser, Forgot, EditLoad, PurgeLoad
<1>2. ASSUME NEW t \in Tokens, StoreToken(r, t)
      PROVE  /\ \A x \in Tokens : tokens'[x].used = tokens[x].used
             /\ spent' = spent
             /\ \A s \in Requests : At(s, "reset.commit")' => requests'[s] = requests[s]
  BY <1>2 DEF StoreToken, Token, Request
<1>3. ASSUME NEW t \in Tokens, Resolve(r, t)
      PROVE  /\ tokens' = tokens /\ spent' = spent
             /\ \A s \in Requests : At(s, "reset.commit")' => requests'[s] = requests[s]
  BY <1>3 DEF Resolve
<1>4. ASSUME NEW email \in BOOLEAN, EditCommit(r, email)
      PROVE  /\ tokens' = tokens /\ spent' = spent
             /\ \A s \in Requests : At(s, "reset.commit")' => requests'[s] = requests[s]
  BY <1>4 DEF EditCommit
<1>5. ASSUME ResetUser(r)
      PROVE  /\ tokens' = tokens /\ spent' = spent
             /\ \A s \in Requests : At(s, "reset.commit")' => requests'[s] = requests[s]
  <2>1. requests'[r].pc = "hash" /\ \A s \in Requests \ {r} : requests'[s] = requests[s]
    BY <1>5 DEF ResetUser, Request
  <2> QED
    BY <1>5, <2>1 DEF ResetUser
<1>6. ASSUME Mail(r) \/ PurgeCommit(r) \/ Abort(r)
      PROVE  /\ tokens' = tokens /\ spent' = spent
             /\ \A s \in Requests : At(s, "reset.commit")' => requests'[s] = requests[s]
  BY <1>6 DEF Mail, PurgeCommit, Abort
<1> QED
  BY <1>1, <1>2, <1>3, <1>4, <1>5, <1>6 DEF Handle

LEMMA NextSpent ==
  ASSUME SpentInv, [Next]_vars
  PROVE  (CommitSpends /\ SpentIsUsed)'
<1> USE DEF SpentInv
<1>1. ASSUME NEW r \in Requests, ResetCommit(r)
      PROVE  (CommitSpends /\ SpentIsUsed)'
  <2> DEFINE q == requests[r]
  <2>1. /\ requests' \in [Requests -> Request]
        /\ \A s \in Requests : requests'[s] = IF s = r THEN Idle ELSE requests[s]
    BY <1>1, RequestsAfter, IdleIsRequest DEF ResetCommit
  <2>2. q.token \in Tokens /\ (tokens[q.token].used \/ q.token \in q.seen)
    BY <1>1 DEF ResetCommit, Inv, Attached, CommitSpends
  <2>3. \A t \in Tokens : tokens'[t].used = (tokens[t].used \/ t \in q.seen)
    BY <1>1 DEF ResetCommit, Inv, TypeOK, Token
  <2>4. CommitSpends'
    <3> SUFFICES ASSUME NEW s \in Requests, At(s, "reset.commit")'
                 PROVE  (tokens[requests[s].token].used \/ requests[s].token \in requests[s].seen)'
      BY DEF CommitSpends
    <3>1. requests'[s] = requests[s] /\ At(s, "reset.commit")
      BY <2>1 DEF At, Idle
    <3>2. requests[s].token \in Tokens
      BY <3>1 DEF Inv, Attached
    <3> QED
      BY <2>3, <3>1, <3>2 DEF CommitSpends
  <2>5. SpentIsUsed'
    BY <1>1, <2>2, <2>3 DEF ResetCommit, SpentIsUsed, Inv, TypeOK
  <2> QED
    BY <2>4, <2>5
<1>2. ASSUME NEW r \in Requests, ResetQuery(r)
      PROVE  (CommitSpends /\ SpentIsUsed)'
  <2>1. requests[r].token \in TokensOf(requests[r].user)
    BY <1>2 DEF ResetQuery, Inv, TypeOK
  <2>2. /\ requests'[r].token = requests[r].token
        /\ requests'[r].seen = Unused(requests[r].user)
        /\ \A s \in Requests \ {r} : requests'[s] = requests[s]
    BY <1>2 DEF ResetQuery, Keep, Continue, Inv, TypeOK, Request
  <2>3. UNCHANGED <<tokens, spent>>
    BY <1>2 DEF ResetQuery, Keep
  <2> QED
    BY <2>1, <2>2, <2>3 DEF CommitSpends, SpentIsUsed, Unused, At
<1>3. ASSUME \A t \in Tokens : tokens'[t].used = tokens[t].used, spent' = spent,
             \A s \in Requests : At(s, "reset.commit")' => requests'[s] = requests[s]
      PROVE  (CommitSpends /\ SpentIsUsed)'
  <2>1. \A s \in Requests : At(s, "reset.commit") => requests[s].token \in Tokens
    BY DEF Inv, Attached
  <2> QED
    BY <1>3, <2>1 DEF CommitSpends, SpentIsUsed, At
<1>4. ASSUME NEW r \in Requests, Handle(r), ~ResetCommit(r), ~ResetQuery(r)
      PROVE  (CommitSpends /\ SpentIsUsed)'
  BY <1>3, <1>4, HandleSteps
<1>5. ASSUME NEW u \in Users, SsoUser(u) \/ Toggle(u) \/ Delete(u) \/ Restore(u)
      PROVE  (CommitSpends /\ SpentIsUsed)'
  BY <1>3, <1>5 DEF SsoUser, Toggle, Delete, Restore, At
<1>6. ASSUME NEW t \in Tokens, Expire(t)
      PROVE  (CommitSpends /\ SpentIsUsed)'
  BY <1>3, <1>6 DEF Expire, At, Inv, TypeOK, Token
<1>7. CASE UNCHANGED vars
  BY <1>3, <1>7 DEF vars, At
<1> QED
  BY <1>1, <1>2, <1>4, <1>5, <1>6, <1>7 DEF Next

-----------------------------------------------------------------------------
\* Types, and the foreign key: whatever is purged or expires, a stored token
\* has a user, and a request that changes a password has a token of that user.
THEOREM TypeCorrect == Spec => []TypeOK
<1>1. Init => Inv
  BY InitInv DEF SpentInv
<1>2. Inv /\ [Next]_vars => Inv'
  BY NextInv
<1>3. Inv => TypeOK
  BY DEF Inv
<1> QED
  BY <1>1, <1>2, <1>3, PTL DEF Spec

\* A token that has paid for a password change is marked as used, so no request
\* that starts later resolves it (reset_password_submit marks what it read
\* before its commit; that the read follows the flush of the password is what
\* makes CommitSpends inductive).
THEOREM SpentIsUsedHolds == Spec => []SpentIsUsed
<1>1. Init => SpentInv
  BY InitInv
<1>2. SpentInv /\ [Next]_vars => SpentInv'
  BY NextInv, NextSpent DEF SpentInv
<1>3. SpentInv => SpentIsUsed
  BY DEF SpentInv
<1> QED
  BY <1>1, <1>2, <1>3, PTL DEF Spec

-----------------------------------------------------------------------------
\* While requests do not overlap: one is in flight at most; what it resolved is
\* unused until its own commit; and it has seen every link of the user.
OneAtATime == \A r, s \in Requests : r # s => At(r, "idle") \/ At(s, "idle")

Fresh == \A r \in Requests :
           At(r, "resolved") \/ At(r, "hash") \/ At(r, "reset.commit") =>
             ~tokens[requests[r].token].used

SeesAll == \A r \in Requests :
             At(r, "reset.commit") => Unused(requests[r].user) \subseteq requests[r].seen

Undisturbed == Fresh /\ TokenUsedOnce /\ SeesAll

SerialInv == ~overlapped => OneAtATime /\ Undisturbed

\* The history forgets nothing that the specification says.
LEMMA HistoryOnly == HSpec => Spec
<1>1. HInit => Init
  BY DEF HInit
<1>2. [HNext]_<<vars, overlapped>> => [Next]_vars
  BY DEF HNext, vars
<1> QED
  BY <1>1, <1>2, PTL DEF HSpec, Spec

\* A step of a request that neither reads nor marks the links for its commit
\* leaves the others alone, resolves what is unused, and adds a token at most.
LEMMA HandleKnows ==
  ASSUME Inv, NEW r \in Requests, Handle(r), ~ResetCommit(r), ~ResetQuery(r)
  PROVE  /\ \A s \in Requests \ {r} : requests'[s] = requests[s]
         /\ \/ At(r, "resolved") /\ requests'[r].token = requests[r].token
            \/ requests'[r].pc \notin {"resolved", "hash", "reset.commit"}
            \/ requests'[r].token \in Tokens /\ ~tokens[requests'[r].token].used
         /\ requests'[r].pc # "reset.commit"
         /\ tokens' = tokens \/ ~At(r, "idle")
<1> USE DEF Inv, Keep, Continue, Finish, Idle
<1>a. requests \in [Requests -> Request]
  BY DEF TypeOK
<1>1. ASSUME ResetUser(r)
      PROVE  /\ requests'[r].pc = "hash" /\ requests'[r].token = requests[r].token
             /\ At(r, "resolved") /\ tokens' = tokens
             /\ \A s \in Requests \ {r} : requests'[s] = requests[s]
  BY <1>a, <1>1 DEF ResetUser, Request
<1>2. ASSUME NEW t \in Tokens, Resolve(r, t)
      PROVE  /\ requests'[r].pc = "resolved" /\ requests'[r].token = t /\ ~tokens[t].used
             /\ tokens' = tokens
             /\ \A s \in Requests \ {r} : requests'[s] = requests[s]
  BY <1>a, <1>2 DEF Resolve, Valid
<1>3. ASSUME NEW t \in Tokens, StoreToken(r, t)
      PROVE  /\ requests'[r].pc = "mail" /\ ~At(r, "idle")
             /\ \A s \in Requests \ {r} : requests'[s] = requests[s]
  BY <1>a, <1>3 DEF StoreToken, Request, At
<1>4. ASSUME NEW u \in Users, NEW password \in BOOLEAN,
             CreateUser(r, u, password) \/ Forgot(r, u) \/ EditLoad(r, u) \/ PurgeLoad(r, u)
      PROVE  /\ requests'[r].pc \in {"welcome", "forgot", "edit", "purge"}
             /\ tokens' = tokens
             /\ \A s \in Requests \ {r} : requests'[s] = requests[s]
  <2>1. CASE CreateUser(r, u, password)
    BY <1>a, <2>1 DEF CreateUser
  <2>2. CASE Forgot(r, u)
    BY <1>a, <2>2 DEF Forgot
  <2>3. CASE EditLoad(r, u)
    BY <1>a, <2>3 DEF EditLoad
  <2>4. CASE PurgeLoad(r, u)
    BY <1>a, <2>4 DEF PurgeLoad
  <2> QED
    BY <1>4, <2>1, <2>2, <2>3, <2>4
<1>5. ASSUME NEW email \in BOOLEAN, EditCommit(r, email)
      PROVE  /\ requests'[r].pc = "idle" /\ tokens' = tokens
             /\ \A s \in Requests \ {r} : requests'[s] = requests[s]
  BY <1>a, <1>5 DEF EditCommit
<1>6. ASSUME Mail(r) \/ PurgeCommit(r) \/ Abort(r)
      PROVE  /\ requests'[r].pc = "idle" /\ tokens' = tokens
             /\ \A s \in Requests \ {r} : requests'[s] = requests[s]
  BY <1>a, <1>6 DEF Mail, PurgeCommit, Abort
<1> HIDE DEF Inv, Keep, Continue, Finish, Idle
<1> QED
  BY <1>1, <1>2, <1>3, <1>4, <1>5, <1>6 DEF Handle

\* The commit of a password change whose token is unused and whose list of
\* links is complete spends that token once and marks every link of the user.
LEMMA CommitUndisturbed ==
  ASSUME SpentInv, Undisturbed, OneAtATime, NEW r \in Requests, ResetCommit(r)
  PROVE  /\ Undisturbed'
         /\ \A t \in TokensOf(requests[r].user) : tokens'[t].used
<1> USE DEF SpentInv, Inv
<1>1. requests'[r] = Idle /\ \A s \in Requests \ {r} : requests'[s].pc = "idle"
  BY DEF ResetCommit, Finish, TypeOK, OneAtATime, At
<1>2. spent[requests[r].token] = 0
  BY DEF ResetCommit, Undisturbed, Fresh, Attached, SpentIsUsed, TypeOK
<1>3. TokenUsedOnce'
  BY <1>2 DEF ResetCommit, Undisturbed, TokenUsedOnce, Attached, TypeOK
<1>4. Fresh' /\ SeesAll'
  BY <1>1 DEF Fresh, SeesAll, At, Idle
<1>5. ASSUME NEW t \in TokensOf(requests[r].user)
      PROVE  tokens'[t].used
  <2>1. t \in Tokens /\ (tokens[t].used \/ t \in requests[r].seen)
    BY DEF TokensOf, ResetCommit, Undisturbed, SeesAll, Unused
  <2> QED
    BY <2>1 DEF ResetCommit, TypeOK, Token
<1> QED
  BY <1>3, <1>4, <1>5 DEF Undisturbed

LEMMA NextUndisturbed ==
  ASSUME SpentInv, Undisturbed, OneAtATime, [Next]_vars
  PROVE  Undisturbed'
<1> USE DEF SpentInv, Inv
<1>0. \A r \in Requests : At(r, "resolved") \/ At(r, "hash") \/ At(r, "reset.commit") =>
        requests[r].token \in Tokens
  BY DEF Attached
<1>1. ASSUME NEW r \in Requests, ResetCommit(r)
      PROVE  Undisturbed'
  BY <1>1, CommitUndisturbed
<1>2. ASSUME NEW r \in Requests, ResetQuery(r)
      PROVE  Undisturbed'
  <2>1. /\ requests'[r].token = requests[r].token
        /\ requests'[r].user = requests[r].user
        /\ requests'[r].seen = Unused(requests[r].user)
        /\ At(r, "hash")
        /\ \A s \in Requests \ {r} : requests'[s] = requests[s]
        /\ UNCHANGED <<tokens, spent>>
    BY <1>2 DEF ResetQuery, Keep, Continue, TypeOK, Request
  <2> QED
    BY <2>1 DEF Undisturbed, Fresh, TokenUsedOnce, SeesAll, Unused, TokensOf, At
<1>3. ASSUME NEW r \in Requests, Handle(r), ~ResetCommit(r), ~ResetQuery(r)
      PROVE  Undisturbed'
  <2>1. /\ \A t \in Tokens : tokens'[t].used = tokens[t].used
        /\ spent' = spent
    BY <1>3, HandleSteps
  <2>2. Fresh' /\ TokenUsedOnce'
    BY <1>0, <1>3, <2>1, HandleKnows DEF Undisturbed, Fresh, TokenUsedOnce, At
  <2>3. ASSUME NEW s \in Requests, At(s, "reset.commit")'
        PROVE  (Unused(requests[s].user) \subseteq requests[s].seen)'
    <3>1. s # r /\ requests'[s] = requests[s] /\ At(s, "reset.commit")
      BY <1>3, <2>3, HandleKnows DEF At
    <3>2. tokens' = tokens
      BY <1>3, <3>1, HandleKnows DEF OneAtATime, At
    <3> QED
      BY <3>1, <3>2 DEF Undisturbed, SeesAll, Unused, TokensOf
  <2> QED
    BY <2>2, <2>3 DEF Undisturbed, SeesAll
<1>4. ASSUME requests' = requests, spent' = spent,
             \A t \in Tokens : tokens'[t].used = tokens[t].used /\ tokens'[t].user = tokens[t].user
      PROVE  Undisturbed'
  BY <1>0, <1>4 DEF Undisturbed, Fresh, TokenUsedOnce, SeesAll, Unused, TokensOf, At
<1>5. ASSUME NEW u \in Users, SsoUser(u) \/ Toggle(u) \/ Delete(u) \/ Restore(u)
      PROVE  Undisturbed'
  BY <1>4, <1>5 DEF SsoUser, Toggle, Delete, Restore
<1>6. ASSUME NEW t \in Tokens, Expire(t)
      PROVE  Undisturbed'
  <2>1. \A x \in Tokens : tokens'[x].used = tokens[x].used /\ tokens'[x].user = tokens[x].user
    BY <1>6 DEF Expire, TypeOK, Token
  <2> QED
    BY <1>4, <1>6, <2>1 DEF Expire
<1>7. CASE UNCHANGED vars
  BY <1>4, <1>7 DEF vars
<1> QED
  BY <1>1, <1>2, <1>3, <1>5, <1>6, <1>7 DEF Next

\* A state after which requests have not overlapped has one in flight at most.
LEMMA SerialStep ==
  ASSUME SpentInv, SerialInv, [HNext]_<<vars, overlapped>>
  PROVE  SerialInv'
<1> SUFFICES ASSUME ~overlapped' PROVE OneAtATime' /\ Undisturbed'
  BY DEF SerialInv
<1>1. ~overlapped
  BY DEF HNext
<1>2. OneAtATime'
  <2>1. CASE UNCHANGED <<vars, overlapped>>
    BY <1>1, <2>1 DEF SerialInv, OneAtATime, At, vars
  <2>2. CASE HNext
    BY <2>2 DEF HNext, Overlap, OneAtATime, At
  <2> QED
    BY <2>1, <2>2
<1>3. [Next]_vars
  BY DEF HNext, vars
<1> QED
  BY <1>1, <1>2, <1>3, NextUndisturbed DEF SerialInv

\* "A token that can be used once" (core/password_reset.py) is true of requests
\* that do not overlap, for any number of users, tokens and requests and whatever
\* happens between two requests: a token pays for one password change, and the
\* change leaves no other link of the user valid.
THEOREM SerialSpendsAllHolds == HSpec => SerialSpendsAll
<1>1. HInit => SerialInv
  BY DEF HInit, Init, SerialInv, OneAtATime, Undisturbed, Fresh, TokenUsedOnce, SeesAll, At, Idle
<1>2. Init => SpentInv
  BY InitInv
<1>3. SpentInv /\ [Next]_vars => SpentInv'
  BY NextInv, NextSpent DEF SpentInv
<1>4. SpentInv /\ SerialInv /\ [HNext]_<<vars, overlapped>> => SerialInv'
  BY SerialStep
<1>5. ASSUME SpentInv, SerialInv, SerialInv', [HNext]_<<vars, overlapped>>
      PROVE  [overlapped' \/
                /\ TokenUsedOnce'
                /\ \A r \in Requests : At(r, "reset.commit") /\ spent' # spent
                     => \A t \in TokensOf(requests[r].user) : tokens'[t].used]_<<vars, overlapped>>
  <2> SUFFICES ASSUME HNext, ~overlapped'
               PROVE  /\ TokenUsedOnce'
                      /\ \A r \in Requests : At(r, "reset.commit") /\ spent' # spent
                           => \A t \in TokensOf(requests[r].user) : tokens'[t].used
    BY <1>5
  <2>1. OneAtATime /\ Undisturbed /\ TokenUsedOnce'
    BY <1>5 DEF HNext, SerialInv, Undisturbed
  <2>2. ASSUME NEW r \in Requests, At(r, "reset.commit"), spent' # spent
        PROVE  \A t \in TokensOf(requests[r].user) : tokens'[t].used
    <3>1. PICK s \in Requests : ResetCommit(s)
      <4>1. ASSUME NEW s \in Requests, Handle(s), ~ResetCommit(s) PROVE spent' = spent
        BY <1>5, <4>1, HandleSteps DEF ResetQuery, Keep, SpentInv
      <4> QED
        BY <2>2, <4>1 DEF HNext, Next, SsoUser, Toggle, Delete, Restore, Expire
    <3>2. s = r
      BY <2>1, <2>2, <3>1 DEF OneAtATime, ResetCommit, At
    <3> QED
      BY <1>5, <2>1, <3>1, <3>2, CommitUndisturbed
  <2> QED
    BY <2>1, <2>2
<1> QED
  BY <1>1, <1>2, <1>3, <1>4, <1>5, HistoryOnly, PTL DEF HSpec, HInit, Spec, SerialSpendsAll
=============================================================================
