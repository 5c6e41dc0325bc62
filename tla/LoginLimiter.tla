----------------------------- MODULE LoginLimiter -----------------------------
(***************************************************************************)
(* The two rate limits of routers/auth.py for one client address: failed   *)
(* logins and requests for a reset link.  login_submit tests its limit     *)
(* first and registers a failure only after the password was verified in   *)
(* the thread pool; forgot_password_submit tests and registers without     *)
(* giving up the event loop in between.                                    *)
(*                                                                         *)
(* A deque of times is modelled by the number of its entries that are      *)
(* younger than the window: every test first drops the others.             *)
(***************************************************************************)
EXTENDS Integers, FiniteSets

CONSTANTS
  Attempts,      \* slots for login requests that are in flight
  MaxFailures,   \* _MAX_FAILED_ATTEMPTS
  MaxResets      \* _MAX_RESET_REQUESTS

ASSUME LimiterAssumption == /\ MaxFailures \in Nat \ {0}
                            /\ MaxResets \in Nat \ {0}
                            /\ IsFiniteSet(Attempts)

VARIABLES
  failures,   \* entries of _failed_logins in the window
  resets,     \* entries of _reset_requests in the window
  verifying   \* login requests that passed the limit and are not answered yet

limiterVars == <<failures, resets, verifying>>

IsRateLimited == failures >= MaxFailures

IsResetRateLimited == resets >= MaxResets

\* Mutant: a login is let through whatever the count is.
Login_Unlimited(r) == /\ r \notin verifying
                      /\ failures <= MaxFailures + Cardinality(Attempts)
                      /\ verifying' = verifying \cup {r}
                      /\ UNCHANGED <<failures, resets>>

\* login_submit up to the password check, which runs in the thread pool.
Login(r) == /\ r \notin verifying
            /\ ~IsRateLimited
            /\ verifying' = verifying \cup {r}
            /\ UNCHANGED <<failures, resets>>

\* Mutant: a refused login counts as a failure, too.
Refuse_Registers(r) == /\ r \notin verifying
                       /\ IsRateLimited
                       /\ failures <= MaxFailures + Cardinality(Attempts)
                       /\ failures' = failures + 1
                       /\ UNCHANGED <<resets, verifying>>

\* A request over the limit is answered 429 and registers nothing.
Refuse(r) == /\ r \notin verifying
             /\ IsRateLimited
             /\ UNCHANGED limiterVars

\* The answer is 401 and the failure is registered.
Fail(r) == /\ r \in verifying
           /\ failures' = failures + 1
           /\ verifying' = verifying \ {r}
           /\ UNCHANGED resets

\* The password was right, or the request is gone.
Succeed(r) == /\ r \in verifying
              /\ verifying' = verifying \ {r}
              /\ UNCHANGED <<failures, resets>>

\* forgot_password_submit: an answer, whatever the address names.
ForgotPassword == /\ ~IsResetRateLimited
                  /\ resets' = resets + 1
                  /\ UNCHANGED <<failures, verifying>>

\* Time passes: the oldest entry leaves its window.
FailureExpires == /\ failures > 0
                  /\ failures' = failures - 1
                  /\ UNCHANGED <<resets, verifying>>

ResetExpires == /\ resets > 0
                /\ resets' = resets - 1
                /\ UNCHANGED <<failures, verifying>>

\* The process ends, and its memory with it: both deques, and the requests it
\* was answering.
Restart == /\ failures' = 0
           /\ resets' = 0
           /\ verifying' = {}

LimiterInit == failures = 0 /\ resets = 0 /\ verifying = {}

Answer == \/ \E r \in Attempts : Login(r) \/ Refuse(r) \/ Fail(r) \/ Succeed(r)
          \/ ForgotPassword

EntryExpires == FailureExpires \/ ResetExpires

LimiterNext == Answer \/ EntryExpires \/ Restart

LimiterSpec == LimiterInit /\ [][LimiterNext]_limiterVars

\* Entries get old whatever the clients do.
FairSpec == LimiterSpec /\ WF_limiterVars(FailureExpires) /\ WF_limiterVars(ResetExpires)

-----------------------------------------------------------------------------
LimiterTypeOK == /\ failures \in Nat
                 /\ resets \in Nat
                 /\ verifying \subseteq Attempts

\* Logins that are in flight when the limit is reached may exceed it: by all
\* of them but one, and by no more.
OverrunBounded == failures + Cardinality(verifying) < MaxFailures + Cardinality(Attempts)

\* Who is locked out gets another try, however often it is tried meanwhile.
LockoutEnds == IsRateLimited ~> ~IsRateLimited
=============================================================================
