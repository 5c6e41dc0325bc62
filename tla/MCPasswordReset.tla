---------------------------- MODULE MCPasswordReset ---------------------------
(***************************************************************************)
(* Instances of PasswordReset for TLC, with one history variable: whether  *)
(* two requests have ever been in flight at the same time.                 *)
(***************************************************************************)
EXTENDS PasswordReset, TLC

VARIABLE overlapped

Overlap == \E r, s \in Requests : r # s /\ ~At(r, "idle") /\ ~At(s, "idle")

HInit == Init /\ overlapped = FALSE
HNext == Next /\ overlapped' = (overlapped \/ Overlap')
HSpec == HInit /\ [][HNext]_<<vars, overlapped>>

\* Rows of one table, and the slots requests run in, are interchangeable.
Symmetry == Permutations(Users) \cup Permutations(Tokens) \cup Permutations(Requests)
-----------------------------------------------------------------------------
\* As long as no requests have overlapped, a token pays for one password change
\* (core/password_reset.py: a token that can be used once), and the change leaves
\* no other link of the user valid.
SerialSpendsAll ==
  [][overlapped' \/
     /\ TokenUsedOnce'
     /\ \A r \in Requests : At(r, "reset.commit") /\ spent' # spent
          => \A t \in TokensOf(requests[r].user) : tokens'[t].used]_<<vars, overlapped>>
=============================================================================
