----------------------------- MODULE PasswordReset ----------------------------
(***************************************************************************)
(* Links that let a user choose a password: the token that                 *)
(* forgot_password_submit and create_user mail, reset_password_submit that *)
(* spends it (routers/auth.py, core/password_reset.py, admin_users.py),    *)
(* and what the other handlers do to the accounts meanwhile.               *)
(*                                                                         *)
(* The row of a user is locked from the statement that updates it to the   *)
(* end of the transaction (RowFree); a token may be inserted meanwhile,    *)
(* since a foreign key only asks that the user's key stays.                *)
(***************************************************************************)
EXTENDS Naturals, FiniteSets

CONSTANTS
  Users, Tokens,   \* row identities
  Requests,        \* slots for requests that are in flight
  None             \* SQL NULL

ASSUME NoneAssumption == None \notin Users /\ None \notin Tokens

VARIABLES
  users,     \* table users, as far as passwords depend on it
  tokens,    \* table password_reset_tokens
  inbox,     \* tokens that were mailed: what users know
  spent,     \* history: how many password changes a token has paid for
  requests   \* what every request in flight has read so far

vars == <<users, tokens, inbox, spent, requests>>

Life == {"absent", "active", "trashed", "purged"}

User == [life     : Life,
         active   : BOOLEAN,   \* is_active
         local    : BOOLEAN,   \* auth_source = LOCAL
         email    : BOOLEAN,   \* email is set
         password : BOOLEAN]   \* hashed_password is set

Token == [user : Users \cup {None}, used : BOOLEAN, expired : BOOLEAN]

PC == {"idle", "forgot", "welcome", "mail", "resolved", "hash", "reset.commit",
       "edit", "purge"}

Request == [pc    : PC,
            user  : Users \cup {None},
            token : Tokens \cup {None},
            seen  : SUBSET Tokens]      \* unused tokens of the user, as read

Idle == [pc |-> "idle", user |-> None, token |-> None, seen |-> {}]

RowExists(u) == users[u].life \in {"active", "trashed"}

Usable(u) == users[u].life = "active" /\ users[u].active

Stored(t) == tokens[t].user # None

TokensOf(u) == {t \in Tokens : tokens[t].user = u}

Valid(t) == Stored(t) /\ ~tokens[t].used /\ ~tokens[t].expired

-----------------------------------------------------------------------------
At(r, pc) == requests[r].pc = pc

Continue(r, q) == requests' = [requests EXCEPT ![r] = q]

Keep(r, q) == Continue(r, q) /\ UNCHANGED <<users, tokens, inbox, spent>>

Finish(r) == requests' = [requests EXCEPT ![r] = Idle]

Abort(r) == /\ ~At(r, "idle")
            /\ Finish(r)
            /\ UNCHANGED <<users, tokens, inbox, spent>>

\* No transaction has updated the row and not yet ended.
RowFree(u) == \A r \in Requests : ~(At(r, "reset.commit") /\ requests[r].user = u)

-----------------------------------------------------------------------------
\* create_user with an address: the account is committed before the token.
CreateUser(r, u, password) ==
  /\ At(r, "idle")
  /\ users[u].life = "absent"
  /\ users' = [users EXCEPT ![u] = [life |-> "active", active |-> TRUE, local |-> TRUE,
                                    email |-> TRUE, password |-> password]]
  /\ Continue(r, [Idle EXCEPT !.pc = "welcome", !.user = u])
  /\ UNCHANGED <<tokens, inbox, spent>>

\* oidc_callback, then the approval: see Accounts.
SsoUser(u) == /\ users[u].life = "absent"
              /\ users' = [users EXCEPT ![u] = [life |-> "active", active |-> TRUE,
                             local |-> FALSE, email |-> TRUE, password |-> FALSE]]
              /\ UNCHANGED <<tokens, inbox, spent, requests>>

\* forgot_password_submit: the account is found and may have a link.
Forgot(r, u) == /\ At(r, "idle")
                /\ Usable(u) /\ users[u].local /\ users[u].password /\ users[u].email
                /\ Keep(r, [Idle EXCEPT !.pc = "forgot", !.user = u])

\* Mutant: the foreign key of password_reset_tokens is missing.
StoreToken_NoForeignKey(r, t) ==
  /\ At(r, "forgot") \/ At(r, "welcome")
  /\ ~Stored(t)
  /\ tokens' = [tokens EXCEPT ![t].user = requests[r].user]
  /\ Continue(r, [requests[r] EXCEPT !.pc = "mail", !.token = t])
  /\ UNCHANGED <<users, inbox, spent>>

\* create_reset_token and commit.
StoreToken(r, t) ==
  LET u == requests[r].user IN
  /\ At(r, "forgot") \/ At(r, "welcome")
  /\ ~Stored(t)
  /\ RowExists(u)
  /\ tokens' = [tokens EXCEPT ![t].user = u]
  /\ Continue(r, [requests[r] EXCEPT !.pc = "mail", !.token = t])
  /\ UNCHANGED <<users, inbox, spent>>

\* send_email delivers; if it does not, the token stays (Abort).
Mail(r) == /\ At(r, "mail")
           /\ inbox' = inbox \cup {requests[r].token}
           /\ Finish(r)
           /\ UNCHANGED <<users, tokens, spent>>

\* TOKEN_LIFETIME is over.
Expire(t) == /\ Stored(t)
             /\ ~tokens[t].expired
             /\ tokens' = [tokens EXCEPT ![t].expired = TRUE]
             /\ UNCHANGED <<users, inbox, spent, requests>>

-----------------------------------------------------------------------------
\* Mutant: a token that was used is not refused.
Resolve_Used(r, t) == /\ At(r, "idle")
                      /\ t \in inbox
                      /\ Stored(t) /\ ~tokens[t].expired
                      /\ Keep(r, [Idle EXCEPT !.pc = "resolved", !.token = t])

\* reset_password_submit, resolve_reset_token.
Resolve(r, t) == /\ At(r, "idle")
                 /\ t \in inbox
                 /\ Valid(t)
                 /\ Keep(r, [Idle EXCEPT !.pc = "resolved", !.token = t])

\* The user of the token; the password is hashed in the thread pool next.
ResetUser(r) ==
  LET u == tokens[requests[r].token].user IN
  /\ At(r, "resolved")
  /\ Usable(u)
  /\ Keep(r, [requests[r] EXCEPT !.pc = "hash", !.user = u])

\* Mutant: tokens that have expired are left alone.
Unused_NotExpired(u) == {t \in TokensOf(u) : Valid(t)}

\* What invalidate_all_tokens_for_user selects.
Unused(u) == {t \in TokensOf(u) : ~tokens[t].used}

\* The query flushes the new password first, which locks the user's row.
ResetQuery(r) ==
  LET q == requests[r] IN
  /\ At(r, "hash")
  /\ RowExists(q.user)
  /\ RowFree(q.user)
  /\ Keep(r, [q EXCEPT !.pc = "reset.commit", !.seen = Unused(q.user)])

ResetCommit(r) ==
  LET q == requests[r] IN
  /\ At(r, "reset.commit")
  /\ users' = [users EXCEPT ![q.user].password = TRUE]
  /\ tokens' = [t \in Tokens |-> IF t \in q.seen THEN [tokens[t] EXCEPT !.used = TRUE]
                                                 ELSE tokens[t]]
  /\ spent' = [spent EXCEPT ![q.token] = @ + 1]
  /\ Finish(r)
  /\ UNCHANGED inbox

-----------------------------------------------------------------------------
\* update_user with a new password, for an account of any source.
EditLoad(r, u) == /\ At(r, "idle")
                  /\ users[u].life = "active"
                  /\ Keep(r, [Idle EXCEPT !.pc = "edit", !.user = u])

EditCommit(r, email) ==
  LET u == requests[r].user IN
  /\ At(r, "edit")
  /\ RowExists(u) /\ RowFree(u)
  /\ users' = [users EXCEPT ![u].password = TRUE, ![u].email = email]
  /\ Finish(r)
  /\ UNCHANGED <<tokens, inbox, spent>>

\* toggle_user, delete_user, restore_trashed_user: see Accounts.
Toggle(u) == /\ RowExists(u) /\ RowFree(u)
             /\ users' = [users EXCEPT ![u].active = ~@]
             /\ UNCHANGED <<tokens, inbox, spent, requests>>

Delete(u) == /\ users[u].life = "active" /\ RowFree(u)
             /\ users' = [users EXCEPT ![u].life = "trashed"]
             /\ UNCHANGED <<tokens, inbox, spent, requests>>

Restore(u) == /\ users[u].life = "trashed" /\ RowFree(u)
              /\ users' = [users EXCEPT ![u].life = "active"]
              /\ UNCHANGED <<tokens, inbox, spent, requests>>

\* purge_user: nothing is open any more, the row is to be deleted.
PurgeLoad(r, u) == /\ At(r, "idle")
                   /\ users[u].life = "trashed"
                   /\ Keep(r, [Idle EXCEPT !.pc = "purge", !.user = u])

\* The foreign key of password_reset_tokens.user_id: no handler deletes tokens.
PurgeCommit(r) ==
  LET u == requests[r].user IN
  /\ At(r, "purge")
  /\ RowFree(u)
  /\ TokensOf(u) = {}
  /\ users' = [users EXCEPT ![u] = [life |-> "purged", active |-> FALSE, local |-> TRUE,
                                    email |-> FALSE, password |-> FALSE]]
  /\ Finish(r)
  /\ UNCHANGED <<tokens, inbox, spent>>

-----------------------------------------------------------------------------
Init == /\ users = [u \in Users |-> [life |-> "absent", active |-> FALSE, local |-> TRUE,
                                     email |-> FALSE, password |-> FALSE]]
        /\ tokens = [t \in Tokens |-> [user |-> None, used |-> FALSE, expired |-> FALSE]]
        /\ inbox = {}
        /\ spent = [t \in Tokens |-> 0]
        /\ requests = [r \in Requests |-> Idle]

Handle(r) ==
  \/ \E u \in Users : \/ \E password \in BOOLEAN : CreateUser(r, u, password)
                      \/ Forgot(r, u) \/ EditLoad(r, u) \/ PurgeLoad(r, u)
  \/ \E t \in Tokens : StoreToken(r, t) \/ Resolve(r, t)
  \/ Mail(r) \/ ResetUser(r) \/ ResetQuery(r) \/ ResetCommit(r)
  \/ \E email \in BOOLEAN : EditCommit(r, email)
  \/ PurgeCommit(r)
  \/ Abort(r)

Next == \/ \E r \in Requests : Handle(r)
        \/ \E u \in Users : SsoUser(u) \/ Toggle(u) \/ Delete(u) \/ Restore(u)
        \/ \E t \in Tokens : Expire(t)

Spec == Init /\ [][Next]_vars

-----------------------------------------------------------------------------
\* Types; a stored token belongs to an existing user, what was mailed was
\* stored before, and a request that changes a password has a stored token.
TypeOK ==
  /\ users \in [Users -> User]
  /\ tokens \in [Tokens -> Token]
  /\ inbox \subseteq {t \in Tokens : Stored(t)}
  /\ spent \in [Tokens -> Nat]
  /\ requests \in [Requests -> Request]
  /\ \A t \in Tokens : Stored(t) => RowExists(tokens[t].user)
  /\ \A r \in Requests : At(r, "hash") \/ At(r, "reset.commit") =>
       requests[r].token \in TokensOf(requests[r].user)

\* A token that has paid for a password change is used from then on: no
\* request that starts later can resolve it, however the others interleave.
SpentIsUsed == \A t \in Tokens : spent[t] > 0 => tokens[t].used

\* Tokens can be used once (core/password_reset.py:4).
TokenUsedOnce == \A t \in Tokens : spent[t] <= 1

\* A user in the trash is purged once nothing of the user is open.
PurgeGoesThrough == \A r \in Requests : At(r, "purge") => TokensOf(requests[r].user) = {}
=============================================================================
