----------------------------- MODULE AuthTokens -----------------------------
(***************************************************************************)
(* Accounts and the tokens the auth routes hand out (app/api/routes.py):   *)
(* refresh tokens, one-time password-reset tokens and one-time e-mail      *)
(* verification tokens, all rows of auth_tokens (app/db/repository.py).    *)
(*                                                                         *)
(* A route is a sequence of repository calls and each call is a            *)
(* transaction. A token is looked up and judged in the first one; the      *)
(* later ones act on that answer and do not look again.                    *)
(***************************************************************************)
EXTENDS Naturals, FiniteSets

CONSTANTS
  Users,         (* E-mail addresses that may register.                      *)
  Threads,       (* API threads; a thread serves one request at a time.      *)
  TokenIds,      (* Bound: the rows auth_tokens ever holds.                  *)
  MaxPasswords   (* Bound: password changes of one user.                     *)

ASSUME MaxPasswordsAssumption == MaxPasswords \in Nat
ASSUME TokenIdsAssumption == "new" \notin TokenIds

OneTimeKinds == {"password_reset", "email_verification"}
Kinds == {"refresh"} \cup OneTimeKinds

VARIABLES
  users,      (* Users with a row.                                          *)
  password,   (* User -> password now in force; each change is a new one.   *)
  verified,   (* Users whose e-mail address is verified.                    *)
  tokens,     (* Token id -> its row.                                       *)
  req,        (* What each API thread is doing.                             *)
  shared,     (* History: tokens that two requests held at once, or whose   *)
              (* request stopped between its effect and consuming them.     *)
  raced       (* History: users whose last reset was overtaken by a sign-in *)
              (* of the old password, or stopped before it ended sessions.  *)

vars == <<users, password, verified, tokens, req, shared, raced>>

(* A row of auth_tokens. History fields: family is the first token of the   *)
(* chain of rotations, era the password a session's chain signed in with,   *)
(* uses how often a one-time token had its effect (2: twice or more).       *)
Token == [kind: Kinds, user: Users, consumed: BOOLEAN, revoked: BOOLEAN,
          expired: BOOLEAN, family: TokenIds, era: Nat, uses: 0 .. 2]
NoToken == [kind |-> "none"]

(* A request: the repository call it makes next, the user it serves, the    *)
(* token it was given and, when it will create one, what kind of token.     *)
(* ("new" = a chain starts here)                                            *)
Steps == {"mint", "revoke", "logout", "write", "verify", "consume", "sweep"}
Given == TokenIds \cup {"new"}
Request == [at: Steps, user: Users, tok: Given, kind: Kinds, era: Nat]
Idle == [at |-> "idle"]

Init ==
  /\ users = {}
  /\ password = [u \in Users |-> 0]
  /\ verified = {}
  /\ tokens = [i \in TokenIds |-> NoToken]
  /\ req = [t \in Threads |-> Idle]
  /\ shared = {}
  /\ raced = {}

-----------------------------------------------------------------------------
Issued(i) == tokens[i].kind # "none"
Busy(t) == req[t].at # "idle"

(* AuthTokenRecord.is_active                                                 *)
IsActive(i) ==
  /\ Issued(i)
  /\ ~tokens[i].consumed
  /\ ~tokens[i].revoked
  /\ ~tokens[i].expired

(* _active_token_or_401 and _active_token_or_400                             *)
ActiveToken(i, kind) == IsActive(i) /\ tokens[i].kind = kind

(* Requests that will act on token i.                                        *)
Holds(t, i) == req[t].at \notin {"idle", "mint"} /\ req[t].tok = i
SharedAfter(i) == IF \E t \in Threads : Holds(t, i) THEN shared \cup {i} ELSE shared

(* Requests that will create a session of user u.                            *)
SigningIn(t, u) ==
  req[t].at \in {"mint", "revoke"} /\ req[t].user = u
                /\ req[t].kind = "refresh"

(* A reset of user u has written the password and not yet ended sessions.    *)
Resetting(t, u) ==
  req[t].at \in {"consume", "sweep"} /\ req[t].user = u
                /\ req[t].kind = "password_reset"

OnceMore(n) == IF n < 2 THEN n + 1 ELSE n

Begin(t, at, u, i, kind, era) ==
  /\ ~Busy(t)
  /\ req' = [req EXCEPT ![t] =
       [at |-> at, user |-> u, tok |-> i, kind |-> kind, era |-> era]]
Continue(t, at) == req' = [req EXCEPT ![t].at = at]
Answer(t) == req' = [req EXCEPT ![t] = Idle]

-----------------------------------------------------------------------------
(* register_user: the unique e-mail hash admits one row; then a session.     *)
Register(t, u) ==
  /\ u \notin users
  /\ users' = users \cup {u}
  /\ Begin(t, "mint", u, "new", "refresh", password[u])
  /\ UNCHANGED <<password, verified, tokens, shared, raced>>

(* login_user, with the password in force when it reads the user.            *)
Login(t, u) ==
  /\ u \in users
  /\ Begin(t, "mint", u, "new", "refresh", password[u])
  /\ UNCHANGED <<users, password, verified, tokens, shared, raced>>

(* refresh_auth_token: the token is active.                                  *)
Refresh(t, i) ==
  /\ ActiveToken(i, "refresh")
  /\ Begin(t, "revoke", tokens[i].user, i, "refresh", tokens[i].era)
  /\ shared' = SharedAfter(i)
  /\ UNCHANGED <<users, password, verified, tokens, raced>>

(* Mutant: the presented token is left as it is.                             *)
KeepPresented(t) ==
  /\ req[t].at = "revoke"
  /\ Continue(t, "mint")
  /\ UNCHANGED <<users, password, verified, tokens, shared, raced>>

(* revoke_auth_token sets revoked_at whatever it is. (get_user then finds    *)
(* the user: no code deletes one.)                                           *)
RevokePresented(t) ==
  /\ req[t].at = "revoke"
  /\ tokens' = [tokens EXCEPT ![req[t].tok].revoked = TRUE]
  /\ Continue(t, "mint")
  /\ UNCHANGED <<users, password, verified, shared, raced>>

(* _create_auth_token: the last call of sign-in, rotation and both token     *)
(* requests. A rotated token goes on with the chain of the one it replaces.  *)
Mint(t) ==
  /\ req[t].at = "mint"
  /\ \E i \in TokenIds :
       /\ ~Issued(i)
       /\ tokens' = [tokens EXCEPT ![i] =
            [kind |-> req[t].kind, user |-> req[t].user, consumed |-> FALSE,
             revoked |-> FALSE, expired |-> FALSE, era |-> req[t].era, uses |-> 0,
             family |-> IF req[t].tok = "new" THEN i ELSE tokens[req[t].tok].family]]
  /\ Answer(t)
  /\ UNCHANGED <<users, password, verified, shared, raced>>

(* logout_user: a refresh token that is not revoked yet, expired or not.     *)
Logout(t, i) ==
  /\ Issued(i)
  /\ tokens[i].kind = "refresh"
  /\ ~tokens[i].revoked
  /\ Begin(t, "logout", tokens[i].user, i, "refresh", 0)
  /\ UNCHANGED <<users, password, verified, tokens, shared, raced>>

RevokeLoggedOut(t) ==
  /\ req[t].at = "logout"
  /\ tokens' = [tokens EXCEPT ![req[t].tok].revoked = TRUE]
  /\ Answer(t)
  /\ UNCHANGED <<users, password, verified, shared, raced>>

(* Mutant: the row of a reset token carries another name than its look-up.   *)
RequestMisnamed(t, u, kind) ==
  /\ kind \in OneTimeKinds
  /\ u \in users
  /\ Begin(t, "mint", u, "new", "reset", 0)
  /\ UNCHANGED <<users, password, verified, tokens, shared, raced>>

(* request_password_reset and request_email_verification                     *)
RequestToken(t, u, kind) ==
  /\ kind \in OneTimeKinds
  /\ u \in users
  /\ Begin(t, "mint", u, "new", kind, 0)
  /\ UNCHANGED <<users, password, verified, tokens, shared, raced>>

(* confirm_password_reset: the token is active, the new password is hashed.  *)
ConfirmReset(t, i) ==
  /\ ActiveToken(i, "password_reset")
  /\ Begin(t, "write", tokens[i].user, i, "password_reset", 0)
  /\ shared' = SharedAfter(i)
  /\ UNCHANGED <<users, password, verified, tokens, raced>>

UpdateUserPassword(t) ==
  /\ req[t].at = "write"
  /\ password[req[t].user] < MaxPasswords
  /\ password' = [password EXCEPT ![req[t].user] = @ + 1]
  /\ tokens' = [tokens EXCEPT ![req[t].tok].uses = OnceMore(@)]
  /\ Continue(t, "consume")
  /\ UNCHANGED <<users, verified, shared, raced>>

(* Sessions of u may be left that signed in with another password.           *)
Overtaken(t, u) ==
  \E s \in Threads \ {t} : SigningIn(s, u) /\ req[s].era # password[u]

(* Mutant: only the sessions of the chain that asked for the reset end.      *)
RevokeOne(t) ==
  /\ req[t].at = "sweep"
  /\ \E i \in TokenIds :
       /\ ActiveToken(i, "refresh")
       /\ tokens[i].user = req[t].user
       /\ tokens' = [tokens EXCEPT ![i].revoked = TRUE]
  /\ raced' = IF Overtaken(t, req[t].user) THEN raced \cup {req[t].user}
              ELSE raced \ {req[t].user}
  /\ Answer(t)
  /\ UNCHANGED <<users, password, verified, shared>>

(* revoke_user_tokens: every refresh token of the user, and the answer.      *)
RevokeUserTokens(t) ==
  /\ req[t].at = "sweep"
  /\ LET u == req[t].user IN
       /\ tokens' = [i \in TokenIds |->
            IF Issued(i) /\ tokens[i].user = u /\ tokens[i].kind = "refresh"
            THEN [tokens[i] EXCEPT !.revoked = TRUE] ELSE tokens[i]]
       /\ raced' = IF Overtaken(t, u) THEN raced \cup {u} ELSE raced \ {u}
  /\ Answer(t)
  /\ UNCHANGED <<users, password, verified, shared>>

(* confirm_email_verification                                                *)
ConfirmVerification(t, i) ==
  /\ ActiveToken(i, "email_verification")
  /\ Begin(t, "verify", tokens[i].user, i, "email_verification", 0)
  /\ shared' = SharedAfter(i)
  /\ UNCHANGED <<users, password, verified, tokens, raced>>

MarkVerified(t) ==
  /\ req[t].at = "verify"
  /\ verified' = verified \cup {req[t].user}
  /\ tokens' = [tokens EXCEPT ![req[t].tok].uses = OnceMore(@)]
  /\ Continue(t, "consume")
  /\ UNCHANGED <<users, password, shared, raced>>

(* What consume_auth_token is followed by: a reset goes on to end sessions.  *)
AfterConsume(t) ==
  IF req[t].kind = "password_reset" THEN Continue(t, "sweep") ELSE Answer(t)

(* Mutant: the effect is not followed by consume_auth_token.                 *)
SkipConsume(t) ==
  /\ req[t].at = "consume"
  /\ AfterConsume(t)
  /\ UNCHANGED <<users, password, verified, tokens, shared, raced>>

Consume(t) ==
  /\ req[t].at = "consume"
  /\ tokens' = [tokens EXCEPT ![req[t].tok].consumed = TRUE]
  /\ AfterConsume(t)
  /\ UNCHANGED <<users, password, verified, shared, raced>>

-----------------------------------------------------------------------------
(* expires_at passes.                                                        *)
Expire(i) ==
  /\ IsActive(i)
  /\ tokens' = [tokens EXCEPT ![i].expired = TRUE]
  /\ UNCHANGED <<users, password, verified, req, shared, raced>>

(* A repository call raises, or the process stops: the request ends between  *)
(* two of its transactions.                                                  *)
Stop(t) ==
  /\ Busy(t)
  /\ Answer(t)
  /\ shared' = shared \cup (IF req[t].at = "consume" THEN {req[t].tok} ELSE {})
  /\ raced' = raced \cup (IF Resetting(t, req[t].user) THEN {req[t].user} ELSE {})
  /\ UNCHANGED <<users, password, verified, tokens>>

Next ==
  \/ \E t \in Threads, u \in Users : Register(t, u) \/ Login(t, u)
  \/ \E t \in Threads, u \in Users, k \in OneTimeKinds : RequestToken(t, u, k)
  \/ \E t \in Threads, i \in TokenIds :
       \/ Refresh(t, i) \/ Logout(t, i)
       \/ ConfirmReset(t, i) \/ ConfirmVerification(t, i)
  \/ \E t \in {s \in Threads : Busy(s)} :
       \/ RevokePresented(t) \/ Mint(t) \/ RevokeLoggedOut(t)
       \/ UpdateUserPassword(t) \/ MarkVerified(t) \/ Consume(t)
       \/ RevokeUserTokens(t) \/ Stop(t)
  \/ \E i \in TokenIds : Expire(i)

Spec == Init /\ [][Next]_vars

-----------------------------------------------------------------------------
(* Type invariant: rows and requests are well formed.                        *)
TypeOK ==
  /\ users \subseteq Users
  /\ password \in [Users -> Nat]
  /\ verified \subseteq Users
  /\ tokens \in [TokenIds -> Token \cup {NoToken}]
  /\ req \in [Threads -> Request \cup {Idle}]
  /\ shared \subseteq TokenIds
  /\ raced \subseteq Users

(* "Password reset and email verification tokens are one-time" (README):     *)
(* such a token has its effect once, through expiry, crashes and any other   *)
(* traffic, unless two requests held it at the same time or its request      *)
(* stopped before consuming it (confirm_password_reset,                      *)
(* confirm_email_verification).                                              *)
OneTimeTokens ==
  \A i \in TokenIds \ shared :
    Issued(i) /\ tokens[i].kind \in OneTimeKinds => tokens[i].uses <= 1

(* "Refresh tokens are ... rotated" (README): a sign-in has at most one      *)
(* active refresh token however often it is refreshed, unless two requests   *)
(* presented the same token at the same time (refresh_auth_token).           *)
OneTokenPerSignIn ==
  \A i, j \in TokenIds :
    /\ i # j /\ ActiveToken(i, "refresh") /\ ActiveToken(j, "refresh")
    /\ tokens[i].family = tokens[j].family
    => \E k \in shared : tokens[k].family = tokens[i].family

(* "Refresh tokens are ... revoked by ... password reset" (README): outside  *)
(* a reset, every session that can still be refreshed signed in with the     *)
(* password now in force, whatever was minted while the reset ran, unless a  *)
(* sign-in of the old password was still to mint its token when the reset    *)
(* ended sessions, or the reset stopped before it did; and the next whole    *)
(* reset repairs both (confirm_password_reset).                              *)
SessionsFollowPassword ==
  \A i \in TokenIds :
    ActiveToken(i, "refresh") /\ tokens[i].user \notin raced =>
      \/ tokens[i].era = password[tokens[i].user]
      \/ \E t \in Threads : Resetting(t, tokens[i].user)
=============================================================================
