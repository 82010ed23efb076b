----------------------------- MODULE AuthTokens -----------------------------
(***************************************************************************)
(* Accounts and refresh tokens: concurrent requests that register, log in, *)
(* refresh (which revokes the token sent and issues a new one) and log out *)
(* over the tables users and refresh_tokens.                               *)
(*                                                                         *)
(* A request runs                                                          *)
(*                                                                         *)
(*    idle -> checked [-> revoked] -> written -> ok                        *)
(*                                                                         *)
(* "checked" is what the code decided from reads outside any transaction,  *)
(* "revoked" and "written" are inside RunInTx. It ends in "refused" when   *)
(* the code turns it down, in "broken" when a statement violates the       *)
(* schema, in "failed" when something else went wrong. PostgreSQL is at    *)
(* READ COMMITTED, as in module Transactions. Signing and encryption keep  *)
(* no state; their errors are among those of Fail.                         *)
(***************************************************************************)
EXTENDS Naturals

CONSTANTS
    Requests,        \* HTTP requests, each served by its own goroutine
    Users,           \* row ids of users
    Tokens,          \* row ids of refresh_tokens
    Emails,          \* as typed by clients
    NormalizeEmail,  \* trims and lowercases
    Passwords,
    NoPassword,      \* hashed_password '' of a row that migration 0005 found
    Accounts,        \* users that may be there from the start
    Opened,          \* tokens that may be there from the start
    Schemas,         \* how refresh_tokens.updated_at may be declared
    None

\* A hash is modelled by the password it accepts.
User == [email: Emails, hash: Passwords \cup {NoPassword}]
Token == [user: Users, revoked: BOOLEAN]

Ops == {"register", "login", "refresh", "logout"}

\* 0005_auth_tokens.sql says NOT NULL. Its CREATE TABLE IF NOT EXISTS keeps a
\* table declared otherwise; "nullable" is also the code with the NULL mended.
ASSUME AuthAssumption ==
    /\ NormalizeEmail \in [Emails -> Emails]
    /\ \A e \in Emails : NormalizeEmail[NormalizeEmail[e]] = NormalizeEmail[e]
    /\ NoPassword \notin Passwords
    /\ Accounts \subseteq Users
    /\ Opened \subseteq Tokens
    /\ Schemas \subseteq {"not null", "nullable"}
    /\ None \notin Users \cup Tokens \cup Emails \cup Passwords
    /\ None \notin User \cup Token \cup Ops

VARIABLES
    users,      \* table users, as committed
    tokens,     \* table refresh_tokens, as committed
    expired,    \* tokens whose expires_at has passed
    updatedAt,  \* the declaration of refresh_tokens.updated_at
    pc,         \* where each request is
    req,        \* its locals and what its open transaction wrote
    given,      \* history: tokens some client was answered with
    loggedOut,  \* history: tokens revoked by a logout
    session     \* history: the login a token goes back to, as its first token

tables == <<users, tokens, expired, updatedAt>>
history == <<given, loggedOut, session>>
vars == <<tables, pc, req, history>>

\* old: the token sent, new: the token made; spent is history: when the
\* request came in, another that used up its token had been answered.
Req == [op: Ops \cup {None}, email: Emails \cup {None},
        password: Passwords \cup {None}, user: Users \cup {None},
        old: Tokens \cup {None}, new: Tokens \cup {None}, spent: BOOLEAN]

NoReq == [op |-> None, email |-> None, password |-> None, user |-> None,
          old |-> None, new |-> None, spent |-> FALSE]

Ended == {"ok", "refused", "broken", "failed"}
PcValues == Ended \cup {"idle", "checked", "revoked", "written"}

Become(r, stage, q) ==
    /\ pc' = [pc EXCEPT ![r] = stage]
    /\ req' = [req EXCEPT ![r] = q]

At(r, op, stage) == req[r].op = op /\ pc[r] = stage

\* The row lock of an uncommitted UPDATE.
Locked(t) ==
    \E r \in Requests : /\ req[r].op = "refresh" /\ req[r].old = t
                        /\ pc[r] \in {"revoked", "written"}

-----------------------------------------------------------------------------
(* Register. *)

Register(r, email, password) ==
    /\ pc[r] = "idle"
    /\ Become(r, "checked", [NoReq EXCEPT !.op = "register", !.password = password,
                                          !.email = NormalizeEmail[email]])
    /\ UNCHANGED <<tables, history>>

EmailTaken(email) == \E u \in Users : users[u] # None /\ users[u].email = email

\* The unique index entry of an uncommitted INSERT.
EmailHeld(email) ==
    \E r \in Requests : At(r, "register", "written") /\ req[r].email = email

FreshUser(u) == users[u] = None /\ \A r \in Requests : req[r].user # u

\* Mutation: the email is looked up before the INSERT, nothing is unique.
CreateUserUnguarded(r, u) ==
    /\ At(r, "register", "checked")
    /\ ~EmailTaken(req[r].email)
    /\ FreshUser(u)
    /\ Become(r, "written", [req[r] EXCEPT !.user = u])
    /\ UNCHANGED <<tables, history>>

\* INSERT INTO users, after the transaction that holds the email has ended.
CreateUser(r, u) ==
    /\ At(r, "register", "checked")
    /\ ~EmailHeld(req[r].email)
    /\ ~EmailTaken(req[r].email)
    /\ FreshUser(u)
    /\ Become(r, "written", [req[r] EXCEPT !.user = u])
    /\ UNCHANGED <<tables, history>>

\* The unique constraint on email: answered with 400.
CreateUserDuplicate(r) ==
    /\ At(r, "register", "checked")
    /\ EmailTaken(req[r].email)
    /\ Become(r, "refused", NoReq)
    /\ UNCHANGED <<tables, history>>

-----------------------------------------------------------------------------
(* Login. *)

\* LOWER(email) = LOWER($1): may match a row stored as it was typed.
Matches(u, email) ==
    users[u] # None /\ NormalizeEmail[users[u].email] = NormalizeEmail[email]

\* GetUserByEmail returns one of the rows that match, if any.
Authenticate(r, email, password) ==
    /\ pc[r] = "idle"
    /\ \E u \in Users :
          /\ Matches(u, email)
          /\ users[u].hash = password
          /\ Become(r, "checked", [NoReq EXCEPT !.op = "login", !.user = u,
                         !.email = NormalizeEmail[email], !.password = password])
    /\ UNCHANGED <<tables, history>>

\* ErrInvalidCredentials: no row, or not this row's password.
AuthenticateRefused(r, email, password) ==
    LET found == {u \in Users : Matches(u, email)}
    IN  /\ pc[r] = "idle"
        /\ found = {} \/ \E u \in found : users[u].hash # password
        /\ Become(r, "refused", NoReq)
        /\ UNCHANGED <<tables, history>>

-----------------------------------------------------------------------------
(* Refresh and logout. *)

\* Some request that used up t has been answered with success.
Spent(t) ==
    \E r \in Requests : /\ pc[r] = "ok" /\ req[r].old = t
                        /\ req[r].op \in {"refresh", "logout"}

\* Mutation: Refresh does not look at revoked.
UsableUnlessExpired(t) == t \notin expired

\* What Refresh checks on the row it read.
Usable(t) == ~tokens[t].revoked /\ t \notin expired

\* Mutation: the new token is not given the user of the old one.
LoadTokenNoUser(r, t) ==
    /\ pc[r] = "idle"
    /\ Usable(t)
    /\ Become(r, "checked", [NoReq EXCEPT !.op = "refresh", !.old = t, !.spent = Spent(t)])
    /\ UNCHANGED <<tables, history>>

\* Refresh up to its transaction: the reads of the token and of its user.
LoadToken(r, t) ==
    /\ pc[r] = "idle"
    /\ Usable(t)
    /\ Become(r, "checked", [NoReq EXCEPT !.op = "refresh", !.user = tokens[t].user,
                                          !.old = t, !.spent = Spent(t)])
    /\ UNCHANGED <<tables, history>>

\* ErrRefreshTokenInvalid.
RefreshRefused(r, t) ==
    /\ pc[r] = "idle"
    /\ ~Usable(t)
    /\ Become(r, "refused", NoReq)
    /\ UNCHANGED <<tables, history>>

\* Mutation: the old token is revoked outside the transaction.
RevokeAutocommit(r) ==
    /\ At(r, "refresh", "checked")
    /\ ~Locked(req[r].old)
    /\ tokens' = [tokens EXCEPT ![req[r].old].revoked = TRUE]
    /\ Become(r, "revoked", req[r])
    /\ UNCHANGED <<users, expired, updatedAt, history>>

\* UPDATE ... SET revoked = true WHERE id = $1, once nobody holds the row:
\* whether it was revoked meanwhile is not looked at.
Revoke(r) ==
    /\ At(r, "refresh", "checked")
    /\ ~Locked(req[r].old)
    /\ Become(r, "revoked", req[r])
    /\ UNCHANGED <<tables, history>>

Logout(r, t) ==
    /\ pc[r] = "idle"
    /\ Become(r, "checked", [NoReq EXCEPT !.op = "logout", !.old = t])
    /\ UNCHANGED <<tables, history>>

\* The effect of the same UPDATE without a transaction.
RevokeNow(r) ==
    /\ At(r, "logout", "checked")
    /\ ~Locked(req[r].old)
    /\ tokens' = [tokens EXCEPT ![req[r].old].revoked = TRUE]
    /\ loggedOut' = loggedOut \cup {req[r].old}
    /\ UNCHANGED <<users, expired, updatedAt, given, session>>

\* The id is in no row: the UPDATE finds none, answered like any other.
LogoutUnknown(r) ==
    /\ pc[r] = "idle"
    /\ Become(r, "ok", NoReq)
    /\ UNCHANGED <<tables, history>>

LogoutDone(r) == RevokeNow(r) /\ Become(r, "ok", req[r])

\* The UPDATE took effect, but its answer was lost.
LogoutUnacknowledged(r) == RevokeNow(r) /\ Become(r, "failed", NoReq)

-----------------------------------------------------------------------------
(* The INSERT of a token and the end of the transaction. *)

FreshToken(t) == tokens[t] = None /\ \A r \in Requests : req[r].new # t

AtInsert(r) == At(r, "login", "checked") \/ At(r, "refresh", "revoked")

\* Mutation: the INSERT is an upsert that takes a row of this user over.
CreateRefreshTokenUpsert(r, t) ==
    /\ AtInsert(r)
    /\ updatedAt = "nullable"
    /\ FreshToken(t) \/ (tokens[t] # None /\ tokens[t].user = req[r].user)
    /\ Become(r, "written", [req[r] EXCEPT !.new = t])
    /\ UNCHANGED <<tables, history>>

\* updated_at is always NULL: CreateRefreshTokenParams leaves it out.
CreateRefreshToken(r, t) ==
    /\ AtInsert(r)
    /\ updatedAt = "nullable"
    /\ FreshToken(t)
    /\ Become(r, "written", [req[r] EXCEPT !.new = t])
    /\ UNCHANGED <<tables, history>>

\* Mutation: the INSERT is tried again for as long as it fails.
CreateRefreshTokenRetried(r) ==
    /\ AtInsert(r)
    /\ updatedAt = "not null"
    /\ UNCHANGED vars

\* The NULL violates NOT NULL: rolled back, answered with 500.
CreateRefreshTokenViolation(r) ==
    /\ AtInsert(r)
    /\ updatedAt = "not null"
    /\ Become(r, "broken", req[r])
    /\ UNCHANGED <<tables, history>>

\* The effect of COMMIT.
MakeVisible(r) ==
    LET q == req[r]
    IN  /\ pc[r] = "written"
        /\ users' = [u \in Users |->
                       IF q.op = "register" /\ u = q.user
                       THEN [email |-> q.email, hash |-> q.password] ELSE users[u]]
        /\ tokens' = [t \in Tokens |->
                        IF t = q.new THEN [user |-> q.user, revoked |-> FALSE]
                        ELSE IF t = q.old THEN [tokens[t] EXCEPT !.revoked = TRUE]
                        ELSE tokens[t]]
        /\ session' = [t \in Tokens |->
                         IF t # q.new THEN session[t]
                         ELSE IF q.op = "login" THEN t ELSE session[q.old]]
        /\ UNCHANGED <<expired, updatedAt, loggedOut>>

\* The answer carries the new token, if there is one.
Commit(r) ==
    /\ MakeVisible(r)
    /\ Become(r, "ok", req[r])
    /\ given' = given \cup ({req[r].new} \ {None})

\* PostgreSQL committed, but the answer to COMMIT was lost.
CommitUnacknowledged(r) ==
    /\ MakeVisible(r)
    /\ Become(r, "failed", NoReq)
    /\ UNCHANGED given

\* Mutation: the error of a failed COMMIT is not returned.
FailIgnoringCommit(r) ==
    /\ pc[r] \notin Ended
    /\ IF pc[r] = "written" THEN Become(r, "ok", req[r]) ELSE Become(r, "failed", NoReq)
    /\ UNCHANGED <<tables, history>>

\* A bad request, a refresh with an unknown id or another secret, a failed
\* statement, a cancelled context, a failed COMMIT: what the transaction did is
\* rolled back.
Fail(r) ==
    /\ pc[r] \notin Ended
    /\ Become(r, "failed", NoReq)
    /\ UNCHANGED <<tables, history>>

\* The API process dies with all its requests.
Crash ==
    /\ \E r \in Requests : pc[r] \notin Ended \cup {"idle"}
    /\ pc' = [r \in Requests |-> IF pc[r] \in Ended \cup {"idle"} THEN pc[r] ELSE "failed"]
    /\ req' = [r \in Requests |-> IF pc[r] \in Ended \cup {"idle"} THEN req[r] ELSE NoReq]
    /\ UNCHANGED <<tables, history>>

\* RefreshTokenExpiry after it was made; a revoked token is of no use anyway.
Expire(t) ==
    /\ tokens[t] # None /\ ~tokens[t].revoked /\ t \notin expired
    /\ expired' = expired \cup {t}
    /\ UNCHANGED <<users, tokens, updatedAt, pc, req, history>>

-----------------------------------------------------------------------------
\* An account made by Register, or a row from before migration 0005.
Existing == {a \in User : a.hash # NoPassword => NormalizeEmail[a.email] = a.email}

Init ==
    /\ updatedAt \in Schemas
    /\ \E present \in SUBSET Accounts : \E accounts \in [present -> Existing] :
          /\ \A u, v \in present : accounts[u].email = accounts[v].email => u = v
          /\ users = [u \in Users |-> IF u \in present THEN accounts[u] ELSE None]
    /\ \E owner \in [Opened -> Accounts \cup {None}] :
          /\ given = {t \in Opened : owner[t] # None}
          /\ \A t \in given : /\ updatedAt = "nullable"
                              /\ users[owner[t]] # None
                              /\ users[owner[t]].hash # NoPassword
          /\ tokens = [t \in Tokens |-> IF t \in given
                         THEN [user |-> owner[t], revoked |-> FALSE] ELSE None]
    /\ expired = {}
    /\ loggedOut = {}
    /\ session = [t \in Tokens |-> IF t \in given THEN t ELSE None]
    /\ pc = [r \in Requests |-> "idle"]
    /\ req = [r \in Requests |-> NoReq]

\* A client sends a request, or does not.
Start(r) ==
    \/ \E email \in Emails, password \in Passwords :
          \/ Register(r, email, password)
          \/ Authenticate(r, email, password)
          \/ AuthenticateRefused(r, email, password)
    \/ \E t \in given : LoadToken(r, t) \/ RefreshRefused(r, t) \/ Logout(r, t)
    \/ LogoutUnknown(r)

\* A started request goes on.
Proceed(r) ==
    \/ \E u \in Users : CreateUser(r, u)
    \/ CreateUserDuplicate(r)
    \/ Revoke(r)
    \/ LogoutDone(r)
    \/ \E t \in Tokens : CreateRefreshToken(r, t)
    \/ CreateRefreshTokenViolation(r)
    \/ Commit(r)

Interrupt(r) == Fail(r) \/ CommitUnacknowledged(r) \/ LogoutUnacknowledged(r)

Next ==
    \/ Crash
    \/ \E t \in Tokens : Expire(t)
    \/ \E r \in Requests : Start(r) \/ Proceed(r) \/ Interrupt(r)

Spec == Init /\ [][Next]_vars

\* The Go scheduler and PostgreSQL run a started request to its end.
FairSpec == Spec /\ \A r \in Requests : WF_vars(Proceed(r))

-----------------------------------------------------------------------------
(* Properties. *)

TypeOK ==
    /\ users \in [Users -> User \cup {None}]
    /\ tokens \in [Tokens -> Token \cup {None}]
    /\ expired \subseteq Tokens
    /\ updatedAt \in Schemas
    /\ pc \in [Requests -> PcValues]
    /\ req \in [Requests -> Req]
    /\ given \subseteq Tokens
    /\ loggedOut \subseteq given
    /\ session \in [Tokens -> Tokens \cup {None}]

\* What an answer of success tells the client.
AnswerHolds(q) ==
    /\ q.op = "register" => users[q.user] = [email |-> q.email, hash |-> q.password]
    /\ q.op = "login" => Matches(q.user, q.email) /\ users[q.user].hash = q.password
    /\ q.op \in {"refresh", "logout"} => tokens[q.old].revoked
    /\ q.op = "refresh" => q.user = tokens[q.old].user
    /\ q.op \in {"login", "refresh"} => tokens[q.new] # None /\ tokens[q.new].user = q.user

(* A success answer is durable and means what it says: the account is there  *)
(* with its password; the token handed out is stored for the user whose      *)
(* password was checked, or who owned the token sent, which is revoked; a    *)
(* logged-out token is revoked (Register, Authenticate, Refresh, Revoke:     *)
(* the answer follows RunInTx).                                              *)
AnswersHold == \A r \in Requests : pc[r] = "ok" => AnswerHolds(req[r])

(* Registrations that race for one email: one wins, whatever fails between   *)
(* the INSERT and the COMMIT of the other (users.email UNIQUE; Register      *)
(* never looks the email up).                                                *)
EmailIsUnique ==
    \A u, v \in Users :
        users[u] # None /\ users[v] # None /\ users[u].email = users[v].email => u = v

(* A session nobody logged out of keeps a token that is not revoked, however *)
(* many refreshes race, fail half way, lose their answer or die: the old     *)
(* token is revoked only together with its successor (Refresh: Revoke and    *)
(* Create in one RunInTx).                                                   *)
SessionLives ==
    \A s \in Tokens :
        LET Members == {t \in Tokens : session[t] = s}
        IN  Members # {} /\ Members \cap loggedOut = {}
                => \E t \in Members : ~tokens[t].revoked

(* "Old refresh token should be invalid after rotation" and "Revoked token   *)
(* cannot be used to refresh" (auth_tx_test.go): a refresh that comes in     *)
(* after a refresh or logout with the same token was answered never gets as  *)
(* far as its transaction. Requests in flight at the same time may both      *)
(* rotate a token: Revoke does not look at revoked again.                    *)
SpentIsRefused == \A r \in Requests : req[r].spent => pc[r] \notin {"revoked", "written", "ok"}

\* Rows stay; only revoked may change in one, and only to TRUE.
RowsStay ==
    /\ \A u \in Users : users[u] # None => users'[u] = users[u]
    /\ \A t \in Tokens : tokens[t] # None =>
          /\ tokens'[t] # None /\ tokens'[t].user = tokens[t].user
          /\ tokens[t].revoked => tokens'[t].revoked
    /\ given \subseteq given'

(* Revoking is for good and a row keeps its owner: no step, of however many  *)
(* requests that insert and update at once, makes a revoked token usable     *)
(* again or hands a row to another user (Revoke and Create of                *)
(* refreshTokenRepository, Create of userRepository).                        *)
RevokedForGood == [][RowsStay]_vars

(* Every started request ends: a transaction waits for at most one other,    *)
(* for the row of a token or for an email (RunInTx).                         *)
RequestsEnd == \A r \in Requests : pc[r] # "idle" ~> pc[r] \in Ended

(* "Login ... require.NoError" (auth_tx_test.go): a login with the right     *)
(* password does not fail by itself.                                         *)
LoginWorks == \A r \in Requests : pc[r] = "broken" => req[r].op # "login"

-----------------------------------------------------------------------------
(* The inductive invariant: what a request in flight may rely on. *)

RegisterInv(r) ==
    LET q == req[r]
    IN  q.op = "register" =>
          /\ q.email \in Emails /\ q.password \in Passwords
          /\ q.old = None /\ q.new = None
          /\ pc[r] \in {"checked", "written", "ok"}
          /\ pc[r] # "checked" => q.user \in Users
          /\ pc[r] = "written" => users[q.user] = None /\ ~EmailTaken(q.email)

\* Nothing changes or deletes a row of users.
LoginInv(r) ==
    LET q == req[r]
    IN  q.op = "login" =>
          /\ q.user \in Users /\ q.email \in Emails /\ q.old = None
          /\ Matches(q.user, q.email) /\ users[q.user].hash = q.password
          /\ pc[r] \in {"checked", "written", "ok", "broken"}

\* Nothing but revoked changes in a row of refresh_tokens.
RefreshInv(r) ==
    LET q == req[r]
    IN  /\ q.op = "refresh" =>
             /\ q.old \in given /\ q.user = tokens[q.old].user
             /\ pc[r] \in {"checked", "revoked", "written", "ok", "broken"}
        /\ q.op = "logout" =>
             q.old \in given /\ q.new = None /\ pc[r] \in {"checked", "ok"}

\* The token a request makes is nobody's until COMMIT.
NewInv(r) ==
    LET q == req[r]
    IN  /\ q.op \in {"login", "refresh"} /\ pc[r] \in {"written", "ok"} => q.new \in Tokens
        /\ q.new # None /\ pc[r] = "written" => tokens[q.new] = None
        /\ q.op = None => pc[r] \in {"idle", "refused", "failed", "ok"}
        /\ ~q.spent

\* What two open transactions wrote does not meet.
Apart(r, s) ==
    pc[r] = "written" /\ pc[s] = "written" =>
        /\ req[r].new # None => req[r].new # req[s].new
        /\ req[r].op = "register" /\ req[s].op = "register" =>
              req[r].user # req[s].user /\ req[r].email # req[s].email

\* A token belongs to a session from its COMMIT on, and is handed out after it.
TokensInv ==
    /\ \A t \in Tokens : tokens[t] = None <=> session[t] = None
    /\ \A t \in given : tokens[t] # None

(* The inductive invariant of the proofs. Of what a request read outside its *)
(* transaction, this still holds when it writes: the account of a login and  *)
(* its password, and the owner of the token of a refresh, though not that    *)
(* the token is unrevoked, which a racing request may have changed. What it  *)
(* wrote is no other's (Register, Authenticate, Refresh, Revoke).            *)
Inv ==
    /\ AnswersHold /\ EmailIsUnique /\ SessionLives /\ TokensInv
    /\ \A r \in Requests : RegisterInv(r) /\ LoginInv(r) /\ RefreshInv(r) /\ NewInv(r)
    /\ \A r, s \in Requests : r # s => Apart(r, s)
=============================================================================
