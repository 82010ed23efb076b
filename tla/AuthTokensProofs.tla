-------------------------- MODULE AuthTokensProofs --------------------------
(***************************************************************************)
(* Proofs about module AuthTokens, for any number of requests, users and   *)
(* tokens: its type invariant, and that answers hold, emails are unique,   *)
(* sessions live and spent tokens are refused.                             *)
(***************************************************************************)
EXTENDS AuthTokens, TLAPS

(* The row CreateUser inserts is one. *)
LEMMA UserRow ==
  ASSUME NEW e \in Emails, NEW p \in Passwords
  PROVE  /\ [email |-> e, hash |-> p] \in User
         /\ [email |-> e, hash |-> p] # None
  <1>1. [email |-> e, hash |-> p] \in User
    BY DEF User
  <1> QED
    BY <1>1, AuthAssumption

(* The row CreateRefreshToken inserts is not revoked. *)
LEMMA NewRow ==
  ASSUME NEW t, NEW u \in Users, t = [user |-> u, revoked |-> FALSE]
  PROVE  t \in Token /\ t # None /\ t.user = u /\ ~t.revoked
  <1>1. t \in Token /\ t.user = u
    BY DEF Token
  <1>2. ~t.revoked
    OBVIOUS
  <1> QED
    BY <1>1, <1>2, AuthAssumption

(* The invariant holds at first: accounts with distinct emails, no request, *)
(* every token handed out the first of its own session.                     *)
LEMMA InitInv == Init => TypeOK /\ Inv
  <1> SUFFICES ASSUME Init PROVE TypeOK /\ Inv
    OBVIOUS
  <1> USE AuthAssumption
  <1>1. PICK present \in SUBSET Accounts : \E accounts \in [present -> Existing] :
          /\ \A u, v \in present : accounts[u].email = accounts[v].email => u = v
          /\ users = [u \in Users |-> IF u \in present THEN accounts[u] ELSE None]
    BY DEF Init
  <1>2. PICK accounts \in [present -> Existing] :
          /\ \A u, v \in present : accounts[u].email = accounts[v].email => u = v
          /\ users = [u \in Users |-> IF u \in present THEN accounts[u] ELSE None]
    BY <1>1
  <1>3. PICK owner \in [Opened -> Accounts \cup {None}] :
          /\ given = {t \in Opened : owner[t] # None}
          /\ tokens = [t \in Tokens |-> IF t \in given
                         THEN [user |-> owner[t], revoked |-> FALSE] ELSE None]
    BY DEF Init
  <1>4. \A u \in present : accounts[u] \in User /\ accounts[u] # None
    BY <1>2 DEF Existing
  <1>5. \A t \in given : /\ t \in Tokens /\ owner[t] \in Users
                         /\ tokens[t] = [user |-> owner[t], revoked |-> FALSE]
                         /\ tokens[t] \in Token
    BY <1>3 DEF Token
  <1>6. \A t \in Tokens \ given : tokens[t] = None
    BY <1>3
  <1>7. \A t \in given : tokens[t] # None /\ ~tokens[t].revoked
    <2>1. \A t \in given : tokens[t] # None
      BY <1>5
    <2>2. ASSUME NEW t \in given PROVE ~tokens[t].revoked
      <3>1. tokens[t] = [user |-> owner[t], revoked |-> FALSE]
        BY <1>5
      <3> QED
        BY <3>1, <1>5, NewRow, Zenon
    <2> QED
      BY <2>1, <2>2
  <1>8. NoReq \in Req
    BY DEF NoReq, Req
  <1>9. TypeOK
    <2>1. users \in [Users -> User \cup {None}]
      BY <1>2, <1>4
    <2>2. tokens \in [Tokens -> Token \cup {None}]
      BY <1>3, <1>5
    <2> QED
      BY <2>1, <2>2, <1>5, <1>8 DEF Init, TypeOK, PcValues, Ended
  <1>10. \A t \in Tokens : session[t] = IF t \in given THEN t ELSE None
    BY DEF Init
  <1>11. TokensInv
    BY <1>5, <1>6, <1>7, <1>10 DEF TokensInv
  <1>12. SessionLives
    <2>1. \A s, t \in Tokens : session[t] = s => t = s /\ t \in given
      BY <1>10
    <2>2. SUFFICES ASSUME NEW s \in Tokens, {t \in Tokens : session[t] = s} # {}
                   PROVE  \E t \in {t \in Tokens : session[t] = s} : ~tokens[t].revoked
      BY Zenon DEF SessionLives
    <2>3. PICK t \in Tokens : session[t] = s
      BY <2>2
    <2> QED
      BY <2>1, <2>3, <1>7
  <1>13. EmailIsUnique
    BY <1>2 DEF EmailIsUnique
  <1>14. \A r \in Requests : pc[r] = "idle" /\ req[r] = NoReq
    BY DEF Init
  <1>15. \A r \in Requests : /\ RegisterInv(r) /\ LoginInv(r) /\ RefreshInv(r)
                             /\ NewInv(r) /\ \A s \in Requests : Apart(r, s)
    <2>1. NoReq.op = None /\ NoReq.op \notin Ops /\ NoReq.new = None /\ ~NoReq.spent
      BY DEF NoReq
    <2> QED
      BY <1>14, <2>1 DEF RegisterInv, LoginInv, RefreshInv, NewInv, Apart, Ops
  <1> QED
    BY <1>9, <1>11, <1>12, <1>13, <1>14, <1>15 DEF Inv, AnswersHold
-----------------------------------------------------------------------------
(* The step of one request, seen from the others. *)

(* What a request knows of rows that are there stays true. *)
LEMMA OthersKnow ==
  ASSUME TypeOK, Inv, RowsStay, NEW s \in Requests,
         pc'[s] \in {pc[s], "ok"}, req'[s] = req[s]
  PROVE  /\ LoginInv(s)' /\ RefreshInv(s)'
         /\ pc[s] = "ok" => AnswerHolds(req[s])'
  <1> USE AuthAssumption
  <1>0. LoginInv(s) /\ RefreshInv(s) /\ RegisterInv(s) /\ TokensInv /\ NewInv(s)
    BY DEF Inv
  <1>1. LoginInv(s)'
    <2> SUFFICES ASSUME req[s].op = "login" PROVE LoginInv(s)'
      BY DEF LoginInv
    <2>1. req[s].user \in Users /\ users[req[s].user] # None
      BY <1>0 DEF LoginInv, Matches
    <2>2. users'[req[s].user] = users[req[s].user]
      BY <2>1 DEF RowsStay
    <2> QED
      BY <1>0, <2>2 DEF LoginInv, Matches
  <1>2. RefreshInv(s)'
    <2>1. given \subseteq given'
      BY DEF RowsStay
    <2>2. \A t \in given : tokens'[t].user = tokens[t].user
      BY <1>0 DEF TokensInv, RowsStay, TypeOK
    <2> QED
      BY <1>0, <2>1, <2>2 DEF RefreshInv
  <1>3. ASSUME pc[s] = "ok" PROVE AnswerHolds(req[s])'
    <2>1. AnswerHolds(req[s])
      BY <1>3 DEF Inv, AnswersHold
    <2>2. req[s].op = "register" => users'[req[s].user] = users[req[s].user]
      <3> SUFFICES ASSUME req[s].op = "register"
                   PROVE  users'[req[s].user] = users[req[s].user]
        OBVIOUS
      <3>1. /\ req[s].user \in Users /\ req[s].email \in Emails
            /\ req[s].password \in Passwords
        BY <1>0, <1>3 DEF RegisterInv
      <3>2. users[req[s].user] = [email |-> req[s].email, hash |-> req[s].password]
        BY <2>1 DEF AnswerHolds
      <3>3. [email |-> req[s].email, hash |-> req[s].password] # None
        BY <3>1, UserRow, Zenon
      <3>4. users[req[s].user] # None
        BY <3>2, <3>3, Zenon
      <3> QED
        BY <3>1, <3>4 DEF RowsStay
    <2>3. req[s].op = "login" => Matches(req[s].user, req[s].email)'
                                   /\ users'[req[s].user] = users[req[s].user]
      <3>1. req[s].op = "login" => req[s].user \in Users /\ users[req[s].user] # None
        BY <1>0 DEF LoginInv, Matches
      <3>2. req[s].op = "login" => users'[req[s].user] = users[req[s].user]
        BY <3>1 DEF RowsStay
      <3> QED
        BY <1>0, <3>2 DEF LoginInv, Matches
    <2>4. req[s].op \in {"refresh", "logout"} =>
            /\ tokens'[req[s].old].user = tokens[req[s].old].user
            /\ tokens[req[s].old].revoked => tokens'[req[s].old].revoked
      BY <1>0 DEF RefreshInv, TokensInv, RowsStay, TypeOK
    <2>5. req[s].op \in {"login", "refresh"} =>
            tokens'[req[s].new] # None /\ tokens'[req[s].new].user = tokens[req[s].new].user
      BY <1>0, <1>3, <2>1 DEF NewInv, AnswerHolds, RowsStay
    <2> QED
      BY <2>1, <2>2, <2>3, <2>4, <2>5 DEF AnswerHolds
  <1> QED
    BY <1>1, <1>2, <1>3

(* A step of one request keeps the invariant when rows stay, the tables keep *)
(* theirs, and what it wrote is apart from what the others wrote.            *)
LEMMA Frame ==
  ASSUME TypeOK, Inv, RowsStay, NEW r \in Requests, NEW stage, NEW q,
         Become(r, stage, q),
         TokensInv', SessionLives', EmailIsUnique',
         RegisterInv(r)', LoginInv(r)', RefreshInv(r)', NewInv(r)',
         pc'[r] = "ok" => AnswerHolds(req[r])',
         \A s \in Requests \ {r} : RegisterInv(s)' /\ NewInv(s)',
         \A s \in Requests \ {r} : Apart(r, s)' /\ Apart(s, r)'
  PROVE  Inv'
  <1>2. \A s \in Requests \ {r} : pc'[s] = pc[s] /\ req'[s] = req[s]
    BY DEF Become, TypeOK
  <1>3. AnswersHold'
    <2> SUFFICES ASSUME NEW s \in Requests, pc'[s] = "ok" PROVE AnswerHolds(req[s])'
      BY DEF AnswersHold
    <2>1. CASE s = r
      BY <2>1
    <2>2. CASE s # r
      BY <2>2, <1>2, OthersKnow
    <2> QED
      BY <2>1, <2>2
  <1>4. \A s \in Requests : /\ RegisterInv(s)' /\ LoginInv(s)'
                            /\ RefreshInv(s)' /\ NewInv(s)'
    BY <1>2, OthersKnow
  <1>5. \A s, t \in Requests : s # t => Apart(s, t)'
    <2> SUFFICES ASSUME NEW s \in Requests, NEW t \in Requests, s # t PROVE Apart(s, t)'
      OBVIOUS
    <2>1. CASE s = r \/ t = r
      BY <2>1
    <2>2. CASE s # r /\ t # r
      BY <2>2, <1>2 DEF Inv, Apart
    <2> QED
      BY <2>1, <2>2
  <1> QED
    BY <1>3, <1>4, <1>5 DEF Inv
-----------------------------------------------------------------------------
(* Steps that leave the tables alone. *)

(* A request that moves on keeps the invariant when it keeps its own part. *)
LEMMA LocalStep ==
  ASSUME TypeOK, Inv, NEW r \in Requests, NEW stage \in PcValues, NEW q \in Req,
         stage # "ok" \/ q.op = None,
         Become(r, stage, q), UNCHANGED <<tables, history>>,
         RegisterInv(r)', LoginInv(r)', RefreshInv(r)', NewInv(r)',
         \A s \in Requests \ {r} : Apart(r, s)' /\ Apart(s, r)'
  PROVE  TypeOK' /\ Inv' /\ RowsStay
  <1>1. UNCHANGED <<users, tokens, expired, updatedAt, given, loggedOut, session>>
    BY DEF tables, history
  <1>2. TypeOK'
    BY <1>1 DEF TypeOK, Become
  <1>3. RowsStay
    BY <1>1 DEF RowsStay
  <1>4. TokensInv' /\ SessionLives' /\ EmailIsUnique'
    BY <1>1 DEF Inv, TokensInv, SessionLives, EmailIsUnique
  <1>5. \A s \in Requests \ {r} : RegisterInv(s)' /\ NewInv(s)'
    <2>1. \A s \in Requests \ {r} : pc'[s] = pc[s] /\ req'[s] = req[s]
      BY DEF Become, TypeOK
    <2> QED
      BY <1>1, <2>1 DEF Inv, RegisterInv, NewInv, EmailTaken
  <1>6. pc'[r] = "ok" => AnswerHolds(req[r])'
    <2>1. pc'[r] = stage /\ req'[r] = q
      BY DEF Become, TypeOK
    <2> QED
      BY <2>1, AuthAssumption DEF AnswerHolds, Ops
  <1> QED
    BY <1>2, <1>3, <1>4, <1>5, <1>6, Frame

(* A request that is turned down or fails keeps nothing, and neither does a  *)
(* logout that finds no row.                                                 *)
LEMMA QuietStep ==
  ASSUME TypeOK, Inv, NEW r \in Requests, NEW stage \in {"refused", "failed", "ok"},
         Become(r, stage, NoReq), UNCHANGED <<tables, history>>
  PROVE  TypeOK' /\ Inv' /\ RowsStay
  <1>1. /\ NoReq \in Req /\ NoReq.op = None /\ NoReq.op \notin Ops
        /\ NoReq.new = None /\ ~NoReq.spent
    BY AuthAssumption DEF NoReq, Req
  <1>2. pc'[r] = stage /\ req'[r] = NoReq
    BY DEF Become, TypeOK
  <1>3. /\ RegisterInv(r)' /\ LoginInv(r)' /\ RefreshInv(r)' /\ NewInv(r)'
        /\ \A s \in Requests : Apart(r, s)' /\ Apart(s, r)'
    BY <1>1, <1>2 DEF RegisterInv, LoginInv, RefreshInv, NewInv, Apart, Ops
  <1>4. stage \in PcValues
    BY DEF PcValues, Ended
  <1> QED
    BY <1>1, <1>3, <1>4, LocalStep

(* The steps that start a request keep the invariant. A token a client sends *)
(* is spent only if it is revoked, and then LoadToken does not load it.      *)
LEMMA StartStep ==
  ASSUME TypeOK, Inv, NEW r \in Requests, Start(r)
  PROVE  TypeOK' /\ Inv' /\ RowsStay
  <1> USE AuthAssumption
  <1>a. "checked" \in PcValues \ {"ok"}
    BY DEF PcValues
  <1>b. ASSUME NEW q \in Req, Become(r, "checked", q)
        PROVE  /\ pc'[r] = "checked" /\ req'[r] = q
               /\ \A s \in Requests : Apart(r, s)' /\ Apart(s, r)'
    BY <1>b DEF Become, TypeOK, Apart
  <1>1. ASSUME NEW email \in Emails, NEW password \in Passwords, Register(r, email, password)
        PROVE  TypeOK' /\ Inv' /\ RowsStay
    <2> DEFINE q == [NoReq EXCEPT !.op = "register", !.password = password,
                                  !.email = NormalizeEmail[email]]
    <2>1. /\ q \in Req /\ q.op = "register" /\ q.password = password
          /\ q.email = NormalizeEmail[email] /\ q.old = None /\ q.new = None /\ ~q.spent
      BY DEF NoReq, Req, Ops
    <2>2. Become(r, "checked", q) /\ UNCHANGED <<tables, history>>
      BY <1>1 DEF Register
    <2> HIDE DEF q
    <2>3. pc'[r] = "checked" /\ req'[r] = q
      BY <2>1, <2>2, <1>b
    <2>4. RegisterInv(r)'
      BY <2>1, <2>3 DEF RegisterInv
    <2>5. LoginInv(r)' /\ RefreshInv(r)'
      BY <2>1, <2>3 DEF LoginInv, RefreshInv
    <2>6. NewInv(r)'
      BY <2>1, <2>3 DEF NewInv, Ops
    <2> QED
      BY <2>1, <2>2, <2>4, <2>5, <2>6, <1>a, <1>b, LocalStep
  <1>2. ASSUME NEW email \in Emails, NEW password \in Passwords, Authenticate(r, email, password)
        PROVE  TypeOK' /\ Inv' /\ RowsStay
    <2>0. PICK u \in Users :
            /\ Matches(u, email) /\ users[u].hash = password
            /\ Become(r, "checked", [NoReq EXCEPT !.op = "login", !.user = u,
                         !.email = NormalizeEmail[email], !.password = password])
      BY <1>2 DEF Authenticate
    <2> DEFINE q == [NoReq EXCEPT !.op = "login", !.user = u,
                         !.email = NormalizeEmail[email], !.password = password]
    <2>1. /\ q \in Req /\ q.op = "login" /\ q.password = password /\ q.user = u
          /\ q.email = NormalizeEmail[email] /\ q.old = None /\ q.new = None /\ ~q.spent
      BY DEF NoReq, Req, Ops
    <2>2. Become(r, "checked", q) /\ UNCHANGED <<tables, history>>
      BY <1>2, <2>0 DEF Authenticate
    <2> HIDE DEF q
    <2>3. Matches(q.user, q.email) /\ users[q.user].hash = q.password
      BY <2>0, <2>1 DEF Matches
    <2>4. users' = users
      BY <2>2 DEF tables
    <2>5. pc'[r] = "checked" /\ req'[r] = q
      BY <2>1, <2>2, <1>b
    <2>6. RegisterInv(r)' /\ RefreshInv(r)'
      BY <2>1, <2>5 DEF RegisterInv, RefreshInv
    <2>7. LoginInv(r)'
      BY <2>1, <2>3, <2>4, <2>5 DEF LoginInv, Matches
    <2>8. NewInv(r)'
      BY <2>1, <2>5 DEF NewInv, Ops
    <2> QED
      BY <2>1, <2>2, <2>6, <2>7, <2>8, <1>a, <1>b, LocalStep
  <1>3. ASSUME NEW email \in Emails, NEW password \in Passwords,
               AuthenticateRefused(r, email, password)
        PROVE  TypeOK' /\ Inv' /\ RowsStay
    BY <1>3, QuietStep DEF AuthenticateRefused
  <1>4. ASSUME NEW t \in given, LoadToken(r, t) PROVE TypeOK' /\ Inv' /\ RowsStay
    <2>0. t \in Tokens /\ tokens[t] \in Token /\ tokens[t].user \in Users
      BY DEF TypeOK, Inv, TokensInv, Token
    <2>1. ~Spent(t)
      <3> SUFFICES ASSUME NEW s \in Requests, pc[s] = "ok", req[s].old = t,
                          req[s].op \in {"refresh", "logout"}
                   PROVE  tokens[t].revoked
        BY <1>4 DEF Spent, LoadToken, Usable
      <3> QED
        BY DEF Inv, AnswersHold, AnswerHolds
    <2> DEFINE q == [NoReq EXCEPT !.op = "refresh", !.user = tokens[t].user,
                                  !.old = t, !.spent = Spent(t)]
    <2>2. /\ q \in Req /\ q.op = "refresh" /\ q.user = tokens[t].user
          /\ q.old = t /\ q.new = None
      <3>1. Spent(t) \in BOOLEAN
        BY DEF Spent
      <3> QED
        BY <2>0, <3>1 DEF NoReq, Req, Ops
    <2>3. ~q.spent
      BY <2>1 DEF NoReq
    <2>4. Become(r, "checked", q) /\ UNCHANGED <<tables, history>>
      BY <1>4 DEF LoadToken
    <2> HIDE DEF q
    <2>5. tokens' = tokens /\ given' = given
      BY <2>4 DEF tables, history
    <2>6. pc'[r] = "checked" /\ req'[r] = q
      BY <2>2, <2>4, <1>b
    <2>7. RegisterInv(r)' /\ LoginInv(r)' /\ RefreshInv(r)'
      BY <2>2, <2>5, <2>6 DEF RegisterInv, LoginInv, RefreshInv
    <2>8. NewInv(r)'
      BY <2>2, <2>3, <2>6 DEF NewInv, Ops
    <2> QED
      BY <2>2, <2>4, <2>7, <2>8, <1>a, <1>b, LocalStep
  <1>5. ASSUME NEW t \in given, RefreshRefused(r, t) PROVE TypeOK' /\ Inv' /\ RowsStay
    BY <1>5, QuietStep DEF RefreshRefused
  <1>6. ASSUME NEW t \in given, Logout(r, t) PROVE TypeOK' /\ Inv' /\ RowsStay
    <2> DEFINE q == [NoReq EXCEPT !.op = "logout", !.old = t]
    <2>1. /\ q \in Req /\ q.op = "logout" /\ q.old = t /\ q.new = None /\ ~q.spent
      BY DEF NoReq, Req, Ops, TypeOK
    <2>2. Become(r, "checked", q) /\ UNCHANGED <<tables, history>>
      BY <1>6 DEF Logout
    <2> HIDE DEF q
    <2>3. given' = given
      BY <2>2 DEF history
    <2>4. RegisterInv(r)' /\ LoginInv(r)' /\ RefreshInv(r)' /\ NewInv(r)'
      BY <2>1, <2>2, <2>3, <1>b DEF RegisterInv, LoginInv, RefreshInv, NewInv, Ops
    <2> QED
      BY <2>1, <2>2, <2>4, <1>a, <1>b, LocalStep
  <1>7. CASE LogoutUnknown(r)
    BY <1>7, QuietStep DEF LogoutUnknown
  <1> QED
    BY <1>1, <1>2, <1>3, <1>4, <1>5, <1>6, <1>7 DEF Start

(* The INSERT of a user waits for the email and takes a row nobody has. *)
LEMMA CreateUserStep ==
  ASSUME TypeOK, Inv, NEW r \in Requests, NEW u \in Users, CreateUser(r, u)
  PROVE  TypeOK' /\ Inv' /\ RowsStay
  <1> DEFINE q == [req[r] EXCEPT !.user = u]
  <1>1. /\ req[r] \in Req /\ req[r].op = "register" /\ pc[r] = "checked"
        /\ RegisterInv(r) /\ NewInv(r)
    BY DEF TypeOK, Inv, CreateUser, At
  <1>2. /\ q \in Req /\ q.op = "register" /\ q.email = req[r].email /\ q.user = u
        /\ q.password = req[r].password /\ q.old = None /\ q.new = None
    BY <1>1 DEF Req, RegisterInv
  <1>3. ~q.spent
    BY <1>1 DEF Req, NewInv
  <1>4. Become(r, "written", q) /\ UNCHANGED <<tables, history>>
    BY DEF CreateUser
  <1> HIDE DEF q
  <1>5. pc'[r] = "written" /\ req'[r] = q /\ users' = users
    BY <1>4 DEF Become, TypeOK, tables
  <1>6. \A s \in Requests \ {r} : pc'[s] = pc[s] /\ req'[s] = req[s]
    BY <1>4 DEF Become, TypeOK
  <1>7. RegisterInv(r)'
    <2>1. users[u] = None /\ ~EmailTaken(req[r].email)
      BY DEF CreateUser, FreshUser
    <2>2. q.email \in Emails /\ q.password \in Passwords
      BY <1>1, <1>2 DEF RegisterInv
    <2> QED
      BY <2>1, <2>2, <1>2, <1>5 DEF RegisterInv, EmailTaken
  <1>8. LoginInv(r)' /\ RefreshInv(r)'
    BY <1>2, <1>5 DEF LoginInv, RefreshInv
  <1>9. NewInv(r)'
    BY <1>2, <1>3, <1>5, AuthAssumption DEF NewInv, Ops
  <1>10. ASSUME NEW s \in Requests \ {r} PROVE Apart(r, s)' /\ Apart(s, r)'
    <2>1. req[s].user # u
      BY DEF CreateUser, FreshUser
    <2>2. req[s].op = "register" /\ pc[s] = "written" => req[s].email # q.email
      BY <1>2 DEF CreateUser, EmailHeld, At
    <2> QED
      BY <2>1, <2>2, <1>2, <1>5, <1>6 DEF Apart
  <1>11. "written" \in PcValues \ {"ok"}
    BY DEF PcValues
  <1> QED
    BY <1>2, <1>4, <1>7, <1>8, <1>9, <1>10, <1>11, LocalStep

(* The UPDATE that revokes changes nothing until COMMIT, and the INSERT that *)
(* a NOT NULL column refuses changes nothing at all.                         *)
LEMMA RevokeStep ==
  ASSUME TypeOK, Inv, NEW r \in Requests, Revoke(r) \/ CreateRefreshTokenViolation(r)
  PROVE  TypeOK' /\ Inv' /\ RowsStay
  <1>1. PICK stage \in {"revoked", "broken"} :
          Become(r, stage, req[r]) /\ UNCHANGED <<tables, history>>
    BY DEF Revoke, CreateRefreshTokenViolation
  <1>2. /\ req[r].op = "refresh" \/ (req[r].op = "login" /\ stage = "broken")
        /\ req[r] \in Req
    <2>1. CASE Revoke(r)
      BY <2>1 DEF Revoke, At, TypeOK
    <2>2. CASE CreateRefreshTokenViolation(r)
      <3>1. pc'[r] = "broken" /\ pc'[r] = stage
        BY <1>1, <2>2 DEF CreateRefreshTokenViolation, Become, TypeOK
      <3> QED
        BY <2>2, <3>1 DEF CreateRefreshTokenViolation, AtInsert, At, TypeOK
    <2> QED
      BY <2>1, <2>2
  <1>3. /\ pc'[r] = stage /\ req'[r] = req[r]
        /\ users' = users /\ tokens' = tokens /\ given' = given
    BY <1>1 DEF Become, TypeOK, tables, history
  <1>4. RegisterInv(r)'
    BY <1>2, <1>3 DEF RegisterInv
  <1>5. LoginInv(r)'
    BY <1>2, <1>3 DEF Inv, LoginInv, Matches
  <1>6. RefreshInv(r)'
    BY <1>2, <1>3 DEF Inv, RefreshInv
  <1>7. NewInv(r)'
    <2>1. NewInv(r) /\ req[r].op # None
      BY <1>2, AuthAssumption DEF Inv, Ops
    <2> QED
      BY <2>1, <1>3 DEF NewInv
  <1>8. \A s \in Requests : Apart(r, s)' /\ Apart(s, r)'
    BY <1>3 DEF Apart
  <1>9. stage \in PcValues \ {"ok"}
    BY DEF PcValues, Ended
  <1> QED
    BY <1>1, <1>2, <1>4, <1>5, <1>6, <1>7, <1>8, <1>9, LocalStep

(* The INSERT of a token takes a row nobody has. *)
LEMMA CreateTokenStep ==
  ASSUME TypeOK, Inv, NEW r \in Requests, NEW t \in Tokens, CreateRefreshToken(r, t)
  PROVE  TypeOK' /\ Inv' /\ RowsStay
  <1> DEFINE q == [req[r] EXCEPT !.new = t]
  <1>1. req[r] \in Req /\ req[r].op \in {"login", "refresh"}
    BY DEF TypeOK, CreateRefreshToken, AtInsert, At
  <1>2. /\ q \in Req /\ q.op = req[r].op /\ q.email = req[r].email /\ q.user = req[r].user
        /\ q.password = req[r].password /\ q.old = req[r].old /\ q.new = t
    BY <1>1 DEF Req
  <1>3. ~q.spent
    <2>1. ~req[r].spent
      BY DEF Inv, NewInv
    <2> QED
      BY <2>1, <1>1 DEF Req
  <1>4. Become(r, "written", q) /\ UNCHANGED <<tables, history>>
    BY DEF CreateRefreshToken
  <1> HIDE DEF q
  <1>5. /\ pc'[r] = "written" /\ req'[r] = q
        /\ users' = users /\ tokens' = tokens /\ given' = given
    BY <1>4 DEF Become, TypeOK, tables, history
  <1>6. \A s \in Requests \ {r} : pc'[s] = pc[s] /\ req'[s] = req[s]
    BY <1>4 DEF Become, TypeOK
  <1>7. tokens[t] = None /\ \A s \in Requests : req[s].new # t
    BY DEF CreateRefreshToken, FreshToken
  <1>8. RegisterInv(r)'
    BY <1>1, <1>2, <1>5 DEF RegisterInv
  <1>9. LoginInv(r)'
    BY <1>1, <1>2, <1>5 DEF Inv, LoginInv, Matches
  <1>10. RefreshInv(r)'
    BY <1>1, <1>2, <1>5 DEF Inv, RefreshInv
  <1>11. NewInv(r)'
    BY <1>1, <1>2, <1>3, <1>5, <1>7, AuthAssumption DEF NewInv, Ops
  <1>12. ASSUME NEW s \in Requests \ {r} PROVE Apart(r, s)' /\ Apart(s, r)'
    BY <1>1, <1>2, <1>5, <1>6, <1>7 DEF Apart
  <1>13. "written" \in PcValues \ {"ok"}
    BY DEF PcValues
  <1> QED
    BY <1>2, <1>4, <1>8, <1>9, <1>10, <1>11, <1>12, <1>13, LocalStep

(* A process that dies takes its requests along and leaves the tables. *)
LEMMA CrashStep ==
  ASSUME TypeOK, Inv, Crash
  PROVE  TypeOK' /\ Inv' /\ RowsStay
  <1>1. UNCHANGED <<users, tokens, expired, updatedAt, given, loggedOut, session>>
    BY DEF Crash, tables, history
  <1>2. /\ NoReq \in Req /\ NoReq.op = None /\ NoReq.op \notin Ops
        /\ NoReq.new = None /\ ~NoReq.spent
    BY AuthAssumption DEF NoReq, Req
  <1>3. ASSUME NEW s \in Requests
        PROVE  \/ pc'[s] = pc[s] /\ req'[s] = req[s]
               \/ pc'[s] = "failed" /\ req'[s] = NoReq
    BY DEF Crash
  <1>4. RowsStay
    BY <1>1 DEF RowsStay
  <1>5. TypeOK'
    <2>1. pc' \in [Requests -> PcValues] /\ req' \in [Requests -> Req]
      BY <1>2 DEF TypeOK, Crash, PcValues, Ended
    <2> QED
      BY <1>1, <2>1 DEF TypeOK
  <1>6. TokensInv' /\ SessionLives' /\ EmailIsUnique'
    BY <1>1 DEF Inv, TokensInv, SessionLives, EmailIsUnique
  <1>7. ASSUME NEW s \in Requests
        PROVE  /\ RegisterInv(s)' /\ LoginInv(s)' /\ RefreshInv(s)' /\ NewInv(s)'
               /\ pc'[s] = "ok" => AnswerHolds(req[s])'
    <2>1. CASE pc'[s] = pc[s] /\ req'[s] = req[s]
      <3>1. RegisterInv(s)'
        BY <1>1, <2>1 DEF Inv, RegisterInv, EmailTaken
      <3>2. NewInv(s)'
        BY <1>1, <2>1 DEF Inv, NewInv
      <3> QED
        BY <3>1, <3>2, <2>1, <1>4, OthersKnow
    <2>2. CASE pc'[s] = "failed" /\ req'[s] = NoReq
      BY <2>2, <1>2 DEF RegisterInv, LoginInv, RefreshInv, NewInv, Ops
    <2> QED
      BY <2>1, <2>2, <1>3
  <1>8. \A s, t \in Requests : s # t => Apart(s, t)'
    BY <1>3 DEF Inv, Apart
  <1> QED
    BY <1>4, <1>5, <1>6, <1>7, <1>8 DEF Inv, AnswersHold

(* That a token expires changes no row. *)
LEMMA ExpireStep ==
  ASSUME TypeOK, Inv, NEW t \in Tokens, Expire(t)
  PROVE  TypeOK' /\ Inv' /\ RowsStay
  <1>1. UNCHANGED <<users, tokens, updatedAt, pc, req, given, loggedOut, session>>
        /\ expired' = expired \cup {t}
    BY DEF Expire, history
  <1>2. TypeOK'
    BY <1>1 DEF TypeOK
  <1>3. RowsStay
    BY <1>1 DEF RowsStay
  <1>4. TokensInv' /\ SessionLives' /\ EmailIsUnique'
    BY <1>1 DEF Inv, TokensInv, SessionLives, EmailIsUnique
  <1>5. ASSUME NEW s \in Requests
        PROVE  /\ RegisterInv(s)' /\ LoginInv(s)' /\ RefreshInv(s)' /\ NewInv(s)'
               /\ pc'[s] = "ok" => AnswerHolds(req[s])'
    <2>1. RegisterInv(s)'
      BY <1>1 DEF Inv, RegisterInv, EmailTaken
    <2>2. NewInv(s)'
      BY <1>1 DEF Inv, NewInv
    <2> QED
      BY <2>1, <2>2, <1>1, <1>3, OthersKnow
  <1>6. \A r, s \in Requests : r # s => Apart(r, s)'
    BY <1>1 DEF Inv, Apart
  <1> QED
    BY <1>2, <1>3, <1>4, <1>5, <1>6 DEF Inv, AnswersHold

-----------------------------------------------------------------------------
(* Steps that change rows. *)

(* UPDATE ... SET revoked = true leaves the owner of the row alone. *)
LEMMA RevokedRow ==
  ASSUME NEW row \in Token
  PROVE  LET new == [row EXCEPT !.revoked = TRUE]
         IN  new \in Token /\ new # None /\ new.user = row.user /\ new.revoked
  <1> DEFINE new == [row EXCEPT !.revoked = TRUE]
  <1>1. new \in Token /\ new.user = row.user
    BY DEF Token
  <1>2. new.revoked
    BY DEF Token
  <1> QED
    BY <1>1, <1>2, AuthAssumption

(* A logout revokes a token that is there, and the session with it. *)
LEMMA RevokeNowEffect ==
  ASSUME TypeOK, Inv, NEW r \in Requests, RevokeNow(r)
  PROVE  /\ req[r].op = "logout" /\ req[r].old \in given
         /\ tokens'[req[r].old].revoked
         /\ tokens' \in [Tokens -> Token \cup {None}] /\ loggedOut' \subseteq given'
         /\ RowsStay /\ TokensInv' /\ SessionLives' /\ EmailIsUnique'
         /\ \A t \in Tokens : tokens[t] = None => tokens'[t] = None
  <1> DEFINE o == req[r].old
  <1>1. /\ req[r].op = "logout" /\ o \in given /\ o \in Tokens
        /\ tokens[o] \in Token
    BY DEF RevokeNow, At, Inv, RefreshInv, TokensInv, TypeOK
  <1>2. /\ tokens' = [tokens EXCEPT ![o].revoked = TRUE]
        /\ loggedOut' = loggedOut \cup {o}
        /\ UNCHANGED <<users, given, session>>
    BY DEF RevokeNow
  <1> HIDE DEF o
  <1>3. tokens'[o] = [tokens[o] EXCEPT !.revoked = TRUE]
    BY <1>1, <1>2 DEF TypeOK
  <1>4. \A t \in Tokens \ {o} : tokens'[t] = tokens[t]
    BY <1>1, <1>2 DEF TypeOK
  <1>5. /\ tokens'[o] \in Token /\ tokens'[o] # None /\ tokens'[o].user = tokens[o].user
        /\ tokens'[o].revoked
    BY <1>1, <1>3, RevokedRow
  <1>6. tokens' \in [Tokens -> Token \cup {None}]
    <2>1. tokens' = [t \in Tokens |-> tokens'[t]]
      BY <1>2 DEF TypeOK
    <2>2. \A t \in Tokens : tokens'[t] \in Token \cup {None}
      BY <1>4, <1>5 DEF TypeOK
    <2> QED
      BY <2>1, <2>2
  <1>7. RowsStay
    BY <1>2, <1>4, <1>5 DEF RowsStay
  <1>8. tokens[o] # None
    BY <1>1, AuthAssumption
  <1>9. TokensInv'
    BY <1>1, <1>2, <1>4, <1>5, <1>8 DEF Inv, TokensInv, TypeOK
  <1>10. SessionLives'
    <2> SUFFICES ASSUME NEW s \in Tokens,
                        {t \in Tokens : session[t] = s} # {},
                        {t \in Tokens : session[t] = s} \cap loggedOut' = {}
                 PROVE  \E t \in {t \in Tokens : session[t] = s} : ~tokens'[t].revoked
      BY <1>2 DEF SessionLives
    <2>1. {t \in Tokens : session[t] = s} \cap loggedOut = {} /\ session[o] # s
      BY <1>1, <1>2
    <2>2. PICK t \in {t \in Tokens : session[t] = s} : ~tokens[t].revoked
      BY <2>1 DEF Inv, SessionLives
    <2> QED
      BY <2>1, <2>2, <1>4
  <1>11. EmailIsUnique'
    BY <1>2 DEF Inv, EmailIsUnique
  <1>12. loggedOut' \subseteq given'
    BY <1>1, <1>2 DEF TypeOK
  <1> QED
    BY <1>1, <1>4, <1>5, <1>6, <1>7, <1>8, <1>9, <1>10, <1>11, <1>12 DEF o

(* A request that wrote and now ends, its answer sent or lost, keeps the *)
(* invariant when the tables do and the answer holds.                    *)
LEMMA EndStep ==
  ASSUME TypeOK, Inv, RowsStay, NEW r \in Requests,
         pc[r] = "written" \/ req[r].op = "logout",
         Become(r, "ok", req[r]) \/ Become(r, "failed", NoReq),
         pc'[r] = "ok" => AnswerHolds(req[r])',
         TokensInv', SessionLives', EmailIsUnique',
         \A s \in Requests \ {r} : RegisterInv(s)' /\ NewInv(s)'
  PROVE  Inv' /\ pc' \in [Requests -> PcValues] /\ req' \in [Requests -> Req]
  <1>1. /\ NoReq \in Req /\ NoReq.op = None /\ NoReq.op \notin Ops
        /\ NoReq.new = None /\ ~NoReq.spent
    BY AuthAssumption DEF NoReq, Req
  <1>2. pc' \in [Requests -> PcValues] /\ req' \in [Requests -> Req]
    BY <1>1 DEF Become, TypeOK, PcValues, Ended
  <1>3. \/ pc'[r] = "ok" /\ req'[r] = req[r]
        \/ pc'[r] = "failed" /\ req'[r] = NoReq
    BY DEF Become, TypeOK
  <1>4. \A s \in Requests : Apart(r, s)' /\ Apart(s, r)'
    BY <1>3 DEF Apart
  <1>5. RegisterInv(r)' /\ LoginInv(r)' /\ RefreshInv(r)' /\ NewInv(r)'
    <2>1. CASE pc'[r] = "ok" /\ req'[r] = req[r]
      <3>1. RegisterInv(r)'
        BY <2>1 DEF Inv, RegisterInv
      <3>2. LoginInv(r)' /\ RefreshInv(r)'
        BY <2>1, OthersKnow
      <3>3. NewInv(r)'
        <4>1. NewInv(r) /\ req[r].op # None
          BY AuthAssumption DEF Inv, NewInv, Ops
        <4> QED
          BY <2>1, <4>1 DEF NewInv
      <3> QED
        BY <3>1, <3>2, <3>3
    <2>2. CASE pc'[r] = "failed" /\ req'[r] = NoReq
      BY <2>2, <1>1 DEF RegisterInv, LoginInv, RefreshInv, NewInv, Ops
    <2> QED
      BY <2>1, <2>2, <1>3
  <1>6. Inv'
    <2>1. CASE Become(r, "ok", req[r])
      BY <2>1, <1>4, <1>5, Frame
    <2>2. CASE Become(r, "failed", NoReq)
      BY <2>2, <1>4, <1>5, Frame
    <2> QED
      BY <2>1, <2>2
  <1> QED
    BY <1>2, <1>6

(* A logout keeps the invariant, whether its answer is lost or not. *)
LEMMA LogoutStep ==
  ASSUME TypeOK, Inv, NEW r \in Requests, LogoutDone(r) \/ LogoutUnacknowledged(r)
  PROVE  TypeOK' /\ Inv' /\ RowsStay
  <1>1. RevokeNow(r) /\ (Become(r, "ok", req[r]) \/ Become(r, "failed", NoReq))
    BY DEF LogoutDone, LogoutUnacknowledged
  <1>2. /\ req[r].op = "logout" /\ req[r].old \in given
        /\ tokens'[req[r].old].revoked
        /\ tokens' \in [Tokens -> Token \cup {None}] /\ loggedOut' \subseteq given'
        /\ RowsStay /\ TokensInv' /\ SessionLives' /\ EmailIsUnique'
        /\ \A t \in Tokens : tokens[t] = None => tokens'[t] = None
    BY <1>1, RevokeNowEffect
  <1>3. UNCHANGED <<users, expired, updatedAt, given, session>>
    BY <1>1 DEF RevokeNow
  <1>4. pc'[r] = "ok" => AnswerHolds(req[r])'
    <2>1. pc'[r] = "ok" => req'[r] = req[r]
      BY <1>1 DEF Become, TypeOK
    <2> QED
      BY <1>2, <2>1 DEF AnswerHolds
  <1>5. ASSUME NEW s \in Requests \ {r} PROVE RegisterInv(s)' /\ NewInv(s)'
    <2>1. pc'[s] = pc[s] /\ req'[s] = req[s] /\ req[s].new \in Tokens \cup {None}
      BY <1>1 DEF Become, TypeOK, Req
    <2>2. RegisterInv(s)'
      BY <2>1, <1>3 DEF Inv, RegisterInv, EmailTaken
    <2>3. NewInv(s)'
      BY <2>1, <1>2 DEF Inv, NewInv
    <2> QED
      BY <2>2, <2>3
  <1>6. Inv' /\ pc' \in [Requests -> PcValues] /\ req' \in [Requests -> Req]
    BY <1>1, <1>2, <1>4, <1>5, EndStep
  <1>7. TypeOK'
    BY <1>2, <1>3, <1>6 DEF TypeOK
  <1> QED
    BY <1>2, <1>6, <1>7

(* What COMMIT makes visible of a registration. *)
LEMMA RegisterVisible ==
  ASSUME TypeOK, Inv, NEW r \in Requests, MakeVisible(r), req[r].op = "register"
  PROVE  /\ req[r].user \in Users /\ users[req[r].user] = None
         /\ users'[req[r].user] = [email |-> req[r].email, hash |-> req[r].password]
         /\ \A u \in Users \ {req[r].user} : users'[u] = users[u]
         /\ users' \in [Users -> User \cup {None}]
         /\ tokens' = tokens /\ session' = session /\ req[r].new = None
  <1> DEFINE q == req[r]
  <1>1. /\ q.user \in Users /\ users[q.user] = None /\ q.old = None /\ q.new = None
        /\ q.email \in Emails /\ q.password \in Passwords
    BY DEF MakeVisible, Inv, RegisterInv
  <1>2. users' = [u \in Users |-> IF q.op = "register" /\ u = q.user
                       THEN [email |-> q.email, hash |-> q.password] ELSE users[u]]
    BY DEF MakeVisible
  <1>3. /\ users'[q.user] = [email |-> q.email, hash |-> q.password]
        /\ \A u \in Users \ {q.user} : users'[u] = users[u]
    BY <1>1, <1>2
  <1>4. users' \in [Users -> User \cup {None}]
    <2>1. [email |-> q.email, hash |-> q.password] \in User
      BY <1>1, UserRow, Zenon
    <2> QED
      BY <1>2, <2>1 DEF TypeOK
  <1>5. \A t \in Tokens : t # q.new /\ t # q.old
    BY <1>1, AuthAssumption
  <1>6. tokens' = tokens
    BY <1>5 DEF MakeVisible, TypeOK
  <1>7. session' = session
    BY <1>5 DEF MakeVisible, TypeOK
  <1> QED
    BY <1>1, <1>3, <1>4, <1>6, <1>7

(* What COMMIT makes visible of a login or a refresh. *)
LEMMA TokenVisible ==
  ASSUME TypeOK, Inv, NEW r \in Requests, MakeVisible(r), req[r].op # "register"
  PROVE  LET q == req[r]
         IN  /\ q.op \in {"login", "refresh"} /\ users' = users
             /\ q.new \in Tokens /\ tokens[q.new] = None /\ q.user \in Users
             /\ tokens'[q.new] = [user |-> q.user, revoked |-> FALSE]
             /\ q.op = "login" => q.old = None /\ session'[q.new] = q.new
             /\ q.op = "refresh" =>
                  /\ q.old \in given \ {q.new} /\ q.old \in Tokens
                  /\ q.user = tokens[q.old].user /\ tokens[q.old] \in Token
                  /\ tokens'[q.old] = [tokens[q.old] EXCEPT !.revoked = TRUE]
                  /\ session'[q.new] = session[q.old]
             /\ \A t \in Tokens \ {q.new, q.old} : tokens'[t] = tokens[t]
             /\ \A t \in Tokens \ {q.new} : session'[t] = session[t]
             /\ tokens' = [t \in Tokens |-> tokens'[t]]
             /\ session' = [t \in Tokens |-> session'[t]]
  <1> DEFINE q == req[r]
  <1> USE AuthAssumption
  <1>1. pc[r] = "written" /\ q \in Req
    BY DEF MakeVisible, TypeOK
  <1>2. q.op \in {"login", "refresh"}
    BY <1>1 DEF Inv, RefreshInv, NewInv, Req, Ops
  <1>3. q.new \in Tokens /\ tokens[q.new] = None
    BY <1>1, <1>2 DEF Inv, NewInv
  <1>4. users' = users
    BY DEF MakeVisible, TypeOK
  <1>5. q.op = "login" => q.old = None /\ q.user \in Users
    BY DEF Inv, LoginInv
  <1>6. q.op = "refresh" => q.old \in given /\ q.old \in Tokens /\ q.user = tokens[q.old].user
    BY DEF Inv, RefreshInv, TypeOK
  <1>7. q.op = "refresh" => tokens[q.old] # None /\ tokens[q.old] \in Token
    BY <1>6 DEF Inv, TokensInv, TypeOK
  <1>8. q.op = "refresh" => q.old # q.new /\ q.user \in Users
    BY <1>3, <1>6, <1>7 DEF Token
  <1>9. tokens' = [t \in Tokens |->
                        IF t = q.new THEN [user |-> q.user, revoked |-> FALSE]
                        ELSE IF t = q.old THEN [tokens[t] EXCEPT !.revoked = TRUE]
                        ELSE tokens[t]]
    BY DEF MakeVisible
  <1>10. session' = [t \in Tokens |->
                         IF t # q.new THEN session[t]
                         ELSE IF q.op = "login" THEN t ELSE session[q.old]]
    BY DEF MakeVisible
  <1> HIDE DEF q
  <1>11. /\ tokens'[q.new] = [user |-> q.user, revoked |-> FALSE]
         /\ \A t \in Tokens \ {q.new, q.old} : tokens'[t] = tokens[t]
    BY <1>3, <1>9
  <1>12. q.op = "refresh" => tokens'[q.old] = [tokens[q.old] EXCEPT !.revoked = TRUE]
    BY <1>6, <1>8, <1>9
  <1>13. /\ \A t \in Tokens \ {q.new} : session'[t] = session[t]
         /\ session'[q.new] = IF q.op = "login" THEN q.new ELSE session[q.old]
    BY <1>3, <1>10
  <1>14. /\ tokens' = [t \in Tokens |-> tokens'[t]]
         /\ session' = [t \in Tokens |-> session'[t]]
    BY <1>9, <1>10
  <1> QED
    BY <1>2, <1>3, <1>4, <1>5, <1>6, <1>7, <1>8, <1>11, <1>12, <1>13, <1>14 DEF q

(* A registration that commits keeps the invariant: its email was taken by *)
(* no row, and no other open transaction holds it.                         *)
LEMMA RegisterCommits ==
  ASSUME TypeOK, Inv, NEW r \in Requests, Commit(r) \/ CommitUnacknowledged(r),
         req[r].op = "register"
  PROVE  TypeOK' /\ Inv' /\ RowsStay
  <1> DEFINE u == req[r].user
  <1>1. /\ MakeVisible(r) /\ pc[r] = "written"
        /\ Become(r, "ok", req[r]) \/ Become(r, "failed", NoReq)
        /\ given' = given \cup ({req[r].new} \ {None}) \/ given' = given
    BY DEF Commit, CommitUnacknowledged, MakeVisible
  <1>2. /\ u \in Users /\ users[u] = None
        /\ users'[u] = [email |-> req[r].email, hash |-> req[r].password]
        /\ \A v \in Users \ {u} : users'[v] = users[v]
        /\ users' \in [Users -> User \cup {None}]
        /\ tokens' = tokens /\ session' = session /\ req[r].new = None
    BY <1>1, RegisterVisible
  <1>3. UNCHANGED <<tokens, session, given, loggedOut, expired, updatedAt>>
    BY <1>1, <1>2 DEF MakeVisible
  <1>4. \A s \in Requests \ {r} : pc'[s] = pc[s] /\ req'[s] = req[s]
    BY <1>1 DEF Become, TypeOK
  <1>5. \A v \in Users : users[v] # None => users[v].email # req[r].email
    BY <1>1 DEF Inv, RegisterInv, EmailTaken
  <1>6. users'[u].email = req[r].email
    BY <1>2
  <1>7. pc'[r] = "ok" => AnswerHolds(req[r])'
    <2>1. pc'[r] = "ok" => req'[r] = req[r]
      BY <1>1 DEF Become, TypeOK
    <2> QED
      BY <1>2, <2>1 DEF AnswerHolds
  <1> HIDE DEF u
  <1>8. RowsStay
    BY <1>2, <1>3 DEF RowsStay
  <1>9. TokensInv' /\ SessionLives'
    BY <1>3 DEF Inv, TokensInv, SessionLives
  <1>10. EmailIsUnique'
    <2> SUFFICES ASSUME NEW v \in Users, NEW w \in Users, users'[v] # None, users'[w] # None,
                        users'[v].email = users'[w].email
                 PROVE  v = w
      BY DEF EmailIsUnique
    <2>1. CASE v # u /\ w # u
      BY <2>1, <1>2 DEF Inv, EmailIsUnique
    <2>2. CASE v = u \/ w = u
      BY <2>2, <1>2, <1>5, <1>6
    <2> QED
      BY <2>1, <2>2
  <1>11. ASSUME NEW s \in Requests \ {r} PROVE RegisterInv(s)' /\ NewInv(s)'
    <2>1. NewInv(s)'
      BY <1>3, <1>4 DEF Inv, NewInv
    <2>2. RegisterInv(s)'
      <3>1. CASE req[s].op = "register" /\ pc[s] = "written"
        <4>1. req[s].user # u /\ req[s].email # req[r].email /\ RegisterInv(s)
          BY <3>1, <1>1 DEF Inv, Apart, u
        <4>2. \A v \in Users : users'[v] # None => users'[v].email # req[s].email
          BY <3>1, <4>1, <1>2, <1>6 DEF RegisterInv, EmailTaken
        <4> QED
          BY <3>1, <4>1, <4>2, <1>2, <1>4 DEF RegisterInv, EmailTaken
      <3>2. CASE ~(req[s].op = "register" /\ pc[s] = "written")
        BY <3>2, <1>4 DEF Inv, RegisterInv
      <3> QED
        BY <3>1, <3>2
    <2> QED
      BY <2>1, <2>2
  <1>12. Inv' /\ pc' \in [Requests -> PcValues] /\ req' \in [Requests -> Req]
    BY <1>1, <1>7, <1>8, <1>9, <1>10, <1>11, EndStep
  <1>13. TypeOK'
    BY <1>2, <1>3, <1>12 DEF TypeOK
  <1> QED
    BY <1>8, <1>12, <1>13

(* A login or a refresh that commits keeps the invariant: the token revoked *)
(* and its successor are of one session.                                    *)
LEMMA TokenCommits ==
  ASSUME TypeOK, Inv, NEW r \in Requests, Commit(r) \/ CommitUnacknowledged(r),
         req[r].op # "register"
  PROVE  TypeOK' /\ Inv' /\ RowsStay
  <1> USE AuthAssumption
  <1> DEFINE q == req[r]
             n == req[r].new
             o == req[r].old
  <1>1. /\ MakeVisible(r) /\ pc[r] = "written"
        /\ Become(r, "ok", q) \/ Become(r, "failed", NoReq)
        /\ given' = given \cup ({n} \ {None}) \/ given' = given
    BY DEF Commit, CommitUnacknowledged, MakeVisible
  <1>2. /\ q.op \in {"login", "refresh"} /\ users' = users
        /\ n \in Tokens /\ tokens[n] = None /\ q.user \in Users
    BY <1>1, TokenVisible
  <1>a. tokens'[n] = [user |-> q.user, revoked |-> FALSE]
    BY <1>1, TokenVisible
  <1>b. /\ \A t \in Tokens \ {n, o} : tokens'[t] = tokens[t]
        /\ \A t \in Tokens \ {n} : session'[t] = session[t]
    BY <1>1, TokenVisible
  <1>c. /\ tokens' = [t \in Tokens |-> tokens'[t]]
        /\ session' = [t \in Tokens |-> session'[t]]
    BY <1>1, TokenVisible
  <1>3. q.op = "login" => o = None /\ session'[n] = n
    BY <1>1, TokenVisible
  <1>4. q.op = "refresh" =>
                  /\ o \in given \ {n} /\ o \in Tokens
                  /\ q.user = tokens[o].user /\ tokens[o] \in Token
                  /\ tokens'[o] = [tokens[o] EXCEPT !.revoked = TRUE]
                  /\ session'[n] = session[o]
    BY <1>1, TokenVisible
  <1>5. UNCHANGED <<users, loggedOut, expired, updatedAt>>
    BY <1>1, <1>2 DEF MakeVisible
  <1>6. \A s \in Requests \ {r} : pc'[s] = pc[s] /\ req'[s] = req[s]
    BY <1>1 DEF Become, TypeOK
  <1>7. tokens'[n] \in Token /\ tokens'[n] # None /\ tokens'[n].user = q.user
    BY <1>2, <1>a, NewRow, Zenon
  <1>8. ~tokens'[n].revoked
    BY <1>2, <1>a, NewRow, Zenon
  <1>9. q.op = "refresh" => /\ tokens'[o] \in Token /\ tokens'[o] # None
                            /\ tokens'[o].user = tokens[o].user /\ tokens'[o].revoked
    BY <1>4, RevokedRow
  <1>10. pc'[r] = "ok" => AnswerHolds(req[r])'
    <2> SUFFICES ASSUME pc'[r] = "ok" PROVE AnswerHolds(req[r])'
      OBVIOUS
    <2>1. req'[r] = q
      BY <1>1 DEF Become, TypeOK
    <2>2. q.op = "login" => Matches(q.user, q.email) /\ users[q.user].hash = q.password
      BY DEF Inv, LoginInv
    <2> QED
      BY <2>1, <2>2, <1>2, <1>4, <1>5, <1>7, <1>9 DEF AnswerHolds, Matches
  <1>11. \A s \in Requests \ {r} : pc[s] = "written" => req[s].new # n
    BY <1>1, <1>2 DEF Inv, Apart
  <1> HIDE DEF q, n, o
  <1>12. RowsStay
    <2> SUFFICES ASSUME NEW t \in Tokens, tokens[t] # None
                 PROVE  /\ tokens'[t] # None /\ tokens'[t].user = tokens[t].user
                        /\ tokens[t].revoked => tokens'[t].revoked
      BY <1>1, <1>5 DEF RowsStay
    <2>1. t # n
      BY <1>2
    <2>2. CASE t = o
      <3>1. q.op = "refresh"
        BY <2>2, <1>2, <1>3
      <3> QED
        BY <2>2, <3>1, <1>9
    <2>3. CASE t # o
      <3>1. tokens'[t] = tokens[t]
        BY <2>1, <2>3, <1>b
      <3> QED
        BY <3>1
    <2> QED
      BY <2>2, <2>3
  <1>13. session'[n] \in Tokens
    BY <1>2, <1>3, <1>4 DEF Inv, TokensInv, TypeOK
  <1>14. TokensInv'
    <2>1. \A t \in Tokens \ {n} : tokens'[t] = None <=> tokens[t] = None
      <3> SUFFICES ASSUME NEW t \in Tokens \ {n}
                   PROVE  tokens'[t] = None <=> tokens[t] = None
        OBVIOUS
      <3>1. CASE t = o
        <4>1. q.op = "refresh"
          BY <3>1, <1>2, <1>3
        <4> QED
          BY <3>1, <4>1, <1>4, <1>9
      <3>2. CASE t # o
        BY <3>2, <1>b
      <3> QED
        BY <3>1, <3>2
    <2>2. \A t \in Tokens : tokens'[t] = None <=> session'[t] = None
      <3>1. \A t \in Tokens \ {n} : tokens'[t] = None <=> session'[t] = None
        BY <2>1, <1>b DEF Inv, TokensInv
      <3>2. tokens'[n] # None /\ session'[n] # None
        BY <1>7, <1>13
      <3> QED
        BY <3>1, <3>2
    <2>3. \A t \in given' : tokens'[t] # None
      <3>1. \A t \in given : tokens'[t] # None
        BY <1>12 DEF Inv, TokensInv, RowsStay, TypeOK
      <3> QED
        BY <3>1, <1>1, <1>7
    <2> QED
      BY <2>2, <2>3 DEF TokensInv
  <1>15. SessionLives'
    <2> SUFFICES ASSUME NEW s \in Tokens,
                        {t \in Tokens : session'[t] = s} # {},
                        {t \in Tokens : session'[t] = s} \cap loggedOut = {}
                 PROVE  \E t \in {t \in Tokens : session'[t] = s} : ~tokens'[t].revoked
      BY <1>5 DEF SessionLives
    <2>1. CASE session'[n] = s
      BY <2>1, <1>2, <1>8
    <2>2. CASE session'[n] # s
      <3>1. session[n] = None
        BY <1>2 DEF Inv, TokensInv
      <3>2. \A t \in Tokens : session'[t] = s <=> session[t] = s
        BY <3>1, <2>2, <1>b
      <3>3. {t \in Tokens : session'[t] = s} = {t \in Tokens : session[t] = s}
        BY <3>2
      <3> DEFINE Members == {t \in Tokens : session[t] = s}
      <3>a. Members # {} /\ Members \cap loggedOut = {}
        BY <3>3
      <3>b. SessionLives
        BY DEF Inv
      <3>4. PICK t \in Members : ~tokens[t].revoked
        BY <3>a, <3>b DEF SessionLives
      <3>5. t # n /\ t # o
        BY <3>1, <3>4, <2>2, <1>2, <1>3, <1>4
      <3>6. tokens'[t] = tokens[t]
        BY <3>4, <3>5, <1>b
      <3>7. ~tokens'[t].revoked
        BY <3>4, <3>6, Zenon
      <3> QED
        BY <3>3, <3>4, <3>7
    <2> QED
      BY <2>1, <2>2
  <1>16. EmailIsUnique'
    BY <1>5 DEF Inv, EmailIsUnique
  <1>17. ASSUME NEW s \in Requests \ {r} PROVE RegisterInv(s)' /\ NewInv(s)'
    <2>1. RegisterInv(s)'
      <3>1. RegisterInv(s) /\ pc'[s] = pc[s] /\ req'[s] = req[s] /\ users' = users
        BY <1>5, <1>6 DEF Inv
      <3> QED
        BY <3>1 DEF RegisterInv, EmailTaken
    <2>2. NewInv(s)'
      <3>1. req[s].new \in Tokens \cup {None} /\ NewInv(s)
        BY DEF TypeOK, Req, Inv
      <3>2. \A t \in Tokens \ {n} : tokens[t] = None => tokens'[t] = None
        <4> SUFFICES ASSUME NEW t \in Tokens \ {n}, tokens[t] = None PROVE tokens'[t] = None
          OBVIOUS
        <4>1. t # o
          BY <1>2, <1>3, <1>4
        <4> QED
          BY <4>1, <1>b
      <3>3. pc'[s] = pc[s] /\ req'[s] = req[s]
        BY <1>6
      <3>4. req[s].new # None /\ pc[s] = "written" => tokens'[req[s].new] = None
        <4> HAVE req[s].new # None /\ pc[s] = "written"
        <4>1. req[s].new \in Tokens \ {n} /\ tokens[req[s].new] = None
          BY <3>1, <1>11 DEF NewInv
        <4> QED
          BY <4>1, <3>2
      <3> QED
        BY <3>1, <3>3, <3>4 DEF NewInv
    <2> QED
      BY <2>1, <2>2
  <1>18. Inv' /\ pc' \in [Requests -> PcValues] /\ req' \in [Requests -> Req]
    BY <1>1, <1>10, <1>12, <1>14, <1>15, <1>16, <1>17, EndStep DEF q
  <1>19. TypeOK'
    <2>1. tokens' \in [Tokens -> Token \cup {None}]
      <3>1. \A t \in Tokens : tokens'[t] \in Token \cup {None}
        <4> SUFFICES ASSUME NEW t \in Tokens PROVE tokens'[t] \in Token \cup {None}
          OBVIOUS
        <4>1. CASE t = n
          BY <4>1, <1>7
        <4>2. CASE t = o /\ t # n
          <5>1. q.op = "refresh"
            BY <4>2, <1>2, <1>3
          <5> QED
            BY <4>2, <5>1, <1>9
        <4>3. CASE t # o /\ t # n
          BY <4>3, <1>b DEF TypeOK
        <4> QED
          BY <4>1, <4>2, <4>3
      <3> QED
        BY <3>1, <1>c
    <2>2. session' \in [Tokens -> Tokens \cup {None}]
      <3>1. \A t \in Tokens : session'[t] \in Tokens \cup {None}
        <4>1. \A t \in Tokens \ {n} : session'[t] \in Tokens \cup {None}
          BY <1>b DEF TypeOK
        <4> QED
          BY <4>1, <1>13
      <3> QED
        BY <3>1, <1>c
    <2>3. given' \subseteq Tokens /\ loggedOut' \subseteq given'
      BY <1>1, <1>2, <1>5 DEF TypeOK
    <2> QED
      BY <2>1, <2>2, <2>3, <1>5, <1>18 DEF TypeOK
  <1> QED
    BY <1>12, <1>18, <1>19

-----------------------------------------------------------------------------
(* The theorems. *)

(* Every step keeps the types and the invariant, and leaves the rows there. *)
LEMMA NextStep ==
  ASSUME TypeOK, Inv, [Next]_vars
  PROVE  TypeOK' /\ Inv' /\ (Next => RowsStay)
  <1>1. CASE UNCHANGED vars
    <2>1. UNCHANGED <<users, tokens, expired, updatedAt, pc, req, given, loggedOut, session>>
      BY <1>1 DEF vars, tables, history
    <2>2. TypeOK'
      BY <2>1 DEF TypeOK
    <2>3. RowsStay
      BY <2>1 DEF RowsStay
    <2>4. TokensInv' /\ SessionLives' /\ EmailIsUnique'
      BY <2>1 DEF Inv, TokensInv, SessionLives, EmailIsUnique
    <2>5. ASSUME NEW s \in Requests
          PROVE  /\ RegisterInv(s)' /\ LoginInv(s)' /\ RefreshInv(s)' /\ NewInv(s)'
                 /\ pc'[s] = "ok" => AnswerHolds(req[s])'
      <3>1. RegisterInv(s)'
        BY <2>1 DEF Inv, RegisterInv, EmailTaken
      <3>2. NewInv(s)'
        BY <2>1 DEF Inv, NewInv
      <3> QED
        BY <3>1, <3>2, <2>1, <2>3, OthersKnow
    <2>6. \A r, s \in Requests : r # s => Apart(r, s)'
      BY <2>1 DEF Inv, Apart
    <2> QED
      BY <2>2, <2>3, <2>4, <2>5, <2>6 DEF Inv, AnswersHold
  <1>2. CASE Crash
    BY <1>2, CrashStep
  <1>3. ASSUME NEW t \in Tokens, Expire(t) PROVE TypeOK' /\ Inv' /\ RowsStay
    BY <1>3, ExpireStep
  <1>4. ASSUME NEW r \in Requests, Start(r) PROVE TypeOK' /\ Inv' /\ RowsStay
    BY <1>4, StartStep
  <1>5. ASSUME NEW r \in Requests, Commit(r) \/ CommitUnacknowledged(r)
        PROVE  TypeOK' /\ Inv' /\ RowsStay
    BY <1>5, RegisterCommits, TokenCommits
  <1>6. ASSUME NEW r \in Requests, Proceed(r) PROVE TypeOK' /\ Inv' /\ RowsStay
    <2>1. CASE CreateUserDuplicate(r)
      BY <2>1, QuietStep DEF CreateUserDuplicate
    <2>2. CASE Revoke(r) \/ CreateRefreshTokenViolation(r)
      BY <2>2, RevokeStep
    <2>3. CASE LogoutDone(r)
      BY <2>3, LogoutStep
    <2>4. CASE Commit(r)
      BY <2>4, <1>5
    <2> QED
      BY <1>6, <2>1, <2>2, <2>3, <2>4, CreateUserStep, CreateTokenStep DEF Proceed
  <1>7. ASSUME NEW r \in Requests, Interrupt(r) PROVE TypeOK' /\ Inv' /\ RowsStay
    <2>1. CASE Fail(r)
      BY <2>1, QuietStep DEF Fail
    <2>2. CASE CommitUnacknowledged(r)
      BY <2>2, <1>5
    <2>3. CASE LogoutUnacknowledged(r)
      BY <2>3, LogoutStep
    <2> QED
      BY <1>7, <2>1, <2>2, <2>3 DEF Interrupt
  <1> QED
    BY <1>1, <1>2, <1>3, <1>4, <1>6, <1>7 DEF Next

(* The inductive invariant: what a request read before its transaction still *)
(* holds when the transaction writes, and what two transactions wrote does   *)
(* not meet (Register, Authenticate, Refresh and Revoke of the auth service).*)
THEOREM InvHolds == Spec => [](TypeOK /\ Inv)
  <1>1. Init => TypeOK /\ Inv
    BY InitInv
  <1>2. TypeOK /\ Inv /\ [Next]_vars => TypeOK' /\ Inv'
    BY NextStep
  <1> QED
    BY <1>1, <1>2, PTL DEF Spec

(* Rows and locals keep their types. *)
THEOREM TypeCorrect == Spec => []TypeOK
  BY InvHolds, PTL

(* An answer of success stays true: the account, the token handed out, the  *)
(* token revoked.                                                           *)
THEOREM AnswersStayTrue == Spec => []AnswersHold
  <1>1. Inv => AnswersHold
    BY DEF Inv
  <1> QED
    BY <1>1, InvHolds, PTL

(* However many registrations race for an email, one account has it. *)
THEOREM EmailsStayUnique == Spec => []EmailIsUnique
  <1>1. Inv => EmailIsUnique
    BY DEF Inv
  <1> QED
    BY <1>1, InvHolds, PTL

(* A session that nobody logged out of keeps a token that is not revoked, *)
(* through racing, failed and unacknowledged refreshes.                   *)
THEOREM SessionsLive == Spec => []SessionLives
  <1>1. Inv => SessionLives
    BY DEF Inv
  <1> QED
    BY <1>1, InvHolds, PTL

(* A refresh with a token that was used up before it came in is refused. *)
THEOREM SpentStaysRefused == Spec => []SpentIsRefused
  <1>1. Inv => SpentIsRefused
    BY DEF Inv, NewInv, SpentIsRefused
  <1> QED
    BY <1>1, InvHolds, PTL

(* No step brings a revoked token back or gives a row another owner. *)
THEOREM RevokingIsForGood == Spec => RevokedForGood
  <1>1. TypeOK /\ Inv /\ [Next]_vars => [RowsStay]_vars
    BY NextStep
  <1> QED
    BY <1>1, InvHolds, PTL DEF Spec, RevokedForGood
=============================================================================
