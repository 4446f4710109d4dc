---------------------------- MODULE ServiceProofs ---------------------------
(***************************************************************************)
(* Theorems about four of the services around the timetable: Accounts,     *)
(* Calendar, Resources and NotificationPreferences; and of the eight       *)
(* together, their types.                                                  *)
(***************************************************************************)
EXTENDS MCServices, BillingProofs, ConstraintProofs

(***************************************************************************)
(* Accounts: what a change of password leaves                              *)
(***************************************************************************)

(* The tokens of user u are being deleted, or their deletion was cut short. *)
Covered(u) == u \in cut \/ \E v \in Devices : visit[v] = [at |-> "revoke", user |-> u]

(* No token is left of a user who was deleted. *)
TokensHaveUsers ==
  \A t \in Tokens, u \in Users : IsToken(t) /\ refresh[t].user = u => IsUser(u)

(* TokensOfPassword, user by user. *)
OldTokensCovered ==
  \A t \in Tokens, u \in Users :
    IsToken(t) /\ refresh[t].user = u /\ ~ refresh[t].late /\ refresh[t].changes < user[u].changes
      => Covered(u)

(* The same of the logins that are about to issue a token: one that read the
   password before a change is late as soon as the tokens are deleted. *)
OldLoginsCovered ==
  \A v \in Devices, u \in Users :
    visit[v].at = "issue" /\ visit[v].user = u /\ IsUser(u)
      /\ ~ visit[v].late /\ visit[v].changes < user[u].changes
      => Covered(u)

AccInv == AccTypeOK /\ TokensHaveUsers /\ OldTokensCovered /\ OldLoginsCovered

LEMMA VisitFields ==
  ASSUME NEW l \in Visit
  PROVE  /\ l.at = "insert" => l.email \in Emails /\ l.role \in Roles /\ l.login \in BOOLEAN
         /\ l.at = "profile" => l.user \in Users /\ l.login \in BOOLEAN
         /\ l.at \in {"validate", "password", "revoke"} => l.user \in Users
         /\ l.at = "issue" => /\ l \in [at : {"issue"}, user : Users, changes : Nat, late : BOOLEAN]
                              /\ l.user \in Users /\ l.changes \in Nat /\ l.late \in BOOLEAN
         /\ l.at = "update" => l.user \in Users /\ l.dto \in UserDtos
BY DEF Visit, Idle

LEMMA RevokeVisit ==
  ASSUME NEW l \in Visit, l.at = "revoke"
  PROVE  l = [at |-> "revoke", user |-> l.user]
BY DEF Visit, Idle

(* The row an update writes: the fields that are not given are kept. *)
LEMMA WrittenUser ==
  ASSUME NEW row \in UserRow, NEW dto \in UserDtos
  PROVE  /\ Rewritten(row, dto) \in UserRow
         /\ Rewritten(row, dto).changes = row.changes
BY AccountAssumption DEF UserRow, Kept, Rewritten

LEMMA RenewedPassword ==
  \A row \in UserRow : [row EXCEPT !.changes = row.changes + 1, !.hashed = TRUE] \in UserRow
<1>1. \A row \in UserRow, n \in Nat : [row EXCEPT !.changes = n, !.hashed = TRUE] \in UserRow
  BY DEF UserRow
<1>2. \A row \in UserRow : row.changes + 1 \in Nat
  BY DEF UserRow
<1> QED
  BY <1>1, <1>2

LEMMA AccInitInv == AccInit => AccInv
<1> SUFFICES ASSUME AccInit PROVE AccInv
  OBVIOUS
<1>1. AccTypeOK
  BY DEF AccInit, AccTypeOK, Absent, Visit
<1>2. (\A t \in Tokens : ~ IsToken(t)) /\ \A v \in Devices : visit[v].at = "idle"
  BY DEF AccInit, IsToken, Absent, Idle
<1> QED
  BY <1>1, <1>2 DEF AccInv, TokensHaveUsers, OldLoginsCovered, OldTokensCovered

(* The values a step of a request v leaves in the five variables. *)
LEMMA AccStepType ==
  ASSUME AccTypeOK, NEW v \in Devices, AccStep(v)
  PROVE  AccTypeOK'
<1> DEFINE l == visit[v]
<1>0. l \in Visit /\ Idle \in Visit
  BY DEF AccTypeOK, Visit
<1>1. CASE \E email \in Emails, role \in Roles : Register(v, email, role) \/ CreateUser(v, email, role)
  <2>1. PICK email \in Emails, role \in Roles : Register(v, email, role) \/ CreateUser(v, email, role)
    BY <1>1
  <2>2. \A login \in BOOLEAN :
          [at |-> "insert", email |-> email, role |-> role, login |-> login] \in Visit
    BY DEF Visit
  <2> QED
    BY <2>1, <2>2 DEF Register, CreateUser, Turn, AccTypeOK
<1>2. CASE InsertUser(v)
  <2>1. l.email \in Emails /\ l.role \in Roles /\ l.login \in BOOLEAN
    BY <1>0, <1>2, VisitFields DEF InsertUser
  <2>2. [email |-> l.email, role |-> l.role, active |-> TRUE, hashed |-> l.login, changes |-> 0]
          \in UserRow
    BY <2>1 DEF UserRow
  <2>3. \A u \in Users : [at |-> "profile", user |-> u, login |-> l.login] \in Visit
    BY <2>1 DEF Visit
  <2> QED
    BY <1>2, <2>2, <2>3 DEF InsertUser, Turn, AccTypeOK
<1>3. CASE InsertProfile(v)
  <2>1. l.user \in Users
    BY <1>0, <1>3, VisitFields DEF InsertProfile
  <2>2. [at |-> "validate", user |-> l.user] \in Visit
    BY <2>1 DEF Visit
  <2> QED
    BY <1>0, <1>3, <2>1, <2>2 DEF InsertProfile, Turn, AccTypeOK
<1>4. CASE \E u \in Users : Login(v, u)
  <2>1. PICK u \in Users : Login(v, u)
    BY <1>4
  <2>2. user[u] \in UserRow
    BY <2>1 DEF Login, IsUser, AccTypeOK
  <2>3. [at |-> "issue", user |-> u, changes |-> user[u].changes, late |-> FALSE] \in Visit
    BY <2>2 DEF UserRow, Visit
  <2> QED
    BY <2>1, <2>3 DEF Login, Turn, AccTypeOK
<1>5. CASE GenerateRefreshToken(v)
  <2>1. [user |-> l.user, changes |-> l.changes, late |-> l.late] \in TokenRow
    BY <1>0, <1>5, VisitFields DEF GenerateRefreshToken, TokenRow
  <2> QED
    BY <1>0, <1>5, <2>1 DEF GenerateRefreshToken, Turn, AccTypeOK
<1>6. CASE (\E t \in Tokens : RefreshExpired(v, t)) \/ (\E u \in Users : Logout(v, u))
  BY <1>6 DEF RefreshExpired, Logout, Without, AccTypeOK, Absent
<1>7. CASE \E u \in Users : ChangePassword(v, u)
  BY <1>7 DEF ChangePassword, Turn, AccTypeOK, Visit
<1>8. CASE StorePassword(v)
  <2>1. l.user \in Users
    BY <1>0, <1>8, VisitFields DEF StorePassword
  <2>2. user[l.user] \in UserRow
    BY <1>8, <2>1 DEF StorePassword, IsUser, AccTypeOK
  <2>3. [user[l.user] EXCEPT !.changes = user[l.user].changes + 1, !.hashed = TRUE] \in UserRow
    BY <2>2, RenewedPassword
  <2>4. [at |-> "revoke", user |-> l.user] \in Visit
    BY <2>1 DEF Visit
  <2> QED
    BY <1>8, <2>1, <2>3, <2>4 DEF StorePassword, Turn, AccTypeOK
<1>9. CASE RevokeTokens(v)
  <2>1. \A w \in Devices : visit[w].at = "issue" => [visit[w] EXCEPT !.late = TRUE] \in Visit
    <3> SUFFICES ASSUME NEW w \in Devices, visit[w].at = "issue"
                 PROVE  [visit[w] EXCEPT !.late = TRUE] \in Visit
      OBVIOUS
    <3>1. visit[w] \in [at : {"issue"}, user : Users, changes : Nat, late : BOOLEAN]
      BY VisitFields DEF AccTypeOK
    <3> QED
      BY <3>1 DEF Visit
  <2>2. visit' \in [Devices -> Visit]
    BY <1>0, <1>9, <2>1 DEF RevokeTokens, Overtaken, AccTypeOK
  <2> QED
    BY <1>9, <2>2 DEF RevokeTokens, Without, AccTypeOK, Absent
<1>10. CASE \E u \in Users, dto \in UserDtos : UpdateUser(v, u, dto)
  BY <1>10 DEF UpdateUser, Turn, AccTypeOK, Visit
<1>11. CASE WriteUser(v)
  <2>1. l.user \in Users /\ l.dto \in UserDtos
    BY <1>0, <1>11, VisitFields DEF WriteUser
  <2>2. user[l.user] \in UserRow
    BY <1>11, <2>1 DEF WriteUser, IsUser, AccTypeOK
  <2>3. user' \in [Users -> UserRow \cup Absent]
    BY <1>11, <2>1, <2>2, WrittenUser DEF WriteUser, AccTypeOK
  <2> QED
    BY <1>0, <1>11, <2>3 DEF WriteUser, Turn, AccTypeOK
<1>12. CASE \E u \in Users : RemoveUser(v, u)
  BY <1>12 DEF RemoveUser, Without, AccTypeOK, Absent
<1>13. CASE \E u \in Users, active \in BOOLEAN : SetUserActive(v, u, active)
  <2>1. PICK u \in Users, active \in BOOLEAN : SetUserActive(v, u, active)
    BY <1>13
  <2>2. user[u] \in UserRow
    BY <2>1 DEF SetUserActive, IsUser, AccTypeOK
  <2>3. [user[u] EXCEPT !.active = active] \in UserRow
    BY <2>2 DEF UserRow
  <2> QED
    BY <2>1, <2>3 DEF SetUserActive, AccTypeOK
<1>14. CASE Drop(v)
  <2>1. l.at = "revoke" => l.user \in Users
    BY <1>0, VisitFields
  <2> QED
    BY <1>0, <1>14, <2>1 DEF Drop, Turn, AccTypeOK
<1> QED
  BY <1>1, <1>2, <1>3, <1>4, <1>5, <1>6, <1>7, <1>8, <1>9, <1>10, <1>11, <1>12, <1>13, <1>14
  DEF AccStep, AuthStep, UserStep, ActivateUser, DeactivateUser

(* What every step does: a token that is there was there before or is issued by a
   login, a password is changed only with a deletion of the tokens to follow, and
   a deletion is given up only with a mark, or done with. *)
TokensIssued ==
  \A t \in Tokens, u \in Users : refresh'[t] \notin Absent /\ refresh'[t].user = u =>
    /\ user'[u] \notin Absent
    /\ \/ IsToken(t) /\ refresh'[t] = refresh[t]
       \/ \E w \in Devices :
            /\ visit[w].at = "issue" /\ visit[w].user = u /\ IsUser(u)
            /\ refresh'[t] = [user |-> visit[w].user, changes |-> visit[w].changes,
                             late |-> visit[w].late]

PasswordsCovered ==
  \A u \in Users : user'[u] \notin Absent =>
    \/ IsUser(u) /\ user'[u].changes = user[u].changes
    \/ user'[u].changes = 0
    \/ Covered(u)'

DeletionsDone ==
  \A u \in Users : Covered(u) =>
    \/ Covered(u)'
    \/ /\ \A t \in Tokens : refresh'[t] \notin Absent => refresh'[t].user # u
       /\ \A w \in Devices : visit'[w].at = "issue" /\ visit'[w].user = u => visit'[w].late

LoginsCheck ==
  \A w \in Devices, u \in Users : visit'[w].at = "issue" /\ visit'[w].user = u =>
    \/ visit'[w] = visit[w]
    \/ visit'[w].late
    \/ visit'[w].changes = user'[u].changes

LEMMA AccountsFrame ==
  ASSUME AccInv, AccTypeOK', TokensIssued, PasswordsCovered, DeletionsDone, LoginsCheck
  PROVE  AccInv'
<1>1. TokensHaveUsers'
  BY DEF TokensHaveUsers, TokensIssued, IsToken, IsUser
<1>2. OldLoginsCovered'
  <2> SUFFICES ASSUME NEW w \in Devices, NEW u \in Users,
                      visit'[w].at = "issue", visit'[w].user = u, user'[u] \notin Absent,
                      ~ visit'[w].late, visit'[w].changes < user'[u].changes
               PROVE  Covered(u)'
    BY DEF OldLoginsCovered, IsUser
  <2>1. visit'[w].changes \in Nat /\ user'[u].changes \in Nat
    BY VisitFields DEF AccTypeOK, UserRow
  <2>2. visit'[w] = visit[w]
    BY <2>1 DEF LoginsCheck
  <2>3. CASE IsUser(u) /\ user'[u].changes = user[u].changes
    <3>1. Covered(u)
      BY <2>2, <2>3 DEF AccInv, OldLoginsCovered
    <3> QED
      BY <3>1 DEF DeletionsDone
  <2>4. user'[u].changes # 0
    BY <2>1
  <2> QED
    BY <2>3, <2>4 DEF PasswordsCovered
<1>3. OldTokensCovered'
  <2> SUFFICES ASSUME NEW t \in Tokens, NEW u \in Users,
                      refresh'[t] \notin Absent, refresh'[t].user = u,
                      ~ refresh'[t].late, refresh'[t].changes < user'[u].changes
               PROVE  Covered(u)'
    BY DEF OldTokensCovered, IsToken
  <2>1. user'[u] \notin Absent
    BY DEF TokensIssued
  <2>2. refresh'[t].changes \in Nat /\ user'[u].changes \in Nat
    BY <2>1 DEF AccTypeOK, TokenRow, UserRow
  <2>3. CASE IsUser(u) /\ user'[u].changes = user[u].changes
    <3>1. Covered(u)
      <4>1. CASE IsToken(t) /\ refresh'[t] = refresh[t]
        BY <2>3, <4>1 DEF AccInv, OldTokensCovered
      <4>2. ASSUME NEW w \in Devices, visit[w].at = "issue", visit[w].user = u, IsUser(u),
                   refresh'[t] = [user |-> visit[w].user, changes |-> visit[w].changes,
                                  late |-> visit[w].late]
            PROVE  Covered(u)
        BY <2>3, <4>2 DEF AccInv, OldLoginsCovered
      <4> QED
        BY <4>1, <4>2 DEF TokensIssued
    <3> QED
      BY <3>1 DEF DeletionsDone
  <2>4. user'[u].changes # 0
    BY <2>2
  <2> QED
    BY <2>1, <2>3, <2>4 DEF PasswordsCovered
<1> QED
  BY <1>1, <1>2, <1>3 DEF AccInv

(* Requests that neither end a deletion nor pass the check of a password. *)
Quiet ==
  /\ cut' = cut
  /\ \A w \in Devices :
       visit'[w] = visit[w] \/ (visit[w].at # "revoke" /\ visit'[w].at # "issue")

LEMMA QuietRequests == Quiet => DeletionsDone /\ LoginsCheck
BY DEF Quiet, DeletionsDone, LoginsCheck, Covered

(* Steps that issue no token and delete no user. *)
LEMMA NothingIssued ==
  ASSUME AccTypeOK, TokensHaveUsers, \A t \in Tokens : refresh'[t] = refresh[t] \/ refresh'[t] = Gone,
         \A u \in Users : IsUser(u) => user'[u] \notin Absent
  PROVE  TokensIssued
BY DEF TokensIssued, TokensHaveUsers, IsToken, IsUser, Absent

LEMMA UserRowsExist == \A row \in UserRow : row \notin Absent
BY UserRowAssumption

LEMMA AccStepInv ==
  ASSUME AccInv, NEW v \in Devices, AccStep(v)
  PROVE  AccInv'
<1> DEFINE l == visit[v]
<1>0. AccTypeOK /\ AccTypeOK' /\ TokensHaveUsers /\ l \in Visit /\ Idle.at = "idle"
  BY AccStepType DEF AccInv, AccTypeOK, Idle
<1>1. ASSUME user' = user PROVE PasswordsCovered
  BY <1>1 DEF PasswordsCovered, IsUser
<1>2. ASSUME user' = user, refresh' = refresh PROVE TokensIssued
  BY <1>0, <1>2, NothingIssued DEF IsUser
<1>3. CASE \E email \in Emails, role \in Roles : Register(v, email, role) \/ CreateUser(v, email, role)
  <2>1. PICK email \in Emails, role \in Roles : Register(v, email, role) \/ CreateUser(v, email, role)
    BY <1>3
  <2>2. DeletionsDone /\ LoginsCheck
    BY <1>0, <2>1, QuietRequests DEF Quiet, Register, CreateUser, Fresh, Turn, AccTypeOK
  <2> QED
    BY <1>0, <1>1, <1>2, <2>1, <2>2, AccountsFrame DEF Register, CreateUser
<1>4. CASE InsertUser(v)
  <2>1. PICK u \in Users :
          /\ user[u] = Unused
          /\ user' = [user EXCEPT ![u] = [email |-> l.email, role |-> l.role,
                       active |-> TRUE, hashed |-> l.login, changes |-> 0]]
          /\ Turn(v, [at |-> "profile", user |-> u, login |-> l.login])
    BY <1>4 DEF InsertUser
  <2>2. DeletionsDone /\ LoginsCheck
    BY <1>0, <1>4, <2>1, QuietRequests DEF Quiet, InsertUser, Turn, AccTypeOK
  <2>3. PasswordsCovered
    BY <1>0, <2>1 DEF PasswordsCovered, IsUser, AccTypeOK
  <2>4. \A w \in Users : IsUser(w) => user'[w] \notin Absent
    BY <1>0, <2>1 DEF IsUser, AccTypeOK, Absent
  <2>5. TokensIssued
    BY <1>0, <1>4, <2>4, NothingIssued DEF InsertUser
  <2> QED
    BY <1>0, <2>2, <2>3, <2>5, AccountsFrame
<1>5. CASE InsertProfile(v)
  <2>1. DeletionsDone /\ LoginsCheck
    BY <1>0, <1>5, QuietRequests DEF Quiet, InsertProfile, Turn, AccTypeOK
  <2> QED
    BY <1>0, <1>1, <1>2, <1>5, <2>1, AccountsFrame DEF InsertProfile
<1>6. CASE \E u \in Users : Login(v, u)
  <2>1. PICK u \in Users : Login(v, u)
    BY <1>6
  <2>2. visit' = [visit EXCEPT ![v] =
          [at |-> "issue", user |-> u, changes |-> user[u].changes, late |-> FALSE]]
    BY <2>1 DEF Login, Turn
  <2>3. LoginsCheck
    BY <1>0, <2>1, <2>2 DEF LoginsCheck, Login, AccTypeOK
  <2>4. visit[v].at # "revoke" /\ cut' = cut
    BY <1>0, <2>1 DEF Login, Fresh
  <2>5. DeletionsDone
    BY <1>0, <2>2, <2>4 DEF DeletionsDone, Covered, AccTypeOK
  <2> QED
    BY <1>0, <1>1, <1>2, <2>1, <2>3, <2>5, AccountsFrame DEF Login
<1>7. CASE GenerateRefreshToken(v)
  <2>1. PICK t \in Tokens : refresh' = [refresh EXCEPT
          ![t] = [user |-> l.user, changes |-> l.changes, late |-> l.late]]
    BY <1>7 DEF GenerateRefreshToken
  <2>2. DeletionsDone /\ LoginsCheck
    BY <1>0, <1>7, QuietRequests DEF Quiet, GenerateRefreshToken, Turn, AccTypeOK
  <2>3. l.at = "issue" /\ IsUser(l.user) /\ user' = user
    BY <1>7 DEF GenerateRefreshToken
  <2>4. TokensIssued
    BY <1>0, <2>1, <2>3 DEF TokensIssued, TokensHaveUsers, IsUser, IsToken, AccTypeOK
  <2> QED
    BY <1>0, <1>1, <2>2, <2>3, <2>4, AccountsFrame
<1>8. CASE (\E t \in Tokens : RefreshExpired(v, t)) \/ (\E u \in Users : Logout(v, u))
  <2>1. \A t \in Tokens : refresh'[t] = refresh[t] \/ refresh'[t] = Gone
    BY <1>0, <1>8 DEF RefreshExpired, Logout, Without, AccTypeOK
  <2>2. UNCHANGED <<user, visit, cut>>
    BY <1>8 DEF RefreshExpired, Logout
  <2>3. TokensIssued
    BY <1>0, <2>1, <2>2, NothingIssued DEF IsUser
  <2>4. DeletionsDone /\ LoginsCheck
    BY <2>2, QuietRequests DEF Quiet
  <2> QED
    BY <1>0, <1>1, <2>2, <2>3, <2>4, AccountsFrame
<1>9. CASE \E u \in Users : ChangePassword(v, u)
  <2>1. PICK u \in Users : ChangePassword(v, u)
    BY <1>9
  <2>2. DeletionsDone /\ LoginsCheck
    BY <1>0, <2>1, QuietRequests DEF Quiet, ChangePassword, Fresh, Turn, AccTypeOK
  <2> QED
    BY <1>0, <1>1, <1>2, <2>1, <2>2, AccountsFrame DEF ChangePassword
<1>10. CASE StorePassword(v)
  <2>1. PICK u \in Users : u = l.user
    BY <1>0, <1>10, VisitFields DEF StorePassword
  <2>2. /\ user' = [user EXCEPT ![u] = [user[u] EXCEPT !.changes = user[u].changes + 1, !.hashed = TRUE]]
        /\ visit' = [visit EXCEPT ![v] = [at |-> "revoke", user |-> u]]
    BY <1>0, <1>10, <2>1 DEF StorePassword, Turn, AccTypeOK
  <2>3. DeletionsDone /\ LoginsCheck
    BY <1>0, <1>10, <2>2, QuietRequests DEF Quiet, StorePassword, AccTypeOK
  <2>4. Covered(u)'
    BY <1>0, <2>2 DEF Covered, AccTypeOK
  <2>5. PasswordsCovered
    BY <1>0, <2>2, <2>4 DEF PasswordsCovered, IsUser, AccTypeOK
  <2>6. \A w \in Users : IsUser(w) => user'[w] \notin Absent
    <3>1. user[u] \in UserRow
      BY <1>0, <1>10, <2>1 DEF StorePassword, IsUser, AccTypeOK
    <3>2. user'[u] \in UserRow
      BY <1>0, <2>2, <3>1, RenewedPassword DEF AccTypeOK
    <3> QED
      BY <1>0, <2>2, <3>2, UserRowsExist DEF IsUser, AccTypeOK
  <2>7. TokensIssued
    BY <1>0, <1>10, <2>6, NothingIssued DEF StorePassword
  <2> QED
    BY <1>0, <2>3, <2>5, <2>7, AccountsFrame
<1>11. CASE RevokeTokens(v)
  <2>1. PICK u \in Users : u = l.user
    BY <1>0, <1>11, VisitFields DEF RevokeTokens
  <2>2. /\ refresh' = Without(u) /\ visit' = Overtaken(v, u)
        /\ cut' = cut \ {u} /\ user' = user
    BY <1>11, <2>1 DEF RevokeTokens
  <2>3. \A t \in Tokens : refresh'[t] = IF IsToken(t) /\ refresh[t].user = u THEN Gone ELSE refresh[t]
    BY <2>2 DEF Without
  <2>4. TokensIssued
    BY <1>0, <2>2, <2>3, NothingIssued DEF IsUser
  <2>5. \A w \in Devices :
          visit'[w] = IF w = v THEN Idle
                      ELSE IF visit[w].at = "issue" /\ visit[w].user = u
                           THEN [visit[w] EXCEPT !.late = TRUE] ELSE visit[w]
    BY <2>2 DEF Overtaken
  <2>6. \A w \in Devices : visit[w].at = "issue" => [visit[w] EXCEPT !.late = TRUE].late
    BY <1>0, VisitFields DEF AccTypeOK
  <2>7. LoginsCheck
    BY <1>0, <2>5, <2>6 DEF LoginsCheck
  <2>8. DeletionsDone
    <3> SUFFICES ASSUME NEW x \in Users, Covered(x)
                 PROVE  \/ Covered(x)'
                        \/ /\ \A t \in Tokens : refresh'[t] \notin Absent => refresh'[t].user # x
                           /\ \A w \in Devices : visit'[w].at = "issue" /\ visit'[w].user = x
                                => visit'[w].late
      BY DEF DeletionsDone
    <3>1. CASE x = u
      <4>1. \A t \in Tokens : refresh'[t] \notin Absent => refresh'[t].user # u
        BY <2>3 DEF IsToken, Absent
      <4>2. \A w \in Devices : visit'[w].at = "issue" /\ visit'[w].user = u => visit'[w].late
        BY <1>0, <2>5, <2>6
      <4> QED
        BY <3>1, <4>1, <4>2
    <3>2. CASE x # u
      BY <2>1, <2>2, <2>5, <3>2 DEF Covered
    <3> QED
      BY <3>1, <3>2
  <2> QED
    BY <1>0, <1>1, <2>2, <2>4, <2>7, <2>8, AccountsFrame
<1>12. CASE \E u \in Users, dto \in UserDtos : UpdateUser(v, u, dto)
  <2>1. PICK u \in Users, dto \in UserDtos : UpdateUser(v, u, dto)
    BY <1>12
  <2>2. DeletionsDone /\ LoginsCheck
    BY <1>0, <2>1, QuietRequests DEF Quiet, UpdateUser, Fresh, Turn, AccTypeOK
  <2> QED
    BY <1>0, <1>1, <1>2, <2>1, <2>2, AccountsFrame DEF UpdateUser
<1>13. CASE WriteUser(v)
  <2>1. PICK u \in Users, dto \in UserDtos : u = l.user /\ dto = l.dto
    BY <1>0, <1>13, VisitFields DEF WriteUser
  <2>2. user[u] \in UserRow /\ user' = [user EXCEPT ![u] = Rewritten(user[u], dto)]
    BY <1>0, <1>13, <2>1 DEF WriteUser, IsUser, AccTypeOK
  <2>3. Rewritten(user[u], dto) \in UserRow /\ Rewritten(user[u], dto).changes = user[u].changes
    BY <2>2, WrittenUser
  <2>4. PasswordsCovered /\ \A w \in Users : IsUser(w) => user'[w] \notin Absent
    BY <1>0, <2>2, <2>3, UserRowsExist DEF PasswordsCovered, IsUser, AccTypeOK
  <2>5. TokensIssued
    BY <1>0, <1>13, <2>4, NothingIssued DEF WriteUser
  <2>6. DeletionsDone /\ LoginsCheck
    BY <1>0, <1>13, QuietRequests DEF Quiet, WriteUser, Turn, AccTypeOK
  <2> QED
    BY <1>0, <2>4, <2>5, <2>6, AccountsFrame
<1>14. CASE \E u \in Users : RemoveUser(v, u)
  <2>1. PICK u \in Users : RemoveUser(v, u)
    BY <1>14
  <2>2. UNCHANGED <<visit, cut>> /\ user' = [user EXCEPT ![u] = Gone] /\ refresh' = Without(u)
    BY <2>1 DEF RemoveUser
  <2>3. PasswordsCovered
    BY <1>0, <2>2 DEF PasswordsCovered, IsUser, AccTypeOK, Absent
  <2>4. TokensIssued
    BY <1>0, <2>2 DEF TokensIssued, TokensHaveUsers, Without, IsToken, IsUser, AccTypeOK, Absent
  <2>5. DeletionsDone /\ LoginsCheck
    BY <2>2, QuietRequests DEF Quiet
  <2> QED
    BY <1>0, <2>3, <2>4, <2>5, AccountsFrame
<1>15. CASE \E u \in Users, active \in BOOLEAN : SetUserActive(v, u, active)
  <2>1. PICK u \in Users, active \in BOOLEAN : SetUserActive(v, u, active)
    BY <1>15
  <2>2. user[u] \in UserRow /\ user' = [user EXCEPT ![u] = [user[u] EXCEPT !.active = active]]
    BY <1>0, <2>1 DEF SetUserActive, IsUser, AccTypeOK
  <2>3. /\ [user[u] EXCEPT !.active = active] \in UserRow
        /\ [user[u] EXCEPT !.active = active].changes = user[u].changes
    BY <2>2 DEF UserRow
  <2>4. PasswordsCovered /\ \A w \in Users : IsUser(w) => user'[w] \notin Absent
    BY <1>0, <2>2, <2>3, UserRowsExist DEF PasswordsCovered, IsUser, AccTypeOK
  <2>5. TokensIssued
    BY <1>0, <2>1, <2>4, NothingIssued DEF SetUserActive
  <2>6. DeletionsDone /\ LoginsCheck
    BY <2>1, QuietRequests DEF Quiet, SetUserActive
  <2> QED
    BY <1>0, <2>4, <2>5, <2>6, AccountsFrame
<1>16. CASE Drop(v)
  <2>1. /\ UNCHANGED <<user, refresh>> /\ visit' = [visit EXCEPT ![v] = Idle]
        /\ cut' = IF l.at = "revoke" THEN cut \cup {l.user} ELSE cut
    BY <1>16 DEF Drop, Turn
  <2>2. LoginsCheck
    BY <1>0, <2>1 DEF LoginsCheck, AccTypeOK
  <2>3. DeletionsDone
    BY <1>0, <2>1 DEF DeletionsDone, Covered, AccTypeOK
  <2> QED
    BY <1>0, <1>1, <1>2, <2>1, <2>2, <2>3, AccountsFrame
<1> QED
  BY <1>3, <1>4, <1>5, <1>6, <1>7, <1>8, <1>9, <1>10, <1>11, <1>12, <1>13, <1>14, <1>15, <1>16
  DEF AccStep, AuthStep, UserStep, ActivateUser, DeactivateUser

LEMMA AccInvGivesProperty == AccInv => TokensOfPassword
BY DEF AccInv, OldTokensCovered, TokensOfPassword, Covered, AccTypeOK, TokenRow, IsToken

LEMMA AccNextInv == AccInv /\ [AccNext]_accVars => AccInv'
<1>1. ASSUME AccInv, UNCHANGED accVars PROVE AccInv'
  BY <1>1 DEF accVars, AccInv, AccTypeOK, TokensHaveUsers, OldTokensCovered, OldLoginsCovered,
              Covered, IsToken, IsUser
<1> QED
  BY <1>1, AccStepInv DEF AccNext

(* After a change of password no token of the password before is left ("Invalidate
   all refresh tokens"), unless the deletion is still to come, was cut short, or the
   login was past its check: for any number of users, tokens and requests.  The
   invariant behind it follows the logins that are about to issue a token. *)
THEOREM TokensRevoked == AccSpec => []TokensOfPassword
<1>1. AccInit => AccInv
  BY AccInitInv
<1> QED
  BY <1>1, AccNextInv, AccInvGivesProperty, PTL DEF AccSpec

(***************************************************************************)
(* Calendar: spans that are created                                        *)
(***************************************************************************)

(* One planner creates spans, moves them and switches them on. *)
CreationSerialised ==
  \A p, q \in Planners : p # q /\ "create" \in Tasks[p] =>
    Tasks[q] \cap {"create", "bulk", "update", "activate"} = {}

(* A span that was checked is still free, and its planner may create. *)
CheckedIsFree ==
  \A p \in Planners : plan[p].at = "insert" =>
    /\ "create" \in Tasks[p]
    /\ Free(plan[p].row)

CalInv == CalTypeOK /\ CheckedIsFree

LEMMA IntentFields ==
  ASSUME NEW k \in Intent
  PROVE  /\ k.at = "insert" => k.row \in SpanRow
         /\ k.at = "delete" => k.span \in Spans
BY DEF Intent, Idle

LEMMA SpanRowsExist == \A row \in SpanRow : row \notin Absent
BY SpanRowAssumption

(* The three alternatives of the query miss no overlap, whatever the order of the
   times of the other span is. *)
LEMMA NoClashNoOverlap ==
  ASSUME NEW row \in SpanRow, NEW new \in SpanRow, TextsAgree(new, row), ~ Clashes(row, new)
  PROVE  ~ Overlap(new, row)
<1>1. /\ row.from \in Times /\ row.to \in Times /\ new.from \in Times /\ new.to \in Times
      /\ \A t \in Times : TextOrder[t] \in Nat /\ Clock[t] \in Nat
  BY CalendarAssumption DEF SpanRow
<1>2. \A t, u \in {row.from, row.to, new.from, new.to} : Before(t, u) <=> Clock[t] < Clock[u]
  BY DEF TextsAgree
<1> QED
  BY <1>1, <1>2 DEF Clashes, Overlap

LEMMA CalStepType ==
  ASSUME CalTypeOK, NEW p \in Planners, CalStep(p)
  PROVE  CalTypeOK'
<1>0. plan[p] \in Intent /\ Idle \in Intent
  BY DEF CalTypeOK, Intent
<1>1. \A owner \in Owners, dto \in SpanDtos :
        /\ NewSpan(owner, dto) \in SpanRow
        /\ NewSpan(owner, [dto EXCEPT !.date = Blank]) \in SpanRow
  BY CalendarAssumption DEF NewSpan, SpanRow
<1>2. \A row \in SpanRow : [at |-> "insert", row |-> row] \in Intent
  BY DEF Intent
<1>3. CASE \E new \in SpanRow : CheckSpan(p, new)
  BY <1>2, <1>3 DEF CheckSpan, Goes, CalTypeOK
<1>4. CASE \E day \in Owners, dto \in SpanDtos : CreateBulkAvailability(p, day, dto)
  BY <1>1, <1>4 DEF CreateBulkAvailability, CalTypeOK
<1>5. CASE \E i \in Spans, dto \in SpanUpdates :
             UpdateTimeSlot(p, i, dto) \/ UpdateAvailability(p, i, dto)
  <2>1. PICK i \in Spans, dto \in [day : SlotDays \cup {Blank}, from : Times \cup {Blank},
                                  to : Times \cup {Blank}, active : BOOLEAN \cup {Blank}] :
          Rewrite(p, i, dto) /\ IsSpan(i)
    BY <1>5, CalendarAssumption DEF UpdateTimeSlot, UpdateAvailability, IsSlot
  <2>2. span[i] \in SpanRow
    BY <2>1 DEF IsSpan, CalTypeOK
  <2>3. /\ Kept(dto.day, span[i].owner) \in Owners
        /\ Kept(dto.from, span[i].from) \in Times /\ Kept(dto.to, span[i].to) \in Times
        /\ Kept(dto.active, span[i].active) \in BOOLEAN
    BY <2>2, CalendarAssumption DEF Kept, SpanRow
  <2>4. Revised(span[i], dto) \in SpanRow
    BY <2>2, <2>3 DEF Revised, SpanRow
  <2>5. span' = [span EXCEPT ![i] = Revised(span[i], dto)] /\ UNCHANGED <<booked, plan>>
    BY <2>1 DEF Rewrite
  <2> QED
    BY <2>4, <2>5 DEF CalTypeOK
<1>6. CASE \E i \in Spans : DeactivateTimeSlot(p, i) \/ ActivateTimeSlot(p, i)
  <2>1. PICK i \in Spans, method \in SlotMethods, active \in BOOLEAN : Switch(p, i, method, active)
    BY <1>6 DEF DeactivateTimeSlot, ActivateTimeSlot, SlotMethods
  <2>2. span[i] \in SpanRow
    BY <2>1 DEF Switch, IsSlot, IsSpan, CalTypeOK
  <2>3. [span[i] EXCEPT !.active = active] \in SpanRow
    BY <2>2 DEF SpanRow
  <2> QED
    BY <2>1, <2>3 DEF Switch, CalTypeOK
<1>7. CASE \E i \in Spans : CountSessions(p, i)
  BY <1>7 DEF CountSessions, Goes, CalTypeOK, Intent
<1>8. CASE InsertSpan(p)
  BY <1>0, <1>8, IntentFields DEF InsertSpan, Goes, CalTypeOK
<1>9. CASE DeleteTimeSlot(p)
  BY <1>0, <1>9, IntentFields DEF DeleteTimeSlot, Goes, CalTypeOK, Absent
<1>10. CASE \E i \in Spans : DeleteAvailability(p, i)
  BY <1>10 DEF DeleteAvailability, CalTypeOK, Absent
<1>11. CASE CalAbort(p)
  BY <1>0, <1>11 DEF CalAbort, Goes, CalTypeOK
<1> QED
  BY <1>1, <1>3, <1>4, <1>5, <1>6, <1>7, <1>8, <1>9, <1>10, <1>11, CalendarAssumption
  DEF CalStep, SlotStep, AvailabilityStep, CreateTimeSlot, CreateAvailability

(* Spans are deleted and switched off, no span appears or moves. *)
SpansLeave ==
  \A i \in Spans :
    \/ span'[i] = span[i]
    \/ span'[i] = Gone
    \/ IsSpan(i) /\ span'[i] = [span[i] EXCEPT !.active = FALSE]

LEMMA SpansLeaveFree ==
  ASSUME CalTypeOK, SpansLeave, NEW new \in SpanRow, Free(new)
  PROVE  \A i \in Spans : span'[i] \notin Absent => ~ InTheWay(span'[i], new)
<1> SUFFICES ASSUME NEW i \in Spans, span'[i] \notin Absent, InTheWay(span'[i], new)
             PROVE  FALSE
  OBVIOUS
<1>1. ~ (IsSpan(i) /\ span'[i] = [span[i] EXCEPT !.active = FALSE])
  BY DEF InTheWay, IsSpan, CalTypeOK, SpanRow
<1>2. span'[i] = span[i]
  BY <1>1 DEF SpansLeave, Absent
<1> QED
  BY <1>2 DEF IsSpan, Free

LEMMA CalFrame ==
  ASSUME CalInv, CalTypeOK',
         SpansLeave,
         \A p \in Planners : plan'[p] = plan[p] \/ plan'[p].at # "insert"
  PROVE  CalInv'
<1> SUFFICES ASSUME NEW p \in Planners, plan'[p].at = "insert"
             PROVE  /\ "create" \in Tasks[p]
                    /\ \A i \in Spans : span'[i] \notin Absent => ~ InTheWay(span'[i], plan'[p].row)
  BY DEF CalInv, CheckedIsFree, Free, IsSpan
<1>1. plan'[p] = plan[p] /\ plan[p].row \in SpanRow
  BY IntentFields DEF CalInv, CalTypeOK
<1>2. PICK new \in SpanRow : new = plan[p].row
  BY <1>1
<1> QED
  BY <1>1, <1>2, SpansLeaveFree DEF CalInv, CheckedIsFree

(* While the one planner who creates has nothing checked, nothing is. *)
LEMMA NothingChecked ==
  ASSUME CalInv, CalTypeOK', CreationSerialised, NEW q \in Planners,
         Tasks[q] \cap {"create", "bulk", "update", "activate"} # {},
         \A p \in Planners : plan'[p] = plan[p] \/ plan'[p].at # "insert",
         plan'[q].at # "insert"
  PROVE  CalInv'
BY DEF CalInv, CheckedIsFree, CreationSerialised

LEMMA CalStepInv ==
  ASSUME CalInv, CreationSerialised, NEW p \in Planners, CalStep(p)
  PROVE  CalInv'
<1>0. /\ CalTypeOK /\ CalTypeOK' /\ Idle.at = "idle" /\ plan \in [Planners -> Intent]
  BY CalStepType DEF CalInv, CalTypeOK, Idle
<1>1. CASE \E day \in Owners, dto \in SpanDtos :
             CreateTimeSlot(p, day, dto) \/ CreateAvailability(p, day, dto)
  <2>1. PICK new : /\ Begins(p, "create") /\ Free(new) /\ UNCHANGED <<span, booked>>
                   /\ plan' = [plan EXCEPT ![p] = [at |-> "insert", row |-> new]]
    BY <1>1 DEF CreateTimeSlot, CreateAvailability, CheckSpan, Goes
  <2>2. plan'[p].row = new /\ \A q \in Planners \ {p} : plan'[q] = plan[q]
    BY <1>0, <2>1
  <2> QED
    BY <1>0, <2>1, <2>2 DEF CalInv, CheckedIsFree, Begins, Free, IsSpan
<1>2. CASE \E day \in Owners, dto \in SpanDtos : CreateBulkAvailability(p, day, dto)
  <2>1. "bulk" \in Tasks[p] /\ plan' = plan /\ plan[p] = Idle
    BY <1>2 DEF CreateBulkAvailability, Begins
  <2> QED
    BY <1>0, <2>1, NothingChecked
<1>3. CASE \E i \in Spans, dto \in SpanUpdates :
             UpdateTimeSlot(p, i, dto) \/ UpdateAvailability(p, i, dto)
  <2>1. "update" \in Tasks[p] /\ plan' = plan /\ plan[p] = Idle
    BY <1>3 DEF UpdateTimeSlot, UpdateAvailability, Rewrite, Begins
  <2> QED
    BY <1>0, <2>1, NothingChecked
<1>4. CASE \E i \in Spans : ActivateTimeSlot(p, i)
  <2>1. "activate" \in Tasks[p] /\ plan' = plan /\ plan[p] = Idle
    BY <1>4 DEF ActivateTimeSlot, Switch, Begins
  <2> QED
    BY <1>0, <2>1, NothingChecked
<1>5. CASE \E i \in Spans : DeactivateTimeSlot(p, i)
  <2>1. PICK i \in Spans : DeactivateTimeSlot(p, i)
    BY <1>5
  <2>2. /\ span' = [span EXCEPT ![i] = [span[i] EXCEPT !.active = FALSE]]
        /\ IsSpan(i) /\ plan' = plan
    BY <1>0, <2>1 DEF DeactivateTimeSlot, Switch, IsSlot, CalTypeOK
  <2>3. SpansLeave
    BY <1>0, <2>2 DEF SpansLeave, CalTypeOK
  <2> QED
    BY <1>0, <2>2, <2>3, CalFrame
<1>6. CASE \E i \in Spans : CountSessions(p, i)
  <2>1. SpansLeave /\ \A q \in Planners : plan'[q] = plan[q] \/ plan'[q].at # "insert"
    BY <1>0, <1>6 DEF CountSessions, Goes, SpansLeave
  <2> QED
    BY <1>0, <2>1, CalFrame
<1>7. CASE InsertSpan(p)
  <2>1. "create" \in Tasks[p]
    BY <1>7 DEF InsertSpan, CalInv, CheckedIsFree
  <2>2. plan'[p].at # "insert" /\ \A q \in Planners : plan'[q] = plan[q] \/ plan'[q].at # "insert"
    BY <1>0, <1>7 DEF InsertSpan, Goes
  <2> QED
    BY <1>0, <2>1, <2>2, NothingChecked
<1>8. CASE DeleteTimeSlot(p) \/ (\E i \in Spans : DeleteAvailability(p, i)) \/ CalAbort(p)
  <2>1. SpansLeave
    BY <1>0, <1>8 DEF DeleteTimeSlot, DeleteAvailability, CalAbort, SpansLeave, CalTypeOK
  <2>2. \A q \in Planners : plan'[q] = plan[q] \/ plan'[q].at # "insert"
    BY <1>0, <1>8 DEF DeleteTimeSlot, DeleteAvailability, CalAbort, Goes
  <2> QED
    BY <1>0, <2>1, <2>2, CalFrame
<1> QED
  BY <1>1, <1>2, <1>3, <1>4, <1>5, <1>6, <1>7, <1>8, CalendarAssumption
  DEF CalStep, SlotStep, AvailabilityStep

LEMMA CalInvHolds ==
  ASSUME CreationSerialised
  PROVE  CalSpec => []CalInv
<1>1. CalInit => CalInv
  <2> SUFFICES ASSUME CalInit PROVE CalInv
    OBVIOUS
  <2>1. CalTypeOK
    BY DEF CalInit, CalTypeOK, Absent, Intent
  <2>2. \A p \in Planners : plan[p].at = "idle"
    BY DEF CalInit, Idle
  <2> QED
    BY <2>1, <2>2 DEF CalInv, CheckedIsFree
<1>2. CalInv /\ [CalNext]_calVars => CalInv'
  <2> SUFFICES ASSUME CalInv, [CalNext]_calVars PROVE CalInv'
    OBVIOUS
  <2>1. ASSUME UNCHANGED <<span, plan>>, booked' \subseteq Spans PROVE CalInv'
    BY <2>1 DEF CalInv, CalTypeOK, CheckedIsFree, Free, IsSpan
  <2>2. CASE Book
    BY <2>1, <2>2 DEF Book, CalInv, CalTypeOK
  <2>3. CASE UNCHANGED calVars
    BY <2>1, <2>3 DEF calVars, CalInv, CalTypeOK
  <2> QED
    BY <2>2, <2>3, CalStepInv DEF CalNext
<1> QED
  BY <1>1, <1>2, PTL DEF CalSpec

(* A slot or an availability that is created overlaps no active one of its owner's
   weekday by the clock ("Check for overlapping time slots on the same day"), one
   for a date none of that date, wherever the texts of the two are in the order of
   the clock, and although the query is a call away from the insert: if one planner
   creates, moves and switches on spans.  Spans are deleted and switched off, and
   sessions booked, by any number of others. *)
THEOREM CreatedSpansDisjoint ==
  ASSUME CreationSerialised
  PROVE  CalSpec => NewSpansDisjoint
<1> DEFINE Apart(new, row) == \/ new.date \notin {Blank, row.date}
                              \/ ~ TextsAgree(new, row)
                              \/ ~ Overlap(new, row)
<1>1. ASSUME CalInv, NEW i \in Spans, NEW j \in Spans, i # j, IsSpan(j), span[j].active,
             NEW p \in Planners, plan[p].at = "insert", span'[i] = plan[p].row
      PROVE  Apart(span'[i], span[j])
  <2>1. PICK new \in SpanRow : new = plan[p].row
    BY <1>1, IntentFields DEF CalInv, CalTypeOK
  <2>2. PICK row \in SpanRow : row = span[j]
    BY <1>1 DEF CalInv, CalTypeOK, IsSpan
  <2>3. ~ InTheWay(row, new)
    BY <1>1, <2>1, <2>2 DEF CalInv, CheckedIsFree, Free
  <2>4. \/ row.owner # new.owner
        \/ new.date # Blank /\ new.date # row.date
        \/ ~ Clashes(row, new)
    BY <1>1, <2>2, <2>3 DEF InTheWay
  <2>5. row.owner # new.owner => ~ Overlap(new, row)
    BY DEF Overlap
  <2>6. Apart(new, row)
    BY <2>4, <2>5, NoClashNoOverlap
  <2> QED
    BY <1>1, <2>1, <2>2, <2>6
<1>2. CalInv => [\A i, j \in Spans :
         i # j /\ IsSpan(j) /\ span[j].active /\ (\E p \in Planners :
             plan[p].at = "insert" /\ plan'[p] = Idle /\ span[i] = Unused /\ span'[i] = plan[p].row)
           => Apart(span'[i], span[j])]_calVars
  BY <1>1
<1> QED
  BY <1>2, CalInvHolds, PTL DEF NewSpansDisjoint

(***************************************************************************)
(* Resources: removals                                                     *)
(***************************************************************************)

(* A clerk who removes rows has the creations, the assignments and the users
   who come to itself. *)
RemovalSerialised ==
  \A c, d \in Clerks : c # d /\ "remove" \in Offices[c] =>
    Offices[d] \cap {"create", "assign", "enroll"} = {}

(* Rows hang on tenants and schools, and only classes and subjects are linked. *)
Fits(parent) == parent = Blank \/ KindOf[parent] \in {"tenant", "school"}

RowsFit ==
  /\ \A r \in Rows : Stored(r) => Fits(table[r].parent)
  /\ \A l \in links : KindOf[l[1]] = "class" /\ KindOf[l[2]] = "subject"

DeedsFit ==
  \A c \in Clerks :
    /\ desk[c].at = "insert" => "create" \in Offices[c] /\ Fits(desk[c].row.parent)
    /\ desk[c].at = "link" => /\ "assign" \in Offices[c]
                             /\ KindOf[desk[c].class] = "class" /\ KindOf[desk[c].subject] = "subject"
    /\ desk[c].at = "delete" => "remove" \in Offices[c]

(* Nothing hangs on row x and nobody is at it. *)
Bare(x) ==
  /\ \A r \in Rows : Stored(r) => table[r].parent # x
  /\ \A l \in links : l[1] # x /\ l[2] # x
  /\ PeopleAt(x) = {}

(* Nothing hangs on a row that is about to be deleted. *)
RemovedAreBare ==
  \A c \in Clerks, x \in Rows : desk[c].at = "delete" /\ desk[c].row = x => Bare(x)

ResInv == ResTypeOK /\ RowsFit /\ DeedsFit /\ RemovedAreBare

LEMMA DeedFields ==
  ASSUME NEW k \in Deed
  PROVE  /\ k.at = "insert" => k.kind \in Kinds /\ k.row \in ResourceRow
         /\ k.at = "update" => k.row \in Rows /\ k.name \in Names \cup {Blank} /\ k.active \in BOOLEAN
         /\ k.at = "delete" => k.row \in Rows
         /\ k.at = "link" => k.class \in Rows /\ k.subject \in Rows
BY DEF Deed, Idle

LEMMA ResourceRowsExist == \A row \in ResourceRow : row \notin Absent
BY ResourceRowAssumption

(* What a request of clerk c does to the row and the desk, method by method. *)
ResMoves(c) ==
  \/ \E kind \in Kinds, parent \in Rows \cup {Blank}, name \in Names, active \in BOOLEAN :
       Create(c, kind, parent, name, active) /\ Fits(parent)
  \/ \E kind \in Kinds, r \in Rows, name \in Names \cup {Blank}, active \in BOOLEAN :
       Update(c, kind, r, name, active)
  \/ \E r \in Rows : RemoveTenant(c, r) \/ RemoveSchool(c, r) \/ RemoveClass(c, r)
                     \/ RemoveSubject(c, r) \/ RemoveRoom(c, r)
  \/ \E kind \in Kinds, r \in Rows, rows \in SUBSET Rows, active \in BOOLEAN :
       SetActive(c, kind, r, rows, active) /\ \A q \in rows : Stored(q)
  \/ \E cl, su \in Rows : AssignSubject(c, cl, su) \/ UnassignSubject(c, cl, su)
  \/ \E p \in People, place \in Seat : SeatsAt(c, "enroll", p, place)
  \/ \E p \in People : SeatsAt(c, "dismiss", p, Blank)
  \/ Insert(c) \/ UpdateRow(c) \/ DeleteRow(c) \/ Link(c) \/ ResAbort(c)

LEMMA ResStepMoves ==
  ASSUME ResTypeOK, NEW c \in Clerks, ResStep(c)
  PROVE  ResMoves(c)
<1>1. ASSUME NEW r \in Rows, NEW name \in Names, NEW active \in BOOLEAN,
             \/ CreateTenant(c, name, active) \/ CreateSchool(c, r, name, active)
             \/ CreateClass(c, r, name, active) \/ CreateSubject(c, r, name, active)
             \/ CreateRoom(c, r, name, active)
      PROVE  ResMoves(c)
  BY <1>1 DEF CreateTenant, CreateSchool, CreateClass, CreateSubject, CreateRoom, Open, Rank, Fits,
              Kinds, Members, ResMoves
<1>2. ASSUME NEW name \in Names, NEW active \in BOOLEAN, CreateTenant(c, name, active)
      PROVE  ResMoves(c)
  BY <1>2 DEF CreateTenant, Fits, Kinds, ResMoves
<1>3. ASSUME NEW r \in Rows, NEW name \in Names \cup {Blank}, NEW active \in BOOLEAN,
             \/ UpdateTenant(c, r, name, active) \/ UpdateSchool(c, r, name, active)
             \/ UpdateClass(c, r, name, active) \/ UpdateSubject(c, r, name, active)
             \/ UpdateRoom(c, r, name, active)
      PROVE  ResMoves(c)
  BY <1>3 DEF UpdateTenant, UpdateSchool, UpdateClass, UpdateSubject, UpdateRoom, Kinds, Members,
              ResMoves
<1>4. ASSUME NEW r \in Rows,
             \/ DeactivateTenant(c, r) \/ ActivateTenant(c, r) \/ DeactivateSchool(c, r)
             \/ ActivateSchool(c, r) \/ DeactivateClass(c, r) \/ ActivateClass(c, r)
             \/ DeactivateSubject(c, r) \/ ActivateSubject(c, r)
             \/ DeactivateRoom(c, r) \/ ActivateRoom(c, r)
      PROVE  ResMoves(c)
  <2>1. /\ {r} \cup Under(r) \in SUBSET Rows /\ {r} \in SUBSET Rows
        /\ Stored(r) /\ \A q \in Under(r) : Stored(q)
    BY <1>4 DEF Under, Rank, SetActive, DeactivateTenant, ActivateTenant, DeactivateSchool,
                ActivateSchool, DeactivateClass, ActivateClass, DeactivateSubject, ActivateSubject,
                DeactivateRoom, ActivateRoom
  <2>2. \E kind \in Kinds, rows \in {{r} \cup Under(r), {r}}, active \in BOOLEAN :
          SetActive(c, kind, r, rows, active)
    BY <1>4 DEF Kinds, Members, DeactivateTenant, ActivateTenant, DeactivateSchool, ActivateSchool,
                DeactivateClass, ActivateClass, DeactivateSubject, ActivateSubject,
                DeactivateRoom, ActivateRoom
  <2> QED
    BY <2>1, <2>2 DEF ResMoves
<1>5. \A kind : RowsOf(kind) \subseteq Rows
  BY DEF RowsOf
<1>6. ASSUME PeopleStep(c)
      PROVE  ResMoves(c)
  <2>1. PICK p \in People :
          \/ \E t \in Rows, s \in Rows \cup {Blank} : EnrollUser(c, p, t, s) \/ MoveUser(c, p, t, s)
          \/ \E cl \in Rows \cup {Blank} : JoinClass(c, p, cl)
          \/ DismissUser(c, p)
    BY <1>5, <1>6 DEF PeopleStep
  <2>2. Blank \notin Rows /\ seat[p] \in Seat \cup {Blank}
    BY ResourceAssumption DEF ResTypeOK
  <2>3. ASSUME NEW t \in Rows, NEW s \in Rows \cup {Blank}, EnrollUser(c, p, t, s) \/ MoveUser(c, p, t, s)
        PROVE  ResMoves(c)
    <3>1. ASSUME NEW cl \in RowsOf("class") \cup {Blank},
                 SeatsAt(c, "enroll", p, [tenant |-> t, school |-> s, class |-> cl])
          PROVE  ResMoves(c)
      <4>1. [tenant |-> t, school |-> s, class |-> cl] \in Seat
        BY <2>3 DEF EnrollUser, MoveUser, Rank, RowsOf, Seat
      <4> QED
        BY <3>1, <4>1 DEF ResMoves
    <3>2. CASE EnrollUser(c, p, t, s)
      BY <3>1, <3>2 DEF EnrollUser
    <3>3. CASE MoveUser(c, p, t, s)
      <4>1. seat[p] \in Seat /\ seat[p].class \in RowsOf("class") \cup {Blank}
        BY <2>2, <3>3 DEF MoveUser, Seat
      <4> QED
        BY <3>1, <3>3, <4>1 DEF MoveUser
    <3> QED
      BY <2>3, <3>2, <3>3
  <2>4. ASSUME NEW cl \in Rows \cup {Blank}, JoinClass(c, p, cl)
        PROVE  ResMoves(c)
    <3>1. seat[p] \in Seat /\ cl \in RowsOf("class") \cup {Blank}
      BY <2>2, <2>4 DEF JoinClass, Rank, RowsOf
    <3>2. [seat[p] EXCEPT !.class = cl] \in Seat
      BY <3>1 DEF Seat
    <3> QED
      BY <2>4, <3>2 DEF JoinClass, ResMoves
  <2> QED
    BY <2>1, <2>3, <2>4 DEF DismissUser, ResMoves
<1> QED
  BY <1>1, <1>2, <1>3, <1>4, <1>5, <1>6
  DEF ResStep, TenantStep, SchoolStep, ClassStep, SubjectStep, RoomStep, ResMoves

LEMMA ResStepType ==
  ASSUME ResTypeOK, NEW c \in Clerks, ResMoves(c)
  PROVE  ResTypeOK'
<1>0. desk[c] \in Deed /\ Idle \in Deed
  BY DEF ResTypeOK, Deed
<1>1. CASE \E kind \in Kinds, parent \in Rows \cup {Blank}, name \in Names, active \in BOOLEAN :
             Create(c, kind, parent, name, active)
  <2>1. PICK kind \in Kinds, parent \in Rows \cup {Blank}, name \in Names, active \in BOOLEAN :
          Create(c, kind, parent, name, active)
    BY <1>1
  <2>2. [parent |-> parent, name |-> name, active |-> active] \in ResourceRow
    BY DEF ResourceRow
  <2>3. [at |-> "insert", kind |-> kind,
         row |-> [parent |-> parent, name |-> name, active |-> active]] \in Deed
    BY <2>2 DEF Deed
  <2> QED
    BY <2>1, <2>3 DEF Create, Turns, ResTypeOK
<1>2. CASE \E kind \in Kinds, r \in Rows, name \in Names \cup {Blank}, active \in BOOLEAN :
             Update(c, kind, r, name, active)
  BY <1>2 DEF Update, Turns, ResTypeOK, Deed
<1>3. CASE \E r \in Rows : RemoveTenant(c, r) \/ RemoveSchool(c, r) \/ RemoveClass(c, r)
                          \/ RemoveSubject(c, r) \/ RemoveRoom(c, r)
  <2>1. PICK r \in Rows : /\ desk' = [desk EXCEPT ![c] = [at |-> "delete", row |-> r]]
                         /\ UNCHANGED <<table, links, seat>>
    BY <1>3 DEF RemoveTenant, RemoveSchool, RemoveClass, RemoveSubject, RemoveRoom, Discard, Turns
  <2>2. [at |-> "delete", row |-> r] \in Deed
    BY DEF Deed
  <2> QED
    BY <2>1, <2>2 DEF ResTypeOK
<1>4. CASE \E kind \in Kinds, r \in Rows, rows \in SUBSET Rows, active \in BOOLEAN :
             SetActive(c, kind, r, rows, active) /\ \A q \in rows : Stored(q)
  <2>1. PICK kind \in Kinds, r \in Rows, rows \in SUBSET Rows, active \in BOOLEAN :
          SetActive(c, kind, r, rows, active) /\ \A q \in rows : Stored(q)
    BY <1>4
  <2>2. \A row \in ResourceRow : [row EXCEPT !.active = active] \in ResourceRow
    BY DEF ResourceRow
  <2>3. \A q \in rows : table[q] \in ResourceRow
    BY <2>1 DEF Stored, ResTypeOK
  <2> QED
    BY <2>1, <2>2, <2>3 DEF SetActive, ResTypeOK
<1>5. CASE \E cl, su \in Rows : AssignSubject(c, cl, su) \/ UnassignSubject(c, cl, su)
  BY <1>5 DEF AssignSubject, UnassignSubject, Turns, ResTypeOK, Deed
<1>6. CASE Insert(c)
  BY <1>0, <1>6, DeedFields DEF Insert, Closes, Turns, ResTypeOK
<1>7. CASE UpdateRow(c)
  <2>1. PICK r \in Rows, name \in Names \cup {Blank}, active \in BOOLEAN :
          r = desk[c].row /\ name = desk[c].name /\ active = desk[c].active
    BY <1>0, <1>7, DeedFields DEF UpdateRow
  <2>2. table[r] \in ResourceRow /\ Kept(name, table[r].name) \in Names
    BY <1>7, <2>1 DEF UpdateRow, Stored, ResTypeOK, ResourceRow, Kept
  <2>3. [table[r] EXCEPT !.name = Kept(name, table[r].name), !.active = active] \in ResourceRow
    BY <2>2 DEF ResourceRow
  <2>4. table' = [table EXCEPT
          ![r] = [table[r] EXCEPT !.name = Kept(name, table[r].name), !.active = active]]
    BY <1>7, <2>1, <2>2 DEF UpdateRow, ResTypeOK, ResourceRow
  <2> QED
    BY <1>0, <1>7, <2>3, <2>4 DEF UpdateRow, Closes, Turns, ResTypeOK
<1>8. CASE DeleteRow(c)
  <2>1. \A p \in People, lost \in SUBSET Rows : Unseated(seat[p], lost) \in Seat \cup {Blank}
    BY <1>0 DEF Unseated, Seat, ResTypeOK
  <2>2. {desk[c].row} \cup Below(desk[c].row) \in SUBSET Rows
    BY <1>0, <1>8, DeedFields DEF DeleteRow, Below, Under
  <2> QED
    BY <1>0, <1>8, <2>1, <2>2 DEF DeleteRow, Closes, Turns, ResTypeOK, Absent
<1>9. CASE Link(c)
  BY <1>0, <1>9, DeedFields DEF Link, Closes, Turns, ResTypeOK
<1>10. CASE ResAbort(c)
  BY <1>0, <1>10 DEF ResAbort, Closes, Turns, ResTypeOK
<1>11. CASE \E p \in People, place \in Seat \cup {Blank}, method \in ResourceMethods :
              SeatsAt(c, method, p, place)
  BY <1>11 DEF SeatsAt, ResTypeOK
<1> QED
  BY <1>1, <1>2, <1>3, <1>4, <1>5, <1>6, <1>7, <1>8, <1>9, <1>10, <1>11 DEF ResMoves, ResourceMethods

(* Rows, links and people go; no row appears or changes its parent, and nobody
   comes to a row. *)
RowsLeave ==
  /\ \A r \in Rows : table'[r] \notin Absent => Stored(r) /\ table'[r].parent = table[r].parent
  /\ links' \subseteq links
  /\ \A p \in People : seat'[p] # Blank =>
       /\ seat[p] # Blank
       /\ seat'[p].tenant = seat[p].tenant
       /\ seat'[p].school \in {seat[p].school, Blank}
       /\ seat'[p].class \in {seat[p].class, Blank}

LEMMA RowsLeaveInv ==
  ASSUME ResInv, ResTypeOK', RowsLeave,
         \A c \in Clerks : desk'[c] = desk[c] \/ desk'[c].at \in {"idle", "update"}
  PROVE  ResInv'
<1>1. RowsFit'
  BY DEF ResInv, RowsFit, RowsLeave, Stored, Fits
<1>2. DeedsFit'
  BY DEF ResInv, DeedsFit, Fits
<1>3. RemovedAreBare'
  <2>1. \A x \in Rows : Bare(x) => Bare(x)'
    <3> SUFFICES ASSUME NEW x \in Rows, Bare(x) PROVE Bare(x)'
      OBVIOUS
    <3>1. x # Blank
      BY ResourceAssumption
    <3>2. PeopleAt(x)' = {}
      BY <3>1 DEF Bare, RowsLeave, PeopleAt
    <3> QED
      BY <3>2 DEF Bare, RowsLeave, Stored
  <2> QED
    BY <2>1 DEF ResInv, RemovedAreBare
<1> QED
  BY <1>1, <1>2, <1>3 DEF ResInv

(* What no clerk but the one who removes may do leaves nothing to be deleted. *)
LEMMA NoRemoval ==
  ASSUME ResInv, RemovalSerialised, NEW c \in Clerks, Offices[c] \cap {"create", "assign", "enroll"} # {},
         \A d \in Clerks \ {c} : desk'[d] = desk[d], desk'[c].at # "delete"
  PROVE  RemovedAreBare'
BY DEF ResInv, DeedsFit, RemovedAreBare, RemovalSerialised

LEMMA ResStepInv ==
  ASSUME ResInv, RemovalSerialised, NEW c \in Clerks, ResMoves(c)
  PROVE  ResInv'
<1>0. /\ ResTypeOK /\ ResTypeOK' /\ desk \in [Clerks -> Deed] /\ desk[c] \in Deed
      /\ Idle.at = "idle" /\ \A k \in Deed : k.at = "delete" => k.row \in Rows
  BY ResStepType, DeedFields DEF ResInv, ResTypeOK, Idle
<1>1. CASE \E kind \in Kinds, parent \in Rows \cup {Blank}, name \in Names, active \in BOOLEAN :
             Create(c, kind, parent, name, active) /\ Fits(parent)
  <2>1. PICK kind \in Kinds, parent \in Rows \cup {Blank}, name \in Names, active \in BOOLEAN :
          Create(c, kind, parent, name, active) /\ Fits(parent)
    BY <1>1
  <2>2. /\ UNCHANGED <<table, links, seat>> /\ "create" \in Offices[c]
        /\ desk' = [desk EXCEPT ![c] = [at |-> "insert", kind |-> kind,
                      row |-> [parent |-> parent, name |-> name, active |-> active]]]
    BY <2>1 DEF Create, Takes, Turns
  <2>3. /\ desk'[c].at = "insert" /\ desk'[c].row.parent = parent
        /\ \A d \in Clerks \ {c} : desk'[d] = desk[d]
    BY <1>0, <2>2
  <2>4. DeedsFit'
    BY <2>1, <2>2, <2>3 DEF ResInv, DeedsFit, Fits
  <2>5. RowsFit' /\ RemovedAreBare'
    BY <2>2, <2>3 DEF ResInv, RowsFit, RemovedAreBare, Bare, PeopleAt, Stored, Fits
  <2> QED
    BY <1>0, <2>4, <2>5 DEF ResInv
<1>2. CASE \E kind \in Kinds, r \in Rows, name \in Names \cup {Blank}, active \in BOOLEAN :
             Update(c, kind, r, name, active)
  <2>1. RowsLeave /\ \A d \in Clerks : desk'[d] = desk[d] \/ desk'[d].at \in {"idle", "update"}
    BY <1>0, <1>2 DEF Update, Turns, RowsLeave, Stored
  <2> QED
    BY <1>0, <2>1, RowsLeaveInv
<1>3. CASE \E r \in Rows : RemoveTenant(c, r) \/ RemoveSchool(c, r) \/ RemoveClass(c, r)
                          \/ RemoveSubject(c, r) \/ RemoveRoom(c, r)
  <2>1. PICK r \in Rows : RemoveTenant(c, r) \/ RemoveSchool(c, r) \/ RemoveClass(c, r)
                        \/ RemoveSubject(c, r) \/ RemoveRoom(c, r)
    BY <1>3
  <2>2. /\ desk' = [desk EXCEPT ![c] = [at |-> "delete", row |-> r]]
        /\ UNCHANGED <<table, links, seat>> /\ "remove" \in Offices[c]
    BY <2>1 DEF RemoveTenant, RemoveSchool, RemoveClass, RemoveSubject, RemoveRoom, Discard, Turns, Takes
  <2>3. ASSUME RemoveTenant(c, r) \/ RemoveSchool(c, r) PROVE Bare(r)
    <3>1. Under(r) = {} /\ PeopleAt(r) = {} /\ KindOf[r] \notin {"class", "subject"}
      BY <2>3 DEF RemoveTenant, RemoveSchool, Discard, Rank
    <3> QED
      BY <3>1 DEF Under, Bare, ResInv, RowsFit
  <2>4. ASSUME RemoveClass(c, r) \/ RemoveSubject(c, r) PROVE Bare(r)
    <3>1. /\ LinksOf(r) = {} /\ KindOf[r] \notin {"tenant", "school"} /\ r # Blank
          /\ KindOf[r] = "subject" \/ PeopleAt(r) = {}
      BY <2>4, ResourceAssumption DEF RemoveClass, RemoveSubject, Discard, Rank
    <3>2. PeopleAt(r) = {}
      BY <3>1 DEF PeopleAt, ResInv, ResTypeOK, Seat, RowsOf
    <3> QED
      BY <3>1, <3>2 DEF LinksOf, Bare, ResInv, RowsFit, Fits
  <2>5. ASSUME RemoveRoom(c, r) PROVE Bare(r)
    <3>1. KindOf[r] = "room" /\ r # Blank
      BY <2>5, ResourceAssumption DEF RemoveRoom, Discard, Rank
    <3>2. PeopleAt(r) = {}
      BY <3>1 DEF PeopleAt, ResInv, ResTypeOK, Seat, RowsOf
    <3> QED
      BY <3>1, <3>2 DEF Bare, ResInv, RowsFit, Fits
  <2>6. Bare(r)
    BY <2>1, <2>3, <2>4, <2>5
  <2>7. \A x \in Rows : Bare(x) => Bare(x)'
    BY <2>2 DEF Bare, PeopleAt, Stored
  <2>8. /\ desk'[c].at = "delete" /\ desk'[c].row = r
        /\ \A d \in Clerks \ {c} : desk'[d] = desk[d]
    BY <1>0, <2>2
  <2>9. RemovedAreBare'
    BY <2>6, <2>7, <2>8 DEF ResInv, RemovedAreBare
  <2>10. RowsFit' /\ DeedsFit'
    BY <2>2, <2>8 DEF ResInv, RowsFit, DeedsFit, Stored, Fits
  <2> QED
    BY <1>0, <2>9, <2>10 DEF ResInv
<1>4. CASE \E kind \in Kinds, r \in Rows, rows \in SUBSET Rows, active \in BOOLEAN :
             SetActive(c, kind, r, rows, active) /\ \A q \in rows : Stored(q)
  <2>1. PICK kind \in Kinds, r \in Rows, rows \in SUBSET Rows, active \in BOOLEAN :
          SetActive(c, kind, r, rows, active) /\ \A q \in rows : Stored(q)
    BY <1>4
  <2>2. \A row \in ResourceRow : [row EXCEPT !.active = active].parent = row.parent
    BY DEF ResourceRow
  <2>3. RowsLeave /\ desk' = desk
    BY <1>0, <2>1, <2>2 DEF SetActive, RowsLeave, Stored, ResTypeOK
  <2> QED
    BY <1>0, <2>3, RowsLeaveInv
<1>5. CASE \E cl, su \in Rows : AssignSubject(c, cl, su)
  <2>1. PICK cl \in Rows, su \in Rows : AssignSubject(c, cl, su)
    BY <1>5
  <2>2. /\ UNCHANGED <<table, links, seat>> /\ "assign" \in Offices[c]
        /\ desk' = [desk EXCEPT ![c] = [at |-> "link", class |-> cl, subject |-> su]]
        /\ KindOf[cl] = "class" /\ KindOf[su] = "subject"
    BY <2>1 DEF AssignSubject, Takes, Turns, Rank
  <2>3. /\ desk'[c].at = "link" /\ desk'[c].class = cl /\ desk'[c].subject = su
        /\ \A d \in Clerks \ {c} : desk'[d] = desk[d]
    BY <1>0, <2>2
  <2>4. DeedsFit'
    BY <2>2, <2>3 DEF ResInv, DeedsFit, Fits
  <2>5. RowsFit' /\ RemovedAreBare'
    BY <2>2, <2>3 DEF ResInv, RowsFit, RemovedAreBare, Bare, PeopleAt, Stored, Fits
  <2> QED
    BY <1>0, <2>4, <2>5 DEF ResInv
<1>6. CASE \E cl, su \in Rows : UnassignSubject(c, cl, su)
  <2>1. RowsLeave /\ desk' = desk
    BY <1>6 DEF UnassignSubject, RowsLeave, Stored
  <2> QED
    BY <1>0, <2>1, RowsLeaveInv
<1>7. CASE Insert(c)
  <2>1. PICK r \in Rows : table[r] = Unused /\ table' = [table EXCEPT ![r] = desk[c].row]
    BY <1>7 DEF Insert
  <2>2. /\ desk[c].at = "insert" /\ links' = links /\ seat' = seat /\ desk'[c] = Idle
        /\ \A d \in Clerks \ {c} : desk'[d] = desk[d]
    BY <1>0, <1>7 DEF Insert, Closes, Turns
  <2>3. "create" \in Offices[c] /\ Fits(desk[c].row.parent)
    BY <2>2 DEF ResInv, DeedsFit
  <2>4. RowsFit'
    BY <1>0, <2>1, <2>2, <2>3 DEF ResInv, RowsFit, ResTypeOK, Stored, Fits
  <2>5. DeedsFit'
    BY <1>0, <2>2 DEF ResInv, DeedsFit, Fits
  <2> QED
    BY <1>0, <2>2, <2>3, <2>4, <2>5, NoRemoval DEF ResInv
<1>8. CASE UpdateRow(c)
  <2>1. PICK r \in Rows, name \in Names \cup {Blank}, active \in BOOLEAN :
          r = desk[c].row /\ name = desk[c].name /\ active = desk[c].active
    BY <1>0, <1>8, DeedFields DEF UpdateRow
  <2>2. table[r] \in ResourceRow
    BY <1>0, <1>8, <2>1 DEF UpdateRow, Stored, ResTypeOK
  <2>3. table' = [table EXCEPT
          ![r] = [table[r] EXCEPT !.name = Kept(name, table[r].name), !.active = active]]
    BY <1>0, <1>8, <2>1, <2>2 DEF UpdateRow, ResTypeOK, ResourceRow
  <2>4. [table[r] EXCEPT !.name = Kept(name, table[r].name), !.active = active].parent = table[r].parent
    BY <2>2 DEF ResourceRow
  <2>5. Stored(r)
    BY <1>8, <2>1 DEF UpdateRow
  <2>6. RowsLeave
    BY <1>0, <1>8, <2>3, <2>4, <2>5 DEF RowsLeave, Stored, ResTypeOK, UpdateRow
  <2>7. \A d \in Clerks : desk'[d] = desk[d] \/ desk'[d].at \in {"idle", "update"}
    BY <1>0, <1>8 DEF UpdateRow, Closes, Turns
  <2> QED
    BY <1>0, <2>6, <2>7, RowsLeaveInv
<1>9. CASE DeleteRow(c)
  <2>1. \A p \in People, lost \in SUBSET Rows : Unseated(seat[p], lost) # Blank =>
          /\ seat[p] # Blank /\ Unseated(seat[p], lost).tenant = seat[p].tenant
          /\ Unseated(seat[p], lost).school \in {seat[p].school, Blank}
          /\ Unseated(seat[p], lost).class \in {seat[p].class, Blank}
    BY DEF Unseated
  <2>2. {desk[c].row} \cup Below(desk[c].row) \in SUBSET Rows
    BY <1>0, <1>9 DEF DeleteRow, Below, Under
  <2>3. RowsLeave
    BY <1>9, <2>1, <2>2 DEF DeleteRow, RowsLeave, Stored, Absent
  <2>4. \A d \in Clerks : desk'[d] = desk[d] \/ desk'[d].at \in {"idle", "update"}
    BY <1>0, <1>9 DEF DeleteRow, Closes, Turns
  <2> QED
    BY <1>0, <2>3, <2>4, RowsLeaveInv
<1>10. CASE Link(c)
  <2>1. /\ desk[c].at = "link" /\ links' = links \cup {<<desk[c].class, desk[c].subject>>}
        /\ table' = table /\ seat' = seat /\ desk'[c] = Idle
        /\ \A d \in Clerks \ {c} : desk'[d] = desk[d]
    BY <1>0, <1>10 DEF Link, Closes, Turns
  <2>2. /\ "assign" \in Offices[c]
        /\ KindOf[desk[c].class] = "class" /\ KindOf[desk[c].subject] = "subject"
    BY <2>1 DEF ResInv, DeedsFit
  <2>3. RowsFit' /\ DeedsFit'
    BY <1>0, <2>1, <2>2 DEF ResInv, RowsFit, DeedsFit, Stored, Fits
  <2> QED
    BY <1>0, <2>1, <2>2, <2>3, NoRemoval DEF ResInv
<1>11. CASE ResAbort(c)
  <2>1. RowsLeave /\ \A d \in Clerks : desk'[d] = desk[d] \/ desk'[d].at \in {"idle", "update"}
    BY <1>0, <1>11 DEF ResAbort, Closes, Turns, RowsLeave, Stored
  <2> QED
    BY <1>0, <2>1, RowsLeaveInv
<1>12. CASE \E p \in People, place \in Seat : SeatsAt(c, "enroll", p, place)
  <2>1. PICK p \in People, place \in Seat : SeatsAt(c, "enroll", p, place)
    BY <1>12
  <2>2. /\ "enroll" \in Offices[c] /\ desk[c] = Idle /\ UNCHANGED <<table, links, desk>>
        /\ seat' = [seat EXCEPT ![p] = place]
    BY <2>1 DEF SeatsAt, Takes
  <2>3. RowsFit'
    BY <1>0, <2>1, <2>2 DEF ResInv, RowsFit, ResTypeOK, Stored, Fits
  <2>4. DeedsFit'
    BY <2>2 DEF ResInv, DeedsFit, Fits
  <2> QED
    BY <1>0, <2>2, <2>3, <2>4, NoRemoval DEF ResInv
<1>13. CASE \E p \in People : SeatsAt(c, "dismiss", p, Blank)
  <2>1. RowsLeave /\ desk' = desk
    BY <1>0, <1>13 DEF SeatsAt, RowsLeave, ResTypeOK, Stored
  <2> QED
    BY <1>0, <2>1, RowsLeaveInv
<1> QED
  BY <1>1, <1>2, <1>3, <1>4, <1>5, <1>6, <1>7, <1>8, <1>9, <1>10, <1>11, <1>12, <1>13 DEF ResMoves

LEMMA ResInvHolds ==
  ASSUME RemovalSerialised
  PROVE  ResSpec => []ResInv
<1>1. ResInit => ResInv
  <2> SUFFICES ASSUME ResInit PROVE ResInv
    OBVIOUS
  <2>1. ResTypeOK
    BY DEF ResInit, ResTypeOK, Absent, Deed
  <2>2. links = {} /\ (\A p \in People : seat[p] = Blank) /\ (\A r \in Rows : ~ Stored(r)) /\ \A c \in Clerks : desk[c].at = "idle"
    BY DEF ResInit, Stored, Absent, Idle
  <2> QED
    BY <2>1, <2>2 DEF ResInv, RowsFit, DeedsFit, RemovedAreBare
<1>2. ResInv /\ [ResNext]_resVars => ResInv'
  <2>1. ASSUME ResInv, UNCHANGED resVars PROVE ResInv'
    BY <2>1 DEF resVars, ResInv, ResTypeOK, RowsFit, DeedsFit, RemovedAreBare, Bare, PeopleAt, Stored,
                 Fits
  <2> QED
    BY <2>1, ResStepMoves, ResStepInv DEF ResNext, ResInv
<1> QED
  BY <1>1, <1>2, PTL DEF ResSpec

(* A removal destroys the row it names and nothing else ("Please remove all
   associated data first"), although the checks are calls before the deletion and
   the database deletes whatever hangs on the row: if a clerk who removes has the
   creations, the assignments and the users who come to itself.  Renames, changes of status and removals
   of subjects may run beside it, on any number of rows. *)
THEOREM RemovalSafe ==
  ASSUME RemovalSerialised
  PROVE  ResSpec => RemovalDestroysNothing
<1> DEFINE Safe ==
      \A c \in Clerks :
        desk[c].at = "delete" /\ table'[desk[c].row] # table[desk[c].row] /\ desk'[c] = Idle =>
          /\ links' = links /\ seat' = seat
          /\ \A r \in Rows \ {desk[c].row} : table'[r] = table[r]
<1>1. ASSUME ResInv, NEW d \in Clerks, ResMoves(d) PROVE Safe
  <2> SUFFICES ASSUME NEW c \in Clerks, desk[c].at = "delete",
                      table'[desk[c].row] # table[desk[c].row], desk'[c] = Idle
               PROVE  /\ links' = links /\ seat' = seat
                      /\ \A r \in Rows \ {desk[c].row} : table'[r] = table[r]
    OBVIOUS
  <2>1. /\ desk \in [Clerks -> Deed] /\ desk[c] \in Deed /\ table \in [Rows -> ResourceRow \cup Absent]
        /\ Idle.at = "idle" /\ desk[c] # desk'[c]
    BY <1>1 DEF ResInv, ResTypeOK, Idle
  <2>2. PICK x \in Rows : x = desk[c].row
    BY <2>1, DeedFields
  <2>3. Bare(x)
    BY <1>1, <2>2 DEF ResInv, RemovedAreBare
  <2>4. c = d
    BY <1>1, <2>1 DEF ResMoves, Create, Update, RemoveTenant, RemoveSchool, RemoveClass, RemoveSubject,
       RemoveRoom, Discard, SetActive, AssignSubject, UnassignSubject, SeatsAt, Insert, UpdateRow,
       DeleteRow, Link, ResAbort, Closes, Turns
  <2>5. DeleteRow(c)
    BY <1>1, <2>1, <2>4 DEF ResMoves, Create, Update, RemoveTenant, RemoveSchool, RemoveClass,
       RemoveSubject, RemoveRoom, Discard, SetActive, AssignSubject, UnassignSubject, SeatsAt, Insert,
       UpdateRow, Link, ResAbort, Takes
  <2>6. Under(x) = {} /\ Below(x) = {} /\ LinksOf(x) = {} /\ PeopleAt(x) = {} /\ x # Blank
    BY <2>3, ResourceAssumption DEF Bare, Under, Below, LinksOf
  <2>7. \A p \in People : Unseated(seat[p], {x}) = seat[p]
    <3> SUFFICES ASSUME NEW p \in People, seat[p] # Blank PROVE Unseated(seat[p], {x}) = seat[p]
      BY DEF Unseated
    <3>1. seat[p] \in Seat /\ x \notin {seat[p].tenant, seat[p].school, seat[p].class}
      BY <1>1, <2>6 DEF PeopleAt, ResInv, ResTypeOK
    <3>2. seat[p] = [tenant |-> seat[p].tenant, school |-> seat[p].school, class |-> seat[p].class]
      BY <3>1 DEF Seat
    <3> QED
      BY <3>1, <3>2 DEF Unseated
  <2>8. seat' = [p \in People |-> Unseated(seat[p], {x})] /\ seat \in [People -> Seat \cup {Blank}]
    BY <1>1, <2>2, <2>5, <2>6 DEF DeleteRow, ResInv, ResTypeOK
  <2> QED
    BY <2>1, <2>2, <2>5, <2>6, <2>7, <2>8 DEF DeleteRow
<1>2. ResInv /\ [ResNext]_resVars => [Safe]_resVars
  BY <1>1, ResStepMoves DEF ResNext, ResInv
<1> QED
  BY <1>2, ResInvHolds, PTL DEF ResSpec, RemovalDestroysNothing

(***************************************************************************)
(* Notification preferences: the answer follows what was written           *)
(***************************************************************************)

(* Only a writer that saves stands before a search or the write after it. *)
OnLane ==
  \A w \in Writers : writer[w].at \in {"find", "save"} => Writes[w] \cap Saving # {}

(* A row that was found has the key it was searched for as long as it is there,
   and where none was found there is none. *)
Holds(r) ==
  LET key == Head(r.items).key IN
  /\ r.row = Blank => Found(key) = {}
  /\ r.row # Blank => choice[r.row] = Gone \/ (Here(r.row) /\ choice[r.row].key = key)

SearchHolds == \A w \in Writers : writer[w].at = "save" => Holds(writer[w])

(* A row tells what was last written for its key; a key without a row has
   nothing written. *)
RowsAsWritten ==
  /\ \A i \in WishRows : Here(i) => wanted[choice[i].key] = choice[i].set
  /\ \A k \in Keys : Found(k) = {} => wanted[k] = Blank

OneRow ==
  \A i, j \in WishRows : Here(i) /\ Here(j) /\ choice[i].key = choice[j].key => i = j

WishCore == PrefTypeOK /\ OnLane
WriteInv == WishCore /\ SearchHolds /\ RowsAsWritten /\ OneRow

LEMMA MergedType ==
  ASSUME NEW row \in Settings, NEW dto \in Edits
  PROVE  Merged(row, dto) \in Settings
<1>1. Kept(dto.enabled, row.enabled) \in BOOLEAN
  BY DEF Settings, Edits, Kept
<1>2. Kept(dto.channels, row.channels) \in SUBSET Channels
  <2>1. row.channels \in SUBSET Channels
    BY DEF Settings
  <2>2. dto.channels \in (SUBSET Channels) \cup {Blank}
    BY DEF Edits
  <2>3. CASE dto.channels = Blank
    <3>1. Kept(dto.channels, row.channels) = row.channels
      BY <2>3 DEF Kept
    <3> QED BY <2>1, <3>1, Zenon
  <2>4. CASE dto.channels # Blank
    <3>1. dto.channels \in SUBSET Channels
      BY <2>2, <2>4
    <3>2. Kept(dto.channels, row.channels) = dto.channels
      BY <2>4 DEF Kept
    <3> QED BY <3>1, <3>2, Zenon
  <2> QED BY <2>3, <2>4
<1>3. Kept(dto.quiet, row.quiet) \in Hours \cup {Blank}
  BY DEF Settings, Edits, Kept
<1>4. Kept(dto.zone, row.zone) \in Zones \cup {Blank}
  BY DEF Settings, Edits, Kept
<1> QED BY <1>1, <1>2, <1>3, <1>4 DEF Settings, Merged

LEMMA SettingsAreEdits == Settings \subseteq Edits
BY DEF Settings, Edits

LEMMA PlainType == \A dto \in Wishes : Plain(dto) \in Wishes
BY DEF Wishes, Plain, Settings

LEMMA DefaultType == \A type \in Types : DefaultFor(type) \in Settings
BY PreferenceAssumption DEF DefaultFor, OwnChannel, Settings, Types

LEMMA DefaultsType == Defaults \in Seq(Wishes) \ {<< >>}
<1>1. ASSUME NEW n \in 1 .. 5
      PROVE  <<"EMAIL", "SMS", "PUSH", "WEBSOCKET", "IN_APP">>[n] \in Types
  BY DEF Types
<1>2. ASSUME NEW n \in 1 .. 5 PROVE Defaults[n] \in Wishes
  BY <1>1, DefaultType DEF Defaults, Wishes, Keys
<1>3. Defaults = [n \in 1 .. 5 |-> Defaults[n]]
  BY DEF Defaults
<1>4. Defaults \in [1 .. 5 -> Wishes]
  BY <1>2, <1>3
<1>5. Defaults \in Seq(Wishes)
  <2>1. \A n \in Nat : [1 .. n -> Wishes] \subseteq Seq(Wishes)
    OBVIOUS
  <2> QED BY <1>4, <2>1
<1>6. 1 \in DOMAIN Defaults
  BY <1>4
<1> QED BY <1>5, <1>6

LEMMA ErrandFields ==
  ASSUME NEW r \in Errand \cup {Idle}
  PROVE  /\ r.at \in {"idle", "find", "save", "update", "delete"}
         /\ r.at \in {"find", "save"} => /\ r.items \in Seq(Wishes) \ {<< >>} /\ r.how \in Saving
                                         /\ Head(r.items) \in Wishes
         /\ r.at = "save" => r.row \in WishRows \cup {Blank}
         /\ r.at = "update" => r.row \in WishRows /\ r.set \in Edits
         /\ r.at = "delete" => r.row \in WishRows
BY DEF Errand, Idle

LEMMA WishInit == PrefInit => WriteInv
<1> SUFFICES ASSUME PrefInit PROVE WriteInv
  OBVIOUS
<1>1. WishCore
  BY PreferenceAssumption DEF PrefInit, WishCore, PrefTypeOK, OnLane, Idle, Absent
<1>2. SearchHolds
  BY DEF PrefInit, SearchHolds, Idle
<1>3. RowsAsWritten /\ OneRow
  BY DEF PrefInit, RowsAsWritten, OneRow, Here, Absent
<1> QED BY <1>1, <1>2, <1>3 DEF WriteInv

(* What the requests carry, action by action. *)
LEMMA OnwardCore ==
  ASSUME WishCore, NEW w \in Writers, writer[w].at \in {"find", "save"}, Onward(w)
  PROVE  /\ writer' \in [Writers -> Errand \cup {Idle}] /\ OnLane'
         /\ writer'[w].at \in {"idle", "find"}
         /\ \A v \in Writers \ {w} : writer'[v] = writer[v]
<1> DEFINE items == writer[w].items
           next == Search(w, Tail(items), writer[w].how)
<1>1. items \in Seq(Wishes) \ {<< >>} /\ writer[w].how \in Saving
  BY ErrandFields DEF WishCore, PrefTypeOK
<1>2. Len(items) # 1 => Tail(items) \in Seq(Wishes) \ {<< >>}
  <2> HIDE DEF items
  <2>1. Len(items) \in Nat /\ Len(items) # 0
    BY <1>1
  <2>2. Tail(items) \in Seq(Wishes) /\ Len(Tail(items)) = Len(items) - 1
    BY <1>1
  <2> QED BY <2>1, <2>2
<1>3. Len(items) # 1 => next \in Errand /\ next.at = "find"
  BY <1>1, <1>2 DEF Search, Errand
<1>4. \/ writer' = [writer EXCEPT ![w] = Idle]
      \/ Len(items) # 1 /\ writer' = [writer EXCEPT ![w] = next]
  BY DEF Onward, Proceed
<1> QED
  <2> HIDE DEF next
  <2> QED BY <1>3, <1>4 DEF WishCore, PrefTypeOK, OnLane, Idle

(* The other requests go on as they were. *)
Alone(w) == \A v \in Writers \ {w} : writer'[v] = writer[v]

LEMMA ReadStep ==
  ASSUME WriteInv, NEW w \in Writers,
         \/ \E dto \in SaveDtos : Save(w, dto) \/ \E next \in SaveDtos : BulkUpdate(w, dto, next)
         \/ \E i \in WishRows : DeleteFind(w, i) \/ \E dto \in EditDtos : UpdateFind(w, i, dto)
         \/ Find(w) \/ PrefFails(w)
  PROVE  WriteInv'
<1> USE DEF WriteInv, WishCore, PrefTypeOK
<1>1. UNCHANGED <<choice, wanted>>
  BY DEF Save, BulkUpdate, DeleteFind, UpdateFind, Find, PrefFails
<1>2. writes' \in 0 .. MaxWrites
  <2>1. UNCHANGED writes \/ (writes < MaxWrites /\ writes' = writes + 1)
    BY DEF Save, BulkUpdate, DeleteFind, UpdateFind, Find, PrefFails, Opens
  <2> QED BY <2>1, PreferenceAssumption
<1>3. /\ writer' \in [Writers -> Errand \cup {Idle}] /\ OnLane' /\ Alone(w)
      /\ writer'[w].at = "save" => Find(w)
  <2>1. ASSUME NEW dto \in SaveDtos, Save(w, dto)
        PROVE  /\ writer' \in [Writers -> Errand \cup {Idle}] /\ OnLane' /\ Alone(w)
               /\ writer'[w].at # "save"
    <3> DEFINE r == Search(w, <<dto>>, "save")
    <3>1. r \in Errand /\ r.at = "find"
      BY PreferenceAssumption DEF Search, Errand, Saving
    <3>2. writer' = [writer EXCEPT ![w] = r] /\ "save" \in Writes[w]
      BY <2>1 DEF Save, Proceed, Opens
    <3> HIDE DEF r
    <3> QED BY <3>1, <3>2 DEF OnLane, Alone, Saving
  <2>2. ASSUME NEW dto \in SaveDtos, NEW next \in SaveDtos, BulkUpdate(w, dto, next)
        PROVE  /\ writer' \in [Writers -> Errand \cup {Idle}] /\ OnLane' /\ Alone(w)
               /\ writer'[w].at # "save"
    <3> DEFINE r == Search(w, <<Plain(dto), Plain(next)>>, "bulk")
    <3>1. Plain(dto) \in Wishes /\ Plain(next) \in Wishes
      BY PreferenceAssumption, PlainType
    <3>2. r \in Errand /\ r.at = "find"
      BY <3>1 DEF Search, Errand, Saving
    <3>3. writer' = [writer EXCEPT ![w] = r] /\ "bulk" \in Writes[w]
      BY <2>2 DEF BulkUpdate, Proceed, Opens
    <3> HIDE DEF r
    <3> QED BY <3>2, <3>3 DEF OnLane, Alone, Saving
  <2>3. ASSUME NEW i \in WishRows, DeleteFind(w, i)
        PROVE  /\ writer' \in [Writers -> Errand \cup {Idle}] /\ OnLane' /\ Alone(w)
               /\ writer'[w].at # "save"
    BY <2>3 DEF DeleteFind, Proceed, Errand, OnLane, Alone
  <2>4. ASSUME NEW i \in WishRows, NEW dto \in EditDtos, UpdateFind(w, i, dto)
        PROVE  /\ writer' \in [Writers -> Errand \cup {Idle}] /\ OnLane' /\ Alone(w)
               /\ writer'[w].at # "save"
    BY <2>4, PreferenceAssumption DEF UpdateFind, Proceed, Errand, OnLane, Alone
  <2>5. CASE Find(w)
    <3>1. writer[w].items \in Seq(Wishes) \ {<< >>} /\ writer[w].how \in Saving
      BY <2>5, ErrandFields DEF Find
    <3>2. PICK i \in WishRows \cup {Blank} :
            writer' = [writer EXCEPT ![w] =
              [at |-> "save", row |-> i, items |-> writer[w].items, how |-> writer[w].how]]
      BY <2>5 DEF Find, Proceed, Found
    <3> QED BY <2>5, <3>1, <3>2 DEF Find, Errand, OnLane, Alone
  <2>6. CASE PrefFails(w)
    BY <2>6, OnwardCore DEF PrefFails, Proceed, OnLane, Alone, Idle
  <2> QED BY <2>1, <2>2, <2>3, <2>4, <2>5, <2>6
<1>4. \A r : Holds(r)' <=> Holds(r)
  BY <1>1 DEF Holds, Found, Here
<1>5. Find(w) => Holds(writer'[w])
  <2> SUFFICES ASSUME Find(w) PROVE Holds(writer'[w])
    OBVIOUS
  <2> DEFINE key == Head(writer[w].items).key
  <2>1. PICK i \in (IF Found(key) = {} THEN {Blank} ELSE Found(key)) :
          writer' = [writer EXCEPT ![w] =
            [at |-> "save", row |-> i, items |-> writer[w].items, how |-> writer[w].how]]
    BY DEF Find, Proceed
  <2>2. writer'[w].items = writer[w].items /\ writer'[w].row = i
    BY <2>1
  <2>3. i = Blank => Found(key) = {}
    BY <2>1, PreferenceAssumption DEF Found
  <2>4. i # Blank => Here(i) /\ choice[i].key = key
    BY <2>1 DEF Found
  <2> QED BY <2>2, <2>3, <2>4 DEF Holds
<1>6. SearchHolds'
  <2> SUFFICES ASSUME NEW v \in Writers, writer'[v].at = "save" PROVE Holds(writer'[v])
    BY <1>4 DEF SearchHolds
  <2> QED BY <1>3, <1>5 DEF SearchHolds, Alone
<1>7. RowsAsWritten' /\ OneRow'
  BY <1>1 DEF RowsAsWritten, OneRow, Here, Found
<1> QED BY <1>1, <1>2, <1>3, <1>6, <1>7

(* A row and what was written for its key change alike. *)
LEMMA ModifyStep ==
  ASSUME WriteInv, NEW i \in WishRows, NEW d \in Edits, Here(i),
         choice' = [choice EXCEPT ![i].set = Merged(@, d)], Written(choice[i].key, d)
  PROVE  /\ choice' \in [WishRows -> Wishes \cup Absent]
         /\ wanted' \in [Keys -> Settings \cup {Blank}]
         /\ \A r : Holds(r) /\ r.row \in WishRows \cup {Blank} => Holds(r)'
         /\ RowsAsWritten' /\ OneRow'
<1> DEFINE key == choice[i].key
           new == Merged(choice[i].set, d)
<1>1. /\ choice \in [WishRows -> Wishes \cup Absent] /\ wanted \in [Keys -> Settings \cup {Blank}]
      /\ choice[i] \in Wishes
  BY DEF WriteInv, WishCore, PrefTypeOK, Here
<1>2. key \in Keys /\ choice[i].set \in Settings /\ choice[i] = [key |-> key, set |-> choice[i].set]
  BY <1>1 DEF Wishes
<1>3. new \in Settings
  BY <1>2, MergedType
<1>4. /\ choice'[i] = [key |-> key, set |-> new]
      /\ \A j \in WishRows \ {i} : choice'[j] = choice[j]
      /\ choice'[i] \in Wishes /\ choice' \in [WishRows -> Wishes \cup Absent]
  <2> HIDE DEF key
  <2>1. choice' = [choice EXCEPT ![i] = [choice[i] EXCEPT !.set = new]]
    OBVIOUS
  <2> HIDE DEF new
  <2>2. [choice[i] EXCEPT !.set = new] = [key |-> key, set |-> new]
    BY <1>2
  <2>3. [key |-> key, set |-> new] \in Wishes
    BY <1>2, <1>3 DEF Wishes
  <2> QED BY <1>1, <2>1, <2>2, <2>3
<1>5. wanted[key] = choice[i].set /\ wanted[key] # Blank
  BY <1>2, PreferenceAssumption DEF WriteInv, RowsAsWritten
<1>6. wanted' = [wanted EXCEPT ![key] = new]
  BY <1>5 DEF Written
<1> HIDE DEF key, new
<1>7. /\ Here(i)' /\ choice'[i].key = choice[i].key
      /\ \A j \in WishRows : (Here(j)' <=> Here(j)) /\ choice'[j].key = choice[j].key
                             /\ (choice'[j] = Gone <=> choice[j] = Gone)
  BY <1>1, <1>4, PreferenceAssumption DEF Here, Absent, key
<1>8. \A k : Found(k)' = Found(k)
  BY <1>7 DEF Found
<1>9. ASSUME NEW r, Holds(r), r.row \in WishRows \cup {Blank} PROVE Holds(r)'
  BY <1>7, <1>8, <1>9 DEF Holds
<1>10. wanted' \in [Keys -> Settings \cup {Blank}] /\ wanted'[key] = new
       /\ \A k \in Keys \ {key} : wanted'[k] = wanted[k]
  BY <1>1, <1>2, <1>3, <1>6
<1>11. \A j \in WishRows : Here(j)' => wanted'[choice'[j].key] = choice'[j].set
  <2> SUFFICES ASSUME NEW j \in WishRows, Here(j)' PROVE wanted'[choice'[j].key] = choice'[j].set
    OBVIOUS
  <2>1. CASE j = i
    BY <1>4, <1>10, <2>1
  <2>2. CASE j # i
    <3>1. Here(j) /\ choice'[j] = choice[j] /\ choice[j].key # key
      BY <1>4, <1>7, <2>2 DEF WriteInv, OneRow, key
    <3>2. choice[j].key \in Keys
      BY <1>1, <3>1 DEF Here, Wishes
    <3> QED BY <1>10, <3>1, <3>2 DEF WriteInv, RowsAsWritten
  <2> QED BY <2>1, <2>2
<1>12. \A k \in Keys : Found(k)' = {} => wanted'[k] = Blank
  <2>1. Found(key) # {}
    BY DEF Found, key
  <2> QED BY <1>8, <1>10, <2>1 DEF WriteInv, RowsAsWritten
<1>13. OneRow'
  BY <1>7 DEF WriteInv, OneRow
<1> QED BY <1>4, <1>9, <1>10, <1>11, <1>12, <1>13 DEF RowsAsWritten

LEMMA SaveFoundInv ==
  ASSUME WriteInv, NEW w \in Writers, SaveFound(w)
  PROVE  WriteInv'
<1> DEFINE dto == Head(writer[w].items)
           i == writer[w].row
<1>1. /\ writer[w].at = "save" /\ i \in WishRows /\ Here(i) /\ dto \in Wishes
  BY ErrandFields DEF SaveFound, WriteInv, WishCore, PrefTypeOK
<1>2. choice[i].key = dto.key
  BY <1>1, PreferenceAssumption DEF WriteInv, SearchHolds, Holds, Here, Absent
<1>3. dto.set \in Edits
  BY <1>1, SettingsAreEdits DEF Wishes
<1>4. /\ choice' = [choice EXCEPT ![i].set = Merged(@, dto.set)]
      /\ Written(choice[i].key, dto.set)
      /\ Onward(w) /\ UNCHANGED writes
  BY <1>2 DEF SaveFound
<1>5. /\ writer' \in [Writers -> Errand \cup {Idle}] /\ OnLane'
      /\ writer'[w].at \in {"idle", "find"} /\ \A v \in Writers \ {w} : writer'[v] = writer[v]
  BY <1>1, <1>4, OnwardCore DEF WriteInv
<1> HIDE DEF i, dto
<1>6. /\ choice' \in [WishRows -> Wishes \cup Absent]
      /\ wanted' \in [Keys -> Settings \cup {Blank}]
      /\ \A r : Holds(r) /\ r.row \in WishRows \cup {Blank} => Holds(r)'
      /\ RowsAsWritten' /\ OneRow'
  BY <1>1, <1>3, <1>4, ModifyStep
<1>7. SearchHolds'
  <2> SUFFICES ASSUME NEW v \in Writers, writer'[v].at = "save" PROVE Holds(writer[v])' 
    BY DEF SearchHolds
  <2>1. v # w /\ writer'[v] = writer[v]
    BY <1>5
  <2>2. Holds(writer[v]) /\ writer[v].row \in WishRows \cup {Blank}
    BY <2>1, ErrandFields DEF WriteInv, WishCore, PrefTypeOK, SearchHolds
  <2> QED BY <1>6, <2>1, <2>2
<1> QED BY <1>4, <1>5, <1>6, <1>7 DEF WriteInv, WishCore, PrefTypeOK

LEMMA UpdateInv ==
  ASSUME WriteInv, NEW w \in Writers, UpdatePreference(w)
  PROVE  WriteInv'
<1> DEFINE i == writer[w].row
           d == writer[w].set
<1>1. /\ i \in WishRows /\ Here(i) /\ d \in Edits
  BY ErrandFields DEF UpdatePreference, WriteInv, WishCore, PrefTypeOK
<1>2. /\ choice' = [choice EXCEPT ![i].set = Merged(@, d)]
      /\ Written(choice[i].key, d)
      /\ writer' = [writer EXCEPT ![w] = Idle] /\ UNCHANGED writes
  BY DEF UpdatePreference, Proceed
<1> HIDE DEF i, d
<1>3. /\ choice' \in [WishRows -> Wishes \cup Absent]
      /\ wanted' \in [Keys -> Settings \cup {Blank}]
      /\ \A r : Holds(r) /\ r.row \in WishRows \cup {Blank} => Holds(r)'
      /\ RowsAsWritten' /\ OneRow'
  BY <1>1, <1>2, ModifyStep
<1>4. /\ writer' \in [Writers -> Errand \cup {Idle}] /\ OnLane' /\ SearchHolds'
  BY <1>2, <1>3, ErrandFields DEF WriteInv, WishCore, PrefTypeOK, OnLane, SearchHolds, Idle
<1> QED BY <1>2, <1>3, <1>4 DEF WriteInv, WishCore, PrefTypeOK

(* Only saving makes a row, and no other request has searched in vain then. *)
LEMMA SaveNewInv ==
  ASSUME WriteInv, SavingSerialised, NEW w \in Writers, SaveNew(w)
  PROVE  WriteInv'
<1>0. PICK dto, new : /\ dto = Head(writer[w].items)
                      /\ new = CHOOSE i \in WishRows : choice[i] = Unused
  OBVIOUS
<1>1. /\ choice \in [WishRows -> Wishes \cup Absent] /\ wanted \in [Keys -> Settings \cup {Blank}]
      /\ writer \in [Writers -> Errand \cup {Idle}]
  BY DEF WriteInv, WishCore, PrefTypeOK
<1>2. /\ writer[w].at = "save" /\ dto \in Wishes
      /\ Found(dto.key) = {} /\ wanted[dto.key] = Blank /\ dto.key \in Keys /\ dto.set \in Settings
  BY <1>0, ErrandFields
     DEF SaveNew, WriteInv, WishCore, PrefTypeOK, SearchHolds, Holds, RowsAsWritten, Wishes
<1>3. new \in WishRows /\ choice[new] = Unused
  BY <1>0 DEF SaveNew
<1>4. /\ choice' = [choice EXCEPT ![new] = dto]
      /\ wanted' = [wanted EXCEPT ![dto.key] = dto.set]
      /\ Onward(w) /\ UNCHANGED writes
  BY <1>0, <1>2 DEF SaveNew, Written
<1>5. /\ writer' \in [Writers -> Errand \cup {Idle}] /\ OnLane'
      /\ writer'[w].at \in {"idle", "find"} /\ \A v \in Writers \ {w} : writer'[v] = writer[v]
  BY <1>2, <1>4, OnwardCore DEF WriteInv
<1>6. /\ choice' \in [WishRows -> Wishes \cup Absent]
      /\ wanted' \in [Keys -> Settings \cup {Blank}]
      /\ choice'[new] = dto /\ Here(new)' /\ ~ Here(new)
      /\ \A j \in WishRows \ {new} : choice'[j] = choice[j] /\ (Here(j)' <=> Here(j))
  <2>1. /\ choice'[new] = dto /\ choice' \in [WishRows -> Wishes \cup Absent]
        /\ \A j \in WishRows \ {new} : choice'[j] = choice[j]
    BY <1>1, <1>2, <1>3, <1>4
  <2>2. wanted' \in [Keys -> Settings \cup {Blank}]
    BY <1>1, <1>2, <1>4
  <2>3. dto \notin Absent /\ Unused \in Absent
    BY <1>2, PreferenceAssumption DEF Absent
  <2>4. Here(new)' /\ ~ Here(new)
    BY <1>3, <2>1, <2>3 DEF Here
  <2>5. \A j \in WishRows \ {new} : Here(j)' <=> Here(j)
    BY <2>1 DEF Here
  <2> QED BY <2>1, <2>2, <2>4, <2>5
<1>7. SearchHolds'
  <2> SUFFICES ASSUME NEW v \in Writers, writer'[v].at = "save" PROVE FALSE
    BY DEF SearchHolds
  <2>1. v # w /\ writer[v].at = "save"
    BY <1>5
  <2> QED BY <1>2, <2>1 DEF SavingSerialised, WriteInv, WishCore, OnLane
<1>8. \A j \in WishRows : Here(j)' => wanted'[choice'[j].key] = choice'[j].set
  <2> SUFFICES ASSUME NEW j \in WishRows, Here(j)' PROVE wanted'[choice'[j].key] = choice'[j].set
    OBVIOUS
  <2>1. CASE j = new
    BY <1>1, <1>2, <1>4, <1>6, <2>1
  <2>2. CASE j # new
    <3>1. Here(j) /\ choice'[j] = choice[j] /\ choice[j].key # dto.key
      BY <1>2, <1>6, <2>2 DEF Found
    <3>2. choice[j].key \in Keys
      BY <1>1, <3>1 DEF Here, Wishes
    <3> QED BY <1>1, <1>4, <3>1, <3>2 DEF WriteInv, RowsAsWritten
  <2> QED BY <2>1, <2>2
<1>9. \A k \in Keys : Found(k)' = {} => wanted'[k] = Blank
  <2> SUFFICES ASSUME NEW k \in Keys, Found(k)' = {} PROVE wanted'[k] = Blank
    OBVIOUS
  <2>1. k # dto.key
    BY <1>3, <1>6 DEF Found
  <2>2. Found(k) = {}
    <3> SUFFICES ASSUME NEW j \in Found(k) PROVE FALSE
      OBVIOUS
    <3>1. j \in WishRows \ {new} /\ Here(j) /\ choice[j].key = k
      BY <1>6 DEF Found
    <3>2. j \in Found(k)'
      BY <1>6, <3>1 DEF Found
    <3> QED BY <3>2
  <2> QED BY <1>1, <1>4, <2>1, <2>2 DEF WriteInv, RowsAsWritten
<1>10. OneRow'
  <2>1. \A j \in WishRows \ {new} : Here(j) => choice[j].key # dto.key
    BY <1>2 DEF Found
  <2> QED BY <1>6, <2>1 DEF WriteInv, OneRow
<1> QED BY <1>4, <1>5, <1>6, <1>7, <1>8, <1>9, <1>10 DEF WriteInv, WishCore, PrefTypeOK, RowsAsWritten

LEMMA DeleteInv ==
  ASSUME WriteInv, NEW w \in Writers, DeletePreference(w)
  PROVE  WriteInv'
<1>0. PICK i, key : i = writer[w].row /\ key = choice[i].key
  OBVIOUS
<1>1. /\ choice \in [WishRows -> Wishes \cup Absent] /\ wanted \in [Keys -> Settings \cup {Blank}]
      /\ writer \in [Writers -> Errand \cup {Idle}]
  BY DEF WriteInv, WishCore, PrefTypeOK
<1>2. /\ i \in WishRows /\ Here(i) /\ writer[w].at = "delete"
  BY <1>0, <1>1, ErrandFields DEF DeletePreference
<1>3. key \in Keys
  BY <1>0, <1>1, <1>2 DEF Here, Wishes
<1>4. /\ choice' = [choice EXCEPT ![i] = Gone] /\ wanted' = [wanted EXCEPT ![key] = Blank]
      /\ writer' = [writer EXCEPT ![w] = Idle] /\ UNCHANGED writes
  BY <1>0 DEF DeletePreference, Proceed
<1>5. /\ choice' \in [WishRows -> Wishes \cup Absent] /\ choice'[i] = Gone /\ ~ Here(i)'
      /\ wanted' \in [Keys -> Settings \cup {Blank}] /\ wanted'[key] = Blank
      /\ \A k \in Keys \ {key} : wanted'[k] = wanted[k]
      /\ \A j \in WishRows \ {i} : choice'[j] = choice[j] /\ (Here(j)' <=> Here(j))
  <2>1. Gone \in Absent
    BY DEF Absent
  <2>2. /\ choice' \in [WishRows -> Wishes \cup Absent] /\ choice'[i] = Gone
        /\ \A j \in WishRows \ {i} : choice'[j] = choice[j]
    BY <1>1, <1>2, <1>4, <2>1
  <2>3. /\ wanted' \in [Keys -> Settings \cup {Blank}] /\ wanted'[key] = Blank
        /\ \A k \in Keys \ {key} : wanted'[k] = wanted[k]
    BY <1>1, <1>3, <1>4
  <2>4. ~ Here(i)'
    BY <2>1, <2>2 DEF Here
  <2>5. \A j \in WishRows \ {i} : Here(j)' <=> Here(j)
    BY <2>2 DEF Here
  <2> QED BY <2>2, <2>3, <2>4, <2>5
<1>6. \A j \in WishRows : Here(j)' => /\ j # i /\ Here(j) /\ choice'[j] = choice[j]
                                      /\ choice[j].key \in Keys \ {key}
  <2> SUFFICES ASSUME NEW j \in WishRows, Here(j)'
               PROVE  j # i /\ Here(j) /\ choice'[j] = choice[j] /\ choice[j].key \in Keys \ {key}
    OBVIOUS
  <2>1. j # i /\ Here(j) /\ choice'[j] = choice[j]
    <3>1. j # i
      BY <1>5
    <3> QED BY <1>5, <3>1
  <2>2. choice[j].key # choice[i].key
    BY <1>2, <2>1 DEF WriteInv, OneRow
  <2>3. choice[j] \in Wishes
    BY <1>1, <2>1 DEF Here
  <2>4. choice[j].key \in Keys
    BY <2>3 DEF Wishes
  <2> QED BY <1>0, <2>1, <2>2, <2>4
<1>7. ASSUME NEW r, Holds(r), r.row \in WishRows \cup {Blank} PROVE Holds(r)'
  <2>1. \A k : Found(k)' \subseteq Found(k)
    BY <1>5, <1>6 DEF Found
  <2> QED BY <1>5, <1>7, <2>1 DEF Holds
<1>8. /\ writer' \in [Writers -> Errand \cup {Idle}] /\ OnLane' /\ SearchHolds'
  <2>1. writer' \in [Writers -> Errand \cup {Idle}] /\ OnLane'
    BY <1>1, <1>4 DEF WriteInv, WishCore, OnLane, Idle
  <2>2. SearchHolds'
    BY <1>1, <1>4, <1>7, ErrandFields DEF WriteInv, SearchHolds, Idle
  <2> QED BY <2>1, <2>2
<1>9. \A k \in Keys : Found(k)' = {} => wanted'[k] = Blank
  <2> SUFFICES ASSUME NEW k \in Keys \ {key}, Found(k)' = {} PROVE wanted[k] = Blank
    BY <1>5
  <2>1. Found(k) = {}
    <3> SUFFICES ASSUME NEW j \in Found(k) PROVE j \in Found(k)'
      OBVIOUS
    <3>1. j \in WishRows \ {i} /\ Here(j) /\ choice[j].key = k
      BY <1>0 DEF Found
    <3> QED BY <1>5, <3>1 DEF Found
  <2> QED BY <2>1 DEF WriteInv, RowsAsWritten
<1>10. \A j \in WishRows : Here(j)' => wanted'[choice'[j].key] = choice'[j].set
  BY <1>5, <1>6 DEF WriteInv, RowsAsWritten
<1>11. OneRow'
  BY <1>6 DEF WriteInv, OneRow
<1> QED BY <1>4, <1>5, <1>8, <1>9, <1>10, <1>11 DEF WriteInv, WishCore, PrefTypeOK, RowsAsWritten

LEMMA ResetInv ==
  ASSUME WriteInv, NEW w \in Writers, Reset(w)
  PROVE  WriteInv'
<1> DEFINE r == Search(w, Defaults, "reset")
<1>1. r \in Errand /\ r.at = "find"
  BY DefaultsType DEF Search, Errand, Saving
<1>2. /\ writer' = [writer EXCEPT ![w] = r] /\ "reset" \in Writes[w]
      /\ choice' = [i \in WishRows |-> IF Here(i) THEN Gone ELSE choice[i]]
      /\ wanted' = [k \in Keys |-> Blank]
      /\ writes < MaxWrites /\ writes' = writes + 1
  BY DEF Reset, Opens, Proceed
<1> HIDE DEF r
<1>3. /\ writer' \in [Writers -> Errand \cup {Idle}] /\ OnLane'
      /\ choice' \in [WishRows -> Wishes \cup Absent]
      /\ wanted' \in [Keys -> Settings \cup {Blank}]
      /\ writes' \in 0 .. MaxWrites
  BY <1>1, <1>2, PreferenceAssumption
     DEF WriteInv, WishCore, PrefTypeOK, OnLane, Saving, Here, Absent
<1>4. \A i \in WishRows : ~ Here(i)' /\ (Here(i) \/ choice[i] = Gone => choice'[i] = Gone)
  BY <1>2 DEF Here, Absent
<1>5. \A k : Found(k)' = {}
  BY <1>4 DEF Found
<1>6. RowsAsWritten' /\ OneRow'
  BY <1>2, <1>4 DEF RowsAsWritten, OneRow
<1>7. ASSUME NEW v \in Writers, writer'[v].at = "save" PROVE Holds(writer[v])'
  <2>1. writer'[v] = writer[v] /\ writer[v].at = "save"
    BY <1>1, <1>2, <1>7 DEF WriteInv, WishCore, PrefTypeOK
  <2>2. Holds(writer[v]) /\ writer[v].row \in WishRows \cup {Blank}
    BY <2>1, ErrandFields DEF WriteInv, WishCore, PrefTypeOK, SearchHolds
  <2> QED BY <1>4, <1>5, <2>1, <2>2 DEF Holds
<1> QED BY <1>3, <1>6, <1>7 DEF WriteInv, WishCore, PrefTypeOK, SearchHolds

LEMMA WishStep ==
  ASSUME SavingSerialised, WriteInv, [PrefNext]_prefVars
  PROVE  WriteInv'
<1>1. ASSUME NEW w \in Writers, PrefStep(w) PROVE WriteInv'
  BY <1>1, ReadStep, ResetInv, SaveFoundInv, SaveNewInv, UpdateInv, DeleteInv
     DEF PrefStep, PreferenceStep
<1>2. CASE UNCHANGED prefVars
  BY <1>2 DEF prefVars, WriteInv, WishCore, PrefTypeOK, OnLane, SearchHolds, Holds, RowsAsWritten,
              OneRow, Found, Here
<1> QED BY <1>1, <1>2 DEF PrefNext

(* The comparison of the code and the clock agree but for the hour after
   midnight. *)
LEMMA QuietAgrees ==
  ASSUME NEW quiet \in Hours, NEW minute \in 60 .. Day - 1, NEW zone
  PROVE  InQuietHours(quiet, zone, minute) <=> zone \in KnownZones /\ During(quiet, minute)
<1> DEFINE q1 == quiet[1]
           q2 == quiet[2]
<1>1. q1 \in 0 .. 1439 /\ q2 \in 0 .. 1439 /\ minute \in 60 .. 1439
  BY DEF Hours, Day
<1> HIDE DEF q1, q2
<1>2. \A x \in -1439 .. 1439 : x % 1440 = IF x >= 0 THEN x ELSE x + 1440
  OBVIOUS
<1>3. minute - q1 \in -1439 .. 1439 /\ q2 - q1 \in -1439 .. 1439
  BY <1>1
<1>4. (minute - q1) % 1440 <= (q2 - q1) % 1440
      <=> IF q1 > q2 THEN minute >= q1 \/ minute <= q2 ELSE minute >= q1 /\ minute <= q2
  BY <1>1, <1>2, <1>3
<1>5. Shown(minute) = minute
  BY <1>1 DEF Shown
<1> QED BY <1>4, <1>5 DEF InQuietHours, During, Day, q1, q2

(* Whether a notification may be sent follows what the user last wrote for its
   type and template ("Check if user should receive notification"), and quiet
   hours hold around the clock, over midnight too: for any number of rows, with
   updates, deletions and failures between the calls of everything, if what
   searches for a row before it inserts one (saving, the bulk, the reset) is one
   lane.  Nothing else in the code keeps two rows for a type from being made. *)
THEOREM AnswersTrue ==
  ASSUME SavingSerialised
  PROVE  PrefSpec => []AnswersAsWritten
<1>1. PrefInit => WriteInv
  BY WishInit
<1>2. WriteInv /\ [PrefNext]_prefVars => WriteInv'
  BY WishStep
<1>3. WriteInv => AnswersAsWritten
  <2> SUFFICES ASSUME WriteInv, NEW key \in KeysInUse,
                      NEW channel \in Channels, NEW minute \in Minutes, minute >= 60
               PROVE  ShouldReceive(key[1], Found(key), channel, minute) = {Promise(key, channel, minute)}
    BY DEF AnswersAsWritten
  <2>0. key \in Keys /\ (wanted[key] # Blank \/ Found(key) # {})
    BY PreferenceAssumption DEF KeysInUse, Found, Here, Absent, WriteInv, WishCore, PrefTypeOK, Wishes
  <2>1. PICK i \in Found(key) : TRUE
    BY <2>0 DEF WriteInv, RowsAsWritten
  <2>2. Found(key) = {i} /\ Here(i) /\ choice[i].key = key
    BY <2>1 DEF WriteInv, OneRow, Found
  <2> DEFINE set == choice[i].set
             asleep == set.quiet # Blank /\ InQuietHours(set.quiet, set.zone, minute)
             quiet == set.quiet # Blank /\ set.zone \in KnownZones /\ During(set.quiet, minute)
             answer == IF set.enabled
                       THEN Verdict(~ asleep /\ channel \in set.channels, set.channels)
                       ELSE Verdict(FALSE, {})
  <2>3. wanted[key] = set /\ set \in Settings /\ set # Blank
    BY <2>0, <2>1, <2>2, PreferenceAssumption DEF WriteInv, WishCore, PrefTypeOK, RowsAsWritten, Here, Found, Wishes
  <2>4. asleep <=> quiet
    <3>1. minute \in 60 .. Day - 1
      BY PreferenceAssumption DEF Day
    <3>2. set.quiet \in Hours \cup {Blank}
      BY <2>3 DEF Settings
    <3> QED BY <3>1, <3>2, QuietAgrees
  <2>5. ShouldReceive(key[1], Found(key), channel, minute) = {answer}
    BY <2>2 DEF ShouldReceive
  <2>6. Promise(key, channel, minute) =
          Verdict(set.enabled /\ ~ quiet /\ channel \in set.channels,
                  IF set.enabled THEN set.channels ELSE {})
    BY <2>3 DEF Promise
  <2>7. set.enabled \in BOOLEAN
    BY <2>3 DEF Settings
  <2> HIDE DEF set, asleep, quiet
  <2>8. answer = Verdict(set.enabled /\ ~ quiet /\ channel \in set.channels,
                         IF set.enabled THEN set.channels ELSE {})
    <3>1. CASE set.enabled
      BY <2>4, <3>1 DEF Verdict
    <3>2. CASE ~ set.enabled
      BY <3>2 DEF Verdict
    <3> QED BY <3>1, <3>2
  <2> QED BY <2>5, <2>6, <2>8
<1> QED BY <1>1, <1>2, <1>3, PTL DEF PrefSpec

(***************************************************************************)
(* The types of the eight services                                         *)
(***************************************************************************)

LEMMA CalInitType == CalInit => CalTypeOK
BY DEF CalInit, CalTypeOK, Absent, Intent

LEMMA CalNextType == CalTypeOK /\ [CalNext]_calVars => CalTypeOK'
BY CalStepType DEF CalNext, Book, calVars, CalTypeOK

LEMMA ResInitType == ResInit => ResTypeOK
BY DEF ResInit, ResTypeOK, Absent, Deed

LEMMA ResNextType == ResTypeOK /\ [ResNext]_resVars => ResTypeOK'
<1>1. ASSUME ResTypeOK, UNCHANGED resVars PROVE ResTypeOK'
  BY <1>1 DEF resVars, ResTypeOK
<1> QED BY <1>1, ResStepMoves, ResStepType DEF ResNext

(* What makes the types of each service inductive: for three of them the parts of
   the invariants of their theorems. *)
ServicesInv ==
  SubCore /\ CreditInv /\ PriceInv /\ ResTypeOK /\ CalTypeOK /\ AccInv /\ ConTypeOK /\ WriteInv

(* All values are of their types, of every field of every row, request and answer
   of the eight services, whatever the number of rows, clients, rules and calls.  It
   takes one lane for what saves preferences: with two the same key may have two
   rows, one be deleted, and an update write settings that are half empty for a key
   that has none.  No other service needs a hypothesis. *)
THEOREM ServicesTypesCorrect ==
  ASSUME SavingSerialised
  PROVE  ServicesSpec => []ServicesTypeOK
<1>1. ServicesInit => ServicesInv
  BY SubInitCore, PayInitInv, PriceInitInv, ResInitType, CalInitType, AccInitInv, ConInitType, WishInit
     DEF ServicesInit, ServicesInv
<1> DEFINE all == <<focus, subVars, payVars, priceVars, resVars, calVars, accVars, conVars, prefVars>>
           Steps == /\ [SubNext]_subVars /\ [PayNext]_payVars /\ [PriceNext]_priceVars
                    /\ [ResNext]_resVars /\ [CalNext]_calVars /\ [AccNext]_accVars
                    /\ [ConNext]_conVars /\ [PrefNext]_prefVars
<1>2. [ServicesNext]_all => Steps
  BY DEF ServicesNext
<1>3. ServicesInv /\ Steps => ServicesInv'
  <2> SUFFICES ASSUME ServicesInv, Steps PROVE ServicesInv'
    OBVIOUS
  <2>1. SubCore' /\ CreditInv' /\ PriceInv' /\ ResTypeOK'
    BY SubNextMoves, PayStepInv, PriceStepInv, ResNextType DEF ServicesInv
  <2>2. CalTypeOK' /\ AccInv' /\ ConTypeOK' /\ WriteInv'
    BY CalNextType, AccNextInv, ConStepType, WishStep DEF ServicesInv
  <2> QED BY <2>1, <2>2 DEF ServicesInv
<1>4. ServicesInv => ServicesTypeOK
  BY CreditInvImplies DEF ServicesInv, ServicesTypeOK, SubCore, PriceInv, AccInv, WriteInv, WishCore
<1> QED BY <1>1, <1>2, <1>3, <1>4, PTL DEF ServicesSpec
=============================================================================
