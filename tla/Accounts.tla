------------------------------ MODULE Accounts ------------------------------
(***************************************************************************)
(* AuthService (src/backend/src/auth/auth.service.ts) and UsersService     *)
(* (src/backend/src/users/users.service.ts): users, their profiles, and    *)
(* the refresh tokens they hold.  A request makes one call to the database *)
(* at a time and no transaction spans two of them.                         *)
(***************************************************************************)
EXTENDS Requests, Integers

CONSTANTS
  Users, Emails, Roles,
  Tokens,      \* identifiers of refresh tokens
  UserDtos,    \* bodies of updates of a user
  Devices,     \* the requests that can interleave
  MaxChanges   \* bound: changes of a password

ASSUME AccountAssumption ==
  /\ MaxChanges \in Nat
  /\ UserDtos \subseteq [email : Emails \cup {Blank}, role : Roles \cup {Blank},
                       password : BOOLEAN, active : BOOLEAN \cup {Blank}]

UserRow == [email : Emails, role : Roles, active : BOOLEAN,
            hashed : BOOLEAN,   \* the password is stored as a hash
            changes : Nat]      \* history: changes of the password

ASSUME UserRowAssumption == Absent \cap UserRow = {}

VARIABLES
  user,      \* user[u]: the row of user u
  profile,   \* users with the profile of a teacher or a student
  refresh,   \* refresh[t]: the row of refresh token t
  visit,     \* visit[v]: what request v does next
  cut        \* history: users whose last change of password was cut short

accVars == <<user, profile, refresh, visit, cut>>

IsUser(u)  == user[u] \notin Absent
IsToken(t) == refresh[t] \notin Absent

(* A token remembers the password its login was checked against, and whether
   that login was under way when the tokens of its user were deleted. *)
TokenRow == [user : Users, changes : Nat, late : BOOLEAN]

(* What a request holds between two of its calls. *)
Visit ==
  {Idle}
  \cup [at : {"insert"}, email : Emails, role : Roles, login : BOOLEAN]
  \cup [at : {"profile"}, user : Users, login : BOOLEAN]
  \cup [at : {"validate", "password", "revoke"}, user : Users]
  \cup [at : {"issue"}, user : Users, changes : Nat, late : BOOLEAN]
  \cup [at : {"update"}, user : Users, dto : UserDtos]

AccTypeOK ==
  /\ user \in [Users -> UserRow \cup Absent]
  /\ profile \subseteq Users
  /\ refresh \in [Tokens -> TokenRow \cup Absent]
  /\ cut \subseteq Users
  /\ visit \in [Devices -> Visit]

AccInit ==
  /\ user = [u \in Users |-> Unused]
  /\ profile = {}
  /\ refresh = [t \in Tokens |-> Unused]
  /\ visit = [v \in Devices |-> Idle]
  /\ cut = {}

Turn(v, next) == visit' = [visit EXCEPT ![v] = next]
Fresh(v)      == visit[v] = Idle

-----------------------------------------------------------------------------
(* register and create: the email is free, the row, which the database refuses
   if the email was taken since, and the profile in a call of its own; register
   hashes the password and logs in, create stores the password as it comes. *)

EmailFree(email) == ~ \E u \in Users : IsUser(u) /\ user[u].email = email

Register(v, email, role) ==
  /\ Fresh(v) /\ EmailFree(email)
  /\ Turn(v, [at |-> "insert", email |-> email, role |-> role, login |-> TRUE])
  /\ UNCHANGED <<user, profile, refresh, cut>>

CreateUser(v, email, role) ==
  /\ Fresh(v) /\ EmailFree(email)
  /\ Turn(v, [at |-> "insert", email |-> email, role |-> role, login |-> FALSE])
  /\ UNCHANGED <<user, profile, refresh, cut>>

InsertUser(v) ==
  /\ visit[v].at = "insert" /\ EmailFree(visit[v].email)
  /\ \E u \in Users :
       /\ user[u] = Unused
       /\ user' = [user EXCEPT ![u] = [email |-> visit[v].email, role |-> visit[v].role,
                    active |-> TRUE, hashed |-> visit[v].login, changes |-> 0]]
       /\ Turn(v, [at |-> "profile", user |-> u, login |-> visit[v].login])
  /\ UNCHANGED <<profile, refresh, cut>>

InsertProfile(v) ==
  LET u == visit[v].user IN
  /\ visit[v].at = "profile" /\ IsUser(u)
  /\ profile' = IF user[u].role \in {"TEACHER", "STUDENT"} THEN profile \cup {u} ELSE profile
  /\ Turn(v, IF visit[v].login THEN [at |-> "validate", user |-> u] ELSE Idle)
  /\ UNCHANGED <<user, refresh, cut>>

(* login: validateUser and the check of the flag; then updateLastLogin, which
   changes nothing that matters here, and generateRefreshToken. *)
Login(v, u) ==
  /\ Fresh(v) \/ visit[v] = [at |-> "validate", user |-> u]
  /\ IsUser(u) /\ user[u].hashed /\ user[u].active
  /\ Turn(v, [at |-> "issue", user |-> u, changes |-> user[u].changes, late |-> FALSE])
  /\ UNCHANGED <<user, profile, refresh, cut>>

GenerateRefreshToken(v) ==
  LET l == visit[v] IN
  /\ l.at = "issue" /\ IsUser(l.user)
  /\ \E t \in Tokens : refresh[t] = Unused /\
       refresh' = [refresh EXCEPT ![t] = [user |-> l.user, changes |-> l.changes, late |-> l.late]]
  /\ Turn(v, Idle)
  /\ UNCHANGED <<user, profile, cut>>

(* refreshToken: an expired token is deleted; any other is left as it is and
   used again. *)
RefreshExpired(v, t) ==
  /\ Fresh(v) /\ IsToken(t)
  /\ refresh' = [refresh EXCEPT ![t] = Gone]
  /\ UNCHANGED <<user, profile, visit, cut>>

Without(u) == [t \in Tokens |-> IF IsToken(t) /\ refresh[t].user = u THEN Gone ELSE refresh[t]]

Logout(v, u) ==
  /\ Fresh(v) /\ IsUser(u)
  /\ \/ refresh' = Without(u)
     \/ \E t \in Tokens : IsToken(t) /\ refresh[t].user = u /\ refresh' = [refresh EXCEPT ![t] = Gone]
  /\ UNCHANGED <<user, profile, visit, cut>>

-----------------------------------------------------------------------------
(* changePassword: the current password is right; then the new one is stored,
   and then the tokens are deleted. *)

ChangePassword(v, u) ==
  /\ Fresh(v) /\ IsUser(u) /\ user[u].hashed /\ user[u].changes < MaxChanges
  /\ Turn(v, [at |-> "password", user |-> u])
  /\ UNCHANGED <<user, profile, refresh, cut>>

StorePassword(v) ==
  LET u == visit[v].user IN
  /\ visit[v].at = "password" /\ IsUser(u)
  /\ user' = [user EXCEPT ![u].changes = @ + 1, ![u].hashed = TRUE]
  /\ Turn(v, [at |-> "revoke", user |-> u])
  /\ UNCHANGED <<profile, refresh, cut>>

(* What becomes of the requests when the tokens of u are deleted by v. *)
Overtaken(v, u) ==
  [w \in Devices |->
     IF w = v THEN Idle
     ELSE IF visit[w].at = "issue" /\ visit[w].user = u THEN [visit[w] EXCEPT !.late = TRUE]
     ELSE visit[w]]

(* Mutant: only one token is deleted, as at a logout from one device. *)
RevokeOne(v) ==
  /\ visit[v].at = "revoke"
  /\ \/ \E t \in Tokens : /\ IsToken(t) /\ refresh[t].user = visit[v].user
                          /\ refresh' = [refresh EXCEPT ![t] = Gone]
     \/ refresh' = refresh
  /\ visit' = Overtaken(v, visit[v].user)
  /\ cut' = cut \ {visit[v].user}
  /\ UNCHANGED <<user, profile>>

RevokeTokens(v) ==
  /\ visit[v].at = "revoke"
  /\ refresh' = Without(visit[v].user)
  /\ visit' = Overtaken(v, visit[v].user)
  /\ cut' = cut \ {visit[v].user}
  /\ UNCHANGED <<user, profile>>

-----------------------------------------------------------------------------
(* update, remove, activateUser and deactivateUser of UsersService.  An update
   may carry a password, which is stored as it comes; no profile follows a new
   role. *)

UpdateUser(v, u, dto) ==
  /\ Fresh(v) /\ IsUser(u)
  /\ dto.email \notin {Blank, user[u].email} => EmailFree(dto.email)
  /\ Turn(v, [at |-> "update", user |-> u, dto |-> dto])
  /\ UNCHANGED <<user, profile, refresh, cut>>

Rewritten(row, dto) ==
  [row EXCEPT !.email = Kept(dto.email, @), !.role = Kept(dto.role, @),
              !.active = Kept(dto.active, @), !.hashed = @ /\ ~ dto.password]

WriteUser(v) ==
  LET u == visit[v].user  dto == visit[v].dto IN
  /\ visit[v].at = "update" /\ IsUser(u)
  /\ ~ \E w \in Users \ {u} : IsUser(w) /\ user[w].email = dto.email
  /\ user' = [user EXCEPT ![u] = Rewritten(user[u], dto)]
  /\ Turn(v, Idle)
  /\ UNCHANGED <<profile, refresh, cut>>

RemoveUser(v, u) ==
  /\ Fresh(v) /\ IsUser(u)
  /\ user' = [user EXCEPT ![u] = Gone]
  /\ profile' = profile \ {u}
  /\ refresh' = Without(u)
  /\ UNCHANGED <<visit, cut>>

SetUserActive(v, u, active) ==
  /\ Fresh(v) /\ IsUser(u)
  /\ user' = [user EXCEPT ![u].active = active]
  /\ UNCHANGED <<profile, refresh, visit, cut>>

ActivateUser(v, u)   == SetUserActive(v, u, TRUE)
DeactivateUser(v, u) == SetUserActive(v, u, FALSE)

(* A database error or the end of the process, between any two calls. *)
Drop(v) ==
  /\ visit[v] # Idle
  /\ cut' = IF visit[v].at = "revoke" THEN cut \cup {visit[v].user} ELSE cut
  /\ Turn(v, Idle)
  /\ UNCHANGED <<user, profile, refresh>>

(* What the two controllers call. *)

AuthStep(v) ==
  \/ \E email \in Emails, role \in Roles : Register(v, email, role)
  \/ \E t \in Tokens : RefreshExpired(v, t)
  \/ \E u \in Users : Login(v, u) \/ Logout(v, u) \/ ChangePassword(v, u)

UserStep(v) ==
  \/ \E email \in Emails, role \in Roles : CreateUser(v, email, role)
  \/ \E u \in Users, dto \in UserDtos : UpdateUser(v, u, dto)
  \/ \E u \in Users : RemoveUser(v, u) \/ ActivateUser(v, u) \/ DeactivateUser(v, u)

AccStep(v) ==
  \/ AuthStep(v) \/ UserStep(v)
  \/ InsertUser(v) \/ InsertProfile(v) \/ GenerateRefreshToken(v)
  \/ StorePassword(v) \/ RevokeTokens(v) \/ WriteUser(v) \/ Drop(v)

AccNext == \E v \in Devices : AccStep(v)

AccSpec == AccInit /\ [][AccNext]_accVars

-----------------------------------------------------------------------------
(* After a change of password the devices have to log in again: "Invalidate all
   refresh tokens".  A token that was issued for an older password is only left
   while the change is between its two writes, when it was cut short there, or
   when the login was past its check of the password as the tokens were
   deleted. *)
TokensOfPassword ==
  \A t \in Tokens :
    IsToken(t) /\ ~ refresh[t].late /\ refresh[t].changes < user[refresh[t].user].changes =>
      \/ refresh[t].user \in cut
      \/ \E v \in Devices : visit[v] = [at |-> "revoke", user |-> refresh[t].user]
=============================================================================
