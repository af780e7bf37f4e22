------------------------------- MODULE Access -------------------------------
(***************************************************************************)
(* Who may do what on the management API: the accounts (store.go,          *)
(* database.go), login and the JWT it issues (handlers.go, password.go),   *)
(* and the authentication and role checks of the routes (main.go).         *)
(*                                                                         *)
(* An account is its role, whether it is enabled, and the password whose   *)
(* hash it holds (NoHash: an empty hash, which matches no password).       *)
(* Time passes in ticks; a token is valid for TokenLife of them.           *)
(***************************************************************************)
EXTENDS Integers, FiniteSets

CONSTANTS
  DefaultRole,  \* the default accounts and their roles
  Passwords,    \* passwords the policy accepts
  Default,      \* the default password, one of them
  NoHash,
  Keys,         \* the API keys created: each is its set of scopes
  GivenRoles,   \* the roles updates give
  TokenLife,    \* 15 minutes
  MaxTime,      \* bound: ticks
  MaxUpdates    \* bound: updates of accounts

VARIABLES
  hasDb,    \* PostgreSQL was connected when the process started
  mem,      \* state.Users
  file,     \* the users of data.json, if it was written
  dbUsers,  \* the table users
  pend,     \* the second write of an UpdateUser in the database, if one is due
  tokens,   \* the tokens issued
  now,
  key,      \* the API key in use: its set of scopes, {} before one is created
  rightsAt, \* history: when an account last was an enabled Admin
  updates

vars == <<hasDb, mem, file, dbUsers, pend, tokens, now, key, rightsAt, updates>>

Users == DOMAIN DefaultRole
Roles == {"Admin", "Analyst", "Viewer"}
Never == 0 - TokenLife - 1

\* initDefaultUsers; InsertDefaultUsers gives the table the same accounts.
DefaultUsers == [u \in Users |-> [role |-> DefaultRole[u], enabled |-> TRUE, pw |-> Default]]
NoUser == [role |-> "Viewer", enabled |-> FALSE, pw |-> NoHash]
NoFile == [written |-> FALSE, users |-> [u \in Users |-> NoUser]]
NoPend == [due |-> FALSE, user |-> CHOOSE u \in Users : TRUE, pw |-> NoHash]

\* PasswordHash is never serialized.
Saved(users) == [written |-> TRUE, users |-> [u \in Users |-> [users[u] EXCEPT !.pw = NoHash]]]
\* NewStore: the users of the file, or the default ones when there are none.
Loaded(f) == IF f.written THEN f.users ELSE DefaultUsers

IsAdmin(account) == account.role = "Admin" /\ account.enabled
Rights(m, d, u) == IsAdmin(m[u]) \/ IsAdmin(d[u])
Tracked == rightsAt' = [u \in Users |-> IF Rights(mem', dbUsers', u) THEN now' ELSE rightsAt[u]]

Init ==
  /\ hasDb \in BOOLEAN
  /\ mem = DefaultUsers /\ dbUsers = DefaultUsers /\ file = NoFile
  /\ pend = NoPend /\ tokens = {} /\ now = 0 /\ key = {}
  /\ rightsAt = [u \in Users |-> IF DefaultRole[u] = "Admin" THEN 0 ELSE Never]
  /\ updates = 0

----------------------------------------------------------------------------
\* AuthenticateUser: the account the password is checked against.  A query that
\* fails falls through to the accounts in memory.
Account(u, queryFails) == IF hasDb /\ ~queryFails THEN dbUsers[u] ELSE mem[u]

Admits(account, pw) == account.pw = pw /\ account.enabled

Expiry == now + TokenLife

\* HandleLogin: the token carries the role of the account.
Login(u, pw, queryFails) ==
  LET account == Account(u, queryFails)
  IN /\ Admits(account, pw)
     /\ tokens' = tokens \cup {[user |-> u, role |-> account.role, exp |-> Expiry]}
     /\ UNCHANGED <<hasDb, mem, file, dbUsers, pend, now, key, rightsAt, updates>>

\* Mutant: the expiry of a token is not checked.
ValidForever(token) == TRUE
\* VerifyJWT: the signature is that of the process; claims.Exp < now is refused.
Valid(token) == token.exp >= now

----------------------------------------------------------------------------
\* The routes, by what main.go asks for: the scope an API key needs ("none": only
\* a JWT is accepted) and the role.
RouteTable ==
  [read    |-> [scope |-> "read",   role |-> "Viewer"],
   rules   |-> [scope |-> "write",  role |-> "Admin"],
   admin   |-> [scope |-> "admin",  role |-> "Admin"],
   threats |-> [scope |-> "threat", role |-> "Viewer"],
   export  |-> [scope |-> "export", role |-> "Viewer"],
   users   |-> [scope |-> "none",   role |-> "Admin"],
   own     |-> [scope |-> "none",   role |-> "Viewer"]]
Routes == DOMAIN RouteTable

\* rbacMiddleware
Allowed(role, required) ==
  CASE required = "Viewer"  -> TRUE
    [] required = "Analyst" -> role \in {"Admin", "Analyst"}
    [] required = "Admin"   -> role = "Admin"

\* hasScope
HasScope(scopes, scope) == scope \in scopes \/ "admin" \in scopes

\* scopeToRole
ScopeToRole(scopes) ==
  IF "admin" \in scopes THEN "Admin" ELSE IF "write" \in scopes THEN "Analyst" ELSE "Viewer"

\* authOrAPIKeyMiddleware with a key; a key that fails is as good as none.
KeyServed(route) ==
  /\ RouteTable[route].scope # "none" /\ HasScope(key, RouteTable[route].scope)
  /\ Allowed(ScopeToRole(key), RouteTable[route].role)

\* authMiddleware, or the fallback of authOrAPIKeyMiddleware, then rbacMiddleware.
TokenServed(token, route) == Valid(token) /\ Allowed(token.role, RouteTable[route].role)

\* handleAPIKeyCreate
CreateKey(token, scopes) ==
  /\ TokenServed(token, "users")
  /\ key' = scopes
  /\ UNCHANGED <<hasDb, mem, file, dbUsers, pend, tokens, now, rightsAt, updates>>

----------------------------------------------------------------------------
\* UpdateUser without a database: memory, then data.json.
UpdateMemory(u, role, enabled, pw) ==
  /\ ~hasDb
  /\ mem' = [mem EXCEPT ![u] = [role |-> role, enabled |-> enabled,
                                pw |-> IF pw = NoHash THEN @.pw ELSE pw]]
  /\ file' = Saved(mem') \/ file' = file   \* a failed write is only reported
  /\ UNCHANGED <<dbUsers, pend>>

\* UpdateUser with a database: role and enabled, then the password.
UpdateDb(u, role, enabled, pw) ==
  /\ hasDb /\ ~pend.due
  /\ dbUsers' = [dbUsers EXCEPT ![u].role = role, ![u].enabled = enabled]
  /\ pend' = IF pw = NoHash THEN NoPend ELSE [due |-> TRUE, user |-> u, pw |-> pw]
  /\ UNCHANGED <<mem, file>>

\* HandleUsers with PUT, reached with an administrator's token; pw NoHash: unchanged.
\* The password, if any, passed the policy and the breach check.
UpdateUser(token, u, role, enabled, pw) ==
  /\ TokenServed(token, "users") /\ updates < MaxUpdates
  /\ updates' = updates + 1
  /\ UpdateMemory(u, role, enabled, pw) \/ UpdateDb(u, role, enabled, pw)
  /\ now' = now /\ Tracked
  /\ UNCHANGED <<hasDb, tokens, key>>

\* The second statement; when it fails the first one stays.
UpdatePasswordDb ==
  /\ pend.due
  /\ pend' = NoPend
  /\ dbUsers' = [dbUsers EXCEPT ![pend.user].pw = pend.pw] \/ dbUsers' = dbUsers
  /\ UNCHANGED <<hasDb, mem, file, tokens, now, key, rightsAt, updates>>

\* Any other Save of the store, such as the one of the audit log writer.
SaveState ==
  /\ file' = Saved(mem)
  /\ UNCHANGED <<hasDb, mem, dbUsers, pend, tokens, now, key, rightsAt, updates>>

\* The process ends and starts again, with or without a database.
Restart ==
  /\ hasDb' \in BOOLEAN
  /\ mem' = Loaded(file)
  /\ pend' = NoPend
  /\ now' = now /\ dbUsers' = dbUsers /\ Tracked
  /\ key' = {}   \* keys are kept in memory only
  /\ UNCHANGED <<file, tokens, updates>>

Tick ==
  /\ now < MaxTime
  /\ now' = now + 1 /\ mem' = mem /\ dbUsers' = dbUsers /\ Tracked
  /\ tokens' = {t \in tokens : t.exp >= now}   \* a token expired for longer is of no use
  /\ UNCHANGED <<hasDb, file, pend, key, updates>>

Next ==
  \/ \E u \in Users, pw \in Passwords, fails \in BOOLEAN : Login(u, pw, fails)
  \/ \E t \in tokens, scopes \in Keys : CreateKey(t, scopes)
  \/ \E t \in tokens, u \in Users, role \in GivenRoles, enabled \in BOOLEAN,
        pw \in Passwords \cup {NoHash} : UpdateUser(t, u, role, enabled, pw)
  \/ UpdatePasswordDb \/ SaveState \/ Restart \/ Tick

Spec == Init /\ [][Next]_vars

----------------------------------------------------------------------------
Accounts == [Users -> [role : Roles, enabled : BOOLEAN, pw : Passwords \cup {NoHash}]]

\* Type invariant.
TypeOK ==
  /\ hasDb \in BOOLEAN /\ mem \in Accounts /\ dbUsers \in Accounts /\ file.users \in Accounts
  /\ tokens \subseteq [user : Users, role : Roles, exp : 0..(MaxTime + TokenLife)]
  /\ key \in Keys \cup {{}}
  /\ now \in 0..MaxTime

\* A change of role or a disabled account takes effect within the life of a
\* token: a route for administrators serves a token only if its account was an
\* enabled administrator at most TokenLife ago, across updates and restarts.
RightsFresh ==
  \A t \in tokens : TokenServed(t, "admin") => now - rightsAt[t.user] <= TokenLife

\* A key does no more than its scopes say: only a key with the scope admin gets
\* to a route for administrators, and a key without a route's scope is refused.
KeysWithinScopes ==
  \A route \in Routes : KeyServed(route) =>
    /\ RouteTable[route].role = "Admin" => "admin" \in key
    /\ RouteTable[route].scope \in key \/ "admin" \in key

\* Claims of the comments that the code does not keep.

\* A key with the scope write can modify rules.
WriteScopeModifies == "write" \in key => KeyServed("rules")

\* The accounts in memory are a fallback for when the database is not connected:
\* while it is, only its own accounts admit a login.
LoginFollowsDb ==
  hasDb => \A u \in Users, pw \in Passwords, fails \in BOOLEAN :
             Admits(Account(u, fails), pw) => Admits(dbUsers[u], pw)

\* Changes of an account are persisted: an account always keeps a password.
PasswordsPersist == \A u \in Users : mem[u].pw # NoHash
=============================================================================
