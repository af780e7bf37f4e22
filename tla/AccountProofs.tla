---------------------------- MODULE AccountProofs ----------------------------
(***************************************************************************)
(* Proofs about who is let in: the logins, tokens and roles of Access, the *)
(* keys of ApiKeys, the start of the program in Startup, which creates the *)
(* default users, and the secrets of Secrets, with which tokens are        *)
(* signed.  The four share no state; variables are renamed where two of    *)
(* them have the same name.                                                *)
(***************************************************************************)
EXTENDS Access, Sequences, TLAPS

\* Append adds one element at the end.
LEMMA Appended ==
  ASSUME NEW S, NEW s \in Seq(S), NEW e \in S
  PROVE  /\ Append(s, e) \in Seq(S) /\ Len(Append(s, e)) = Len(s) + 1
         /\ Len(s) \in Nat /\ DOMAIN s = 1..Len(s) /\ DOMAIN Append(s, e) = 1..(Len(s) + 1)
         /\ \A j \in DOMAIN s : Append(s, e)[j] = s[j]
  OBVIOUS

----------------------------------------------------------------------------
(***************************************************************************)
(* What RightsFresh rests on: rightsAt is the current time for an account  *)
(* that is an enabled administrator somewhere, in memory or in the table,  *)
(* so that a token for administrators is never issued on an older right,   *)
(* and it never goes back.                                                 *)
(***************************************************************************)
ConstantsOK ==
  /\ TokenLife \in Nat /\ MaxTime \in Nat /\ Default \in Passwords /\ GivenRoles \subseteq Roles
  /\ \A u \in Users : DefaultRole[u] \in Roles

AccountsInv ==
  /\ TypeOK
  /\ file \in [written : BOOLEAN, users : Accounts]
  /\ pend.due \in BOOLEAN /\ (pend.due => pend.user \in Users /\ pend.pw \in Passwords)

RightsInv ==
  /\ rightsAt \in [Users -> Int]
  /\ \A u \in Users : rightsAt[u] <= now /\ (Rights(mem, dbUsers, u) => rightsAt[u] = now)
  /\ \A t \in tokens : t.role = "Admin" => rightsAt[t.user] >= t.exp - TokenLife

AInv == AccountsInv /\ RightsInv

\* The accounts that the store starts with.
LEMMA LoadedAccounts ==
  ASSUME ConstantsOK
  PROVE  /\ DefaultUsers \in Accounts /\ NoFile \in [written : BOOLEAN, users : Accounts]
         /\ \A m \in Accounts : Saved(m) \in [written : BOOLEAN, users : Accounts]
         /\ \A f \in [written : BOOLEAN, users : Accounts] : Loaded(f) \in Accounts
<1>1. DefaultUsers \in Accounts
  BY DEF ConstantsOK, DefaultUsers, Accounts
<1>2. NoFile \in [written : BOOLEAN, users : Accounts]
  BY DEF NoFile, NoUser, Accounts, Roles
<1>3. ASSUME NEW m \in Accounts PROVE Saved(m) \in [written : BOOLEAN, users : Accounts]
  BY DEF Saved, Accounts
<1>4. ASSUME NEW f \in [written : BOOLEAN, users : Accounts] PROVE Loaded(f) \in Accounts
  BY <1>1 DEF Loaded
<1> QED
  BY <1>1, <1>2, <1>3, <1>4

LEMMA AccessInit == ConstantsOK /\ Init => AInv
<1> SUFFICES ASSUME ConstantsOK, Init PROVE AInv
  OBVIOUS
<1>1. AccountsInv
  BY LoadedAccounts DEF ConstantsOK, Init, AccountsInv, TypeOK, NoPend
<1>2. /\ rightsAt \in [Users -> Int]
      /\ \A u \in Users : rightsAt[u] <= 0 /\ (DefaultRole[u] = "Admin" => rightsAt[u] = 0)
  BY DEF ConstantsOK, Init, Never
<1>3. \A u \in Users : Rights(mem, dbUsers, u) => DefaultRole[u] = "Admin"
  BY DEF Init, DefaultUsers, Rights, IsAdmin
<1>4. RightsInv
  BY <1>2, <1>3 DEF Init, RightsInv
<1> QED
  BY <1>1, <1>4 DEF AInv

\* A step after which rightsAt was brought up to date.
LEMMA TrackedRights ==
  ASSUME ConstantsOK, AInv, Tracked, tokens' \subseteq tokens, now' \in Int, now <= now'
  PROVE  RightsInv'
<1>1. /\ now \in Int /\ rightsAt \in [Users -> Int]
      /\ rightsAt' = [u \in Users |-> IF Rights(mem', dbUsers', u) THEN now' ELSE rightsAt[u]]
  BY DEF AInv, AccountsInv, TypeOK, RightsInv, Tracked
<1>2. rightsAt' \in [Users -> Int]
  BY <1>1
<1>3. ASSUME NEW u \in Users
      PROVE  /\ rightsAt'[u] <= now' /\ rightsAt[u] <= rightsAt'[u]
             /\ Rights(mem', dbUsers', u) => rightsAt'[u] = now'
  BY <1>1 DEF AInv, RightsInv
<1>4. ASSUME NEW t \in tokens', t.role = "Admin"
      PROVE  rightsAt'[t.user] >= t.exp - TokenLife
  <2>1. t \in tokens /\ t.user \in Users /\ t.exp \in Int
    BY DEF AInv, AccountsInv, TypeOK, ConstantsOK
  <2>2. rightsAt[t.user] >= t.exp - TokenLife
    BY <1>4, <2>1 DEF AInv, RightsInv
  <2> QED
    BY <1>1, <1>2, <1>3, <2>1, <2>2 DEF ConstantsOK
<1>5. \A u \in Users : (Rights(mem, dbUsers, u))' = Rights(mem', dbUsers', u)
  BY DEF Rights, IsAdmin
<1> QED
  BY <1>2, <1>3, <1>4, <1>5 DEF RightsInv

LEMMA LoginInv ==
  ASSUME ConstantsOK, AInv, NEW u \in Users, NEW pw \in Passwords, NEW fails \in BOOLEAN, Login(u, pw, fails)
  PROVE  AInv'
<1> DEFINE account == Account(u, fails)
           token == [user |-> u, role |-> account.role, exp |-> now + TokenLife]
<1>0. /\ account.enabled /\ tokens' = tokens \cup {token}
      /\ UNCHANGED <<hasDb, mem, file, dbUsers, pend, now, key, rightsAt, updates>>
  BY DEF Login, Admits, Expiry
<1>1. account \in [role : Roles, enabled : BOOLEAN, pw : Passwords \cup {NoHash}]
      /\ (account = mem[u] \/ account = dbUsers[u])
  BY DEF Account, AInv, AccountsInv, TypeOK, Accounts
<1> HIDE DEF account
<1>2. token \in [user : Users, role : Roles, exp : 0..(MaxTime + TokenLife)]
  BY <1>1 DEF ConstantsOK, AInv, AccountsInv, TypeOK
<1>3. token.role = "Admin" => rightsAt[token.user] >= token.exp - TokenLife
  <2>1. account.role = "Admin" => Rights(mem, dbUsers, u)
    BY <1>0, <1>1 DEF Rights, IsAdmin
  <2>2. account.role = "Admin" => rightsAt[u] = now
    BY <2>1 DEF AInv, RightsInv
  <2> QED
    BY <2>2 DEF ConstantsOK, AInv, AccountsInv, TypeOK
<1> HIDE DEF token
<1>4. AccountsInv'
  BY <1>0, <1>2 DEF AInv, AccountsInv, TypeOK
<1>5. RightsInv'
  BY <1>0, <1>3 DEF AInv, RightsInv, Rights, IsAdmin
<1> QED
  BY <1>4, <1>5 DEF AInv

LEMMA UpdateUserInv ==
  ASSUME ConstantsOK, AInv, NEW t \in tokens, NEW u \in Users, NEW role \in GivenRoles,
         NEW enabled \in BOOLEAN, NEW pw \in Passwords \cup {NoHash}, UpdateUser(t, u, role, enabled, pw)
  PROVE  AInv'
<1>0. /\ now' = now /\ Tracked /\ UNCHANGED <<hasDb, tokens, key>>
      /\ UpdateMemory(u, role, enabled, pw) \/ UpdateDb(u, role, enabled, pw)
  BY DEF UpdateUser
<1>1. /\ mem \in Accounts /\ dbUsers \in Accounts /\ role \in Roles
      /\ file \in [written : BOOLEAN, users : Accounts]
  BY DEF ConstantsOK, AInv, AccountsInv, TypeOK
<1>2. mem' \in Accounts /\ dbUsers' \in Accounts
  <2>1. CASE UpdateMemory(u, role, enabled, pw)
    BY <1>1, <2>1 DEF UpdateMemory, Accounts
  <2>2. CASE UpdateDb(u, role, enabled, pw)
    <3>1. mem' = mem /\ dbUsers' = [dbUsers EXCEPT ![u].role = role, ![u].enabled = enabled]
      BY <2>2 DEF UpdateDb
    <3> DEFINE Entry == [role : Roles, enabled : BOOLEAN, pw : Passwords \cup {NoHash}]
               given == [dbUsers EXCEPT ![u].role = role]
    <3>2. dbUsers \in [Users -> Entry]
      BY <1>1 DEF Accounts
    <3>3. [dbUsers[u] EXCEPT !.role = role] \in Entry
      BY Zenon, <1>1, <3>2
    <3>4. given \in [Users -> Entry]
      BY Zenon, <3>2, <3>3
    <3>5. [given[u] EXCEPT !.enabled = enabled] \in Entry
      BY Zenon, <3>4
    <3>6. [given EXCEPT ![u].enabled = enabled] \in [Users -> Entry]
      BY Zenon, <3>4, <3>5
    <3> QED
      BY Zenon, <1>1, <3>1, <3>6 DEF Accounts
  <2> QED
    BY <1>0, <2>1, <2>2
<1>3. file' \in [written : BOOLEAN, users : Accounts]
  BY <1>0, <1>1, <1>2, LoadedAccounts DEF UpdateMemory, UpdateDb
<1>4. pend'.due \in BOOLEAN /\ (pend'.due => pend'.user \in Users /\ pend'.pw \in Passwords)
  <2>1. CASE UpdateMemory(u, role, enabled, pw)
    BY <2>1 DEF UpdateMemory, AInv, AccountsInv
  <2>2. CASE UpdateDb(u, role, enabled, pw)
    BY <2>2 DEF UpdateDb, NoPend
  <2> QED
    BY <1>0, <2>1, <2>2
<1>5. AccountsInv'
  BY <1>0, <1>2, <1>3, <1>4 DEF AInv, AccountsInv, TypeOK
<1>6. RightsInv'
  BY <1>0, TrackedRights DEF AInv, AccountsInv, TypeOK
<1> QED
  BY <1>5, <1>6 DEF AInv

LEMMA UpdatePasswordInv ==
  ASSUME AInv, UpdatePasswordDb
  PROVE  AInv'
<1>0. /\ pend.due /\ pend' = NoPend /\ UNCHANGED <<hasDb, mem, file, tokens, now, key, rightsAt, updates>>
      /\ dbUsers' = [dbUsers EXCEPT ![pend.user].pw = pend.pw] \/ dbUsers' = dbUsers
      /\ dbUsers \in Accounts /\ pend.user \in Users /\ pend.pw \in Passwords
  BY DEF UpdatePasswordDb, AInv, AccountsInv, TypeOK
<1>1. /\ dbUsers' \in Accounts
      /\ \A u \in Users : dbUsers'[u].role = dbUsers[u].role /\ dbUsers'[u].enabled = dbUsers[u].enabled
  BY <1>0 DEF Accounts
<1>2. AccountsInv'
  BY <1>0, <1>1 DEF AInv, AccountsInv, TypeOK, NoPend
<1>3. RightsInv'
  BY <1>0, <1>1 DEF AInv, RightsInv, Rights, IsAdmin
<1> QED
  BY <1>2, <1>3 DEF AInv

LEMMA RestartInv ==
  ASSUME ConstantsOK, AInv, Restart \/ Tick
  PROVE  AInv'
<1>0. /\ hasDb' \in BOOLEAN /\ mem' \in Accounts /\ dbUsers' = dbUsers /\ file' = file
      /\ pend' = NoPend \/ pend' = pend
      /\ key' = {} \/ key' = key
      /\ tokens' \subseteq tokens /\ now' \in 0..MaxTime /\ now <= now' /\ Tracked
  BY LoadedAccounts DEF Restart, Tick, AInv, AccountsInv, TypeOK, ConstantsOK
<1>1. pend'.due \in BOOLEAN /\ (pend'.due => pend'.user \in Users /\ pend'.pw \in Passwords)
  <2>1. CASE pend' = NoPend
    BY <2>1 DEF NoPend
  <2>2. CASE pend' = pend
    BY <2>2 DEF AInv, AccountsInv
  <2> QED
    BY <1>0, <2>1, <2>2
<1>2. AccountsInv'
  BY <1>0, <1>1 DEF AInv, AccountsInv, TypeOK
<1>3. RightsInv'
  BY <1>0, TrackedRights
<1> QED
  BY <1>2, <1>3 DEF AInv

LEMMA AccessStep ==
  ASSUME ConstantsOK, AInv, [Next]_vars
  PROVE  AInv'
<1>1. CASE \E t \in tokens, scopes \in Keys : CreateKey(t, scopes)
  BY <1>1 DEF CreateKey, AInv, AccountsInv, TypeOK, RightsInv, Rights, IsAdmin
<1>2. CASE SaveState
  BY <1>2, LoadedAccounts DEF SaveState, AInv, AccountsInv, TypeOK, RightsInv, Rights, IsAdmin
<1>3. CASE UNCHANGED vars
  BY <1>3 DEF vars, AInv, AccountsInv, TypeOK, RightsInv, Rights, IsAdmin
<1> QED
  BY <1>1, <1>2, <1>3, LoginInv, UpdateUserInv, UpdatePasswordInv, RestartInv DEF Next

\* HandleLogin, authMiddleware, UpdateUser: an account whose role was taken away or that
\* was disabled gets to no route for administrators later than TokenLife after that, for
\* any accounts, passwords and updates, across restarts with and without a database.
THEOREM RightsCorrect == ASSUME ConstantsOK PROVE Spec => []RightsFresh
<1>1. AInv => RightsFresh
  <2> SUFFICES ASSUME AInv, NEW t \in tokens, TokenServed(t, "admin")
               PROVE  now - rightsAt[t.user] <= TokenLife
    BY DEF RightsFresh
  <2>1. t.role = "Admin" /\ t.exp >= now
    BY DEF TokenServed, Valid, Allowed, RouteTable
  <2>2. /\ rightsAt[t.user] >= t.exp - TokenLife /\ t.user \in Users /\ t.exp \in Int /\ now \in Int
        /\ rightsAt[t.user] \in Int
    BY <2>1 DEF AInv, AccountsInv, TypeOK, RightsInv, ConstantsOK
  <2> QED
    BY <2>1, <2>2 DEF ConstantsOK
<1> QED
  BY <1>1, AccessInit, AccessStep, PTL DEF Spec

\* authOrAPIKeyMiddleware, hasScope, scopeToRole: no combination of scopes lets a key do
\* more than the routes of its scopes, and only admin gets to routes for administrators.
THEOREM ScopesCorrect == Spec => []KeysWithinScopes
<1>1. KeysWithinScopes
  BY DEF KeysWithinScopes, KeyServed, HasScope, Allowed, ScopeToRole, RouteTable, Routes
<1> QED
  BY <1>1, PTL

----------------------------------------------------------------------------
CONSTANTS
  Instances, FirstUsers, NMigrations, MaxStarts, MaxDowns, MaxChanges

VARIABLES
  conf, reachable, downs, flaky, starts, pc, pg, redis, failed, manager, limiter, engine, backend,
  at, drawn, tables, accounts, disabled, changed, printed, overlap

Main == INSTANCE Startup WITH DefaultUsers <- FirstUsers

\* What main gives: at least one default user and one migration.
Defaults ==
  /\ FirstUsers \in Seq(STRING) /\ Len(FirstUsers) > 0
  /\ NMigrations \in Nat /\ NMigrations > 0

MainPlaces == {"off", "primary", "local", "redis", "migrate", "check", "insert", "print", "wire", "serving"}
Nonzero == Nat \ {Main!NoPassword}

StartTypes ==
  /\ conf \subseteq {"primary", "local", "redis"} /\ starts \in Nat
  /\ pc \in [Instances -> MainPlaces] /\ pg \in [Instances -> Main!Servers \cup {"none"}]
  /\ at \in [Instances -> Nat] /\ drawn \in [Instances -> Nat]
  /\ tables \in [Main!Servers -> Nat] /\ accounts \in [Main!Servers -> [Main!Users -> Nat]]
  /\ printed \subseteq Main!Servers \X Main!Users \X Nonzero

\* A server that was never down answers.
Net == reachable \subseteq conf /\ conf \ flaky \subseteq reachable

\* Where an instance is says what it is connected to and what comes next.
Where ==
  \A i \in Instances :
    /\ pg[i] \in conf \cup {"none"}
    /\ pc[i] \in {"migrate", "check", "insert", "print"} => pg[i] # "none"
    /\ pc[i] = "migrate" => at[i] \in 1 .. NMigrations
    /\ pc[i] \in Main!Creating => at[i] \in 1 .. Len(FirstUsers)
    /\ pc[i] \in {"insert", "print"} => drawn[i] \in Nonzero

\* On a server without overlap one instance at a time has drawn a password, for an
\* account that is missing until its INSERT and has that password after it.
Alone ==
  \A i, j \in Instances :
    pc[i] \in {"insert", "print"} /\ pc[j] \in {"insert", "print"} /\ pg[i] = pg[j] /\ pg[i] \notin overlap => i = j
Missing ==
  \A i \in Instances : pc[i] = "insert" /\ pg[i] \notin overlap => accounts[pg[i]][FirstUsers[at[i]]] = Main!NoPassword
Stored ==
  \A i \in Instances : pc[i] = "print" /\ pg[i] \notin overlap =>
    \/ accounts[pg[i]][FirstUsers[at[i]]] = drawn[i]
    \/ Main!Changed(pg[i], FirstUsers[at[i]], "password")
Printed ==
  \A p \in printed : p[1] \notin overlap => accounts[p[1]][p[2]] = p[3] \/ Main!Changed(p[1], p[2], "password")

Kept ==
  \A s \in Main!Servers, u \in Main!Users :
    /\ Main!Changed(s, u, "password") => accounts[s][u] = Main!Chosen
    /\ Main!Changed(s, u, "disabled") => <<s, u>> \in disabled

\* How far an instance has come with a server that was never down.
Made(i, k) == \A n \in 1 .. k : accounts[pg[i]][FirstUsers[n]] # Main!NoPassword
Progress ==
  \A i \in Instances : pg[i] # "none" /\ pg[i] \notin flaky =>
    /\ pc[i] = "migrate" /\ at[i] > 1 => tables[pg[i]] > 0
    /\ pc[i] \in Main!Creating => tables[pg[i]] > 0
    /\ pc[i] \in {"check", "insert"} => Made(i, at[i] - 1)
    /\ pc[i] = "print" => Made(i, at[i])
    /\ pc[i] \in {"wire", "serving"} => Made(i, Len(FirstUsers))

StartInv == StartTypes /\ Net /\ Where /\ Alone /\ Missing /\ Stored /\ Printed /\ Kept /\ Progress

(***************************************************************************)
(* The invariant is inductive.                                             *)
(***************************************************************************)

\* A default user is a user, and there is one for every place that is reached.
LEMMA UserAt ==
  ASSUME Defaults
  PROVE  /\ \A k \in 1 .. Len(FirstUsers) : FirstUsers[k] \in Main!Users
         /\ \A u \in Main!Users : \E k \in 1 .. Len(FirstUsers) : u = FirstUsers[k]
         /\ Len(FirstUsers) \in Nat /\ Len(FirstUsers) > 0
  BY DEF Defaults, Main!Users

\* Init of main and of the servers.
LEMMA StartInit == ASSUME Defaults, Main!Init PROVE StartInv
  <1>1. StartTypes BY Zenon DEF Main!Init, StartTypes, MainPlaces, Main!Servers, Main!NoPassword
  <1>2. Net /\ Where BY Zenon DEF Main!Init, Net, Where, Main!Creating
  <1>3. Alone /\ Missing /\ Stored /\ Printed BY Zenon DEF Main!Init, Alone, Missing, Stored, Printed
  <1>4. Kept BY Zenon DEF Main!Init, Kept, Main!Changed
  <1>5. Progress BY Zenon DEF Main!Init, Progress
  <1> QED BY Zenon, <1>1, <1>2, <1>3, <1>4, <1>5 DEF StartInv

\* What the other instances are at.
OthersStay(i) ==
  \A j \in Instances \ {i} : pc'[j] = pc[j] /\ pg'[j] = pg[j] /\ at'[j] = at[j] /\ drawn'[j] = drawn[j]

\* A step of one instance that neither changes an account nor goes on to create one.
LEMMA OthersKeep ==
  ASSUME NEW i \in Instances, OthersStay(i), pc'[i] \notin {"insert", "print"},
         UNCHANGED <<accounts, disabled, changed, printed, overlap>>,
         Alone, Missing, Stored, Printed, Kept
  PROVE  Alone' /\ Missing' /\ Stored' /\ Printed' /\ Kept'
  <1>1. Alone' BY Zenon DEF OthersStay, Alone
  <1>2. Missing' BY Zenon DEF OthersStay, Missing
  <1>3. Stored' BY Zenon DEF OthersStay, Stored, Main!Changed
  <1>4. Printed' BY Zenon DEF Printed, Main!Changed
  <1>5. Kept' BY Zenon DEF Kept, Main!Changed
  <1> QED BY Zenon, <1>1, <1>2, <1>3, <1>4, <1>5

\* A step of one instance that is not connected, is about to connect, or begins to serve.
LEMMA ProgressKept ==
  ASSUME NEW i \in Instances, OthersStay(i), UNCHANGED <<flaky, tables, accounts>>, Progress,
         \/ pg'[i] = "none"
         \/ pc'[i] \in {"primary", "local", "redis"}
         \/ pc[i] = "wire" /\ pc'[i] = "serving" /\ pg'[i] = pg[i]
  PROVE  Progress'
  <1> SUFFICES ASSUME NEW j \in Instances, pg'[j] # "none", pg'[j] \notin flaky
               PROVE  /\ pc'[j] = "migrate" /\ at'[j] > 1 => tables[pg'[j]] > 0
                      /\ pc'[j] \in Main!Creating => tables[pg'[j]] > 0
                      /\ pc'[j] \in {"check", "insert"} => Made(j, at[j] - 1)'
                      /\ pc'[j] = "print" => Made(j, at[j])'
                      /\ pc'[j] \in {"wire", "serving"} => Made(j, Len(FirstUsers))'
    BY Zenon DEF Progress
  <1>1. CASE j # i
    <2>1. pc'[j] = pc[j] /\ pg'[j] = pg[j] /\ at'[j] = at[j] BY Zenon, <1>1 DEF OthersStay
    <2>2. \A k : Made(j, k) => Made(j, k)' BY Zenon, <2>1 DEF Made
    <2>3. Made(j, at[j] - 1)' <=> Made(j, at[j] - 1) BY Zenon, <2>1 DEF Made
    <2>4. Made(j, at[j])' <=> Made(j, at[j]) BY Zenon, <2>1 DEF Made
    <2> QED BY Zenon, <2>1, <2>2, <2>3, <2>4 DEF Progress
  <1>2. CASE j = i /\ pc'[i] \in {"primary", "local", "redis"} BY Zenon, <1>2 DEF Main!Creating
  <1>3. CASE j = i /\ pc[i] = "wire" /\ pc'[i] = "serving" /\ pg'[i] = pg[i]
    <2>1. Made(i, Len(FirstUsers)) BY Zenon, <1>3 DEF Progress
    <2>2. Made(i, Len(FirstUsers))' BY Zenon, <1>3, <2>1 DEF Made
    <2> QED BY Zenon, <1>3, <2>2 DEF Main!Creating
  <1> QED BY Zenon, <1>1, <1>2, <1>3

\* Accounts are added, and the instance stays where it is.
LEMMA MoreMade ==
  ASSUME Defaults, Where, Progress, NEW j \in Instances, pg[j] # "none", pg[j] \notin flaky,
         pc'[j] = pc[j], UNCHANGED <<pg, at>>,
         \A k \in 0 .. Len(FirstUsers) : Made(j, k) => Made(j, k)'
  PROVE  /\ pc[j] = "migrate" /\ at[j] > 1 => tables[pg[j]] > 0
         /\ pc[j] \in Main!Creating => tables[pg[j]] > 0
         /\ pc[j] \in {"check", "insert"} => Made(j, at[j] - 1)'
         /\ pc[j] = "print" => Made(j, at[j])'
         /\ pc[j] \in {"wire", "serving"} => Made(j, Len(FirstUsers))'
  <1>1. pc[j] \in Main!Creating => at[j] \in 0 .. Len(FirstUsers) /\ at[j] - 1 \in 0 .. Len(FirstUsers)
    <2>1. ASSUME NEW a \in 1 .. Len(FirstUsers) PROVE a \in 0 .. Len(FirstUsers) /\ a - 1 \in 0 .. Len(FirstUsers)
      BY <2>1, UserAt
    <2> QED BY Zenon, <2>1 DEF Where
  <1>2. Len(FirstUsers) \in 0 .. Len(FirstUsers) BY UserAt
  <1>3. /\ pc[j] \in {"check", "insert"} => Made(j, at[j] - 1)
        /\ pc[j] = "print" => Made(j, at[j])
        /\ pc[j] \in {"wire", "serving"} => Made(j, Len(FirstUsers))
        /\ pc[j] = "migrate" /\ at[j] > 1 => tables[pg[j]] > 0
        /\ pc[j] \in Main!Creating => tables[pg[j]] > 0
    BY Zenon DEF Progress
  <1>4. \A k : Made(j, k)' <=> \A n \in 1 .. k : accounts'[pg[j]][FirstUsers[n]] # Main!NoPassword BY Zenon DEF Made
  <1>5. /\ Made(j, at[j] - 1)' <=> \A n \in 1 .. (at[j] - 1) : accounts'[pg[j]][FirstUsers[n]] # Main!NoPassword
        /\ Made(j, at[j])' <=> \A n \in 1 .. at[j] : accounts'[pg[j]][FirstUsers[n]] # Main!NoPassword
    BY Zenon DEF Made
  <1> QED BY Zenon, <1>1, <1>2, <1>3, <1>4, <1>5 DEF Main!Creating

\* main before database.New touches nothing the invariant speaks of.
LEMMA StartKeeps ==
  ASSUME Defaults, StartInv, NEW i \in Instances, Main!Start(i)
  PROVE  StartInv'
  <1> USE UserAt DEF StartInv, Main!Start, Main!Goto, Main!Servers, Main!netVars, Main!linkVars, Main!choiceVars, Main!dbVars
  <1>1. StartTypes' /\ Net' /\ Where' BY DEF StartTypes, Net, Where, MainPlaces, Main!Creating
  <1>2. OthersStay(i) /\ pc'[i] \notin {"insert", "print"} BY Zenon DEF StartTypes, OthersStay
  <1>3. Alone' /\ Missing' /\ Stored' /\ Printed' /\ Kept' BY Zenon, <1>2, OthersKeep
  <1>4. Progress' BY Zenon, <1>2, ProgressKept DEF StartTypes
  <1> QED BY Zenon, <1>1, <1>3, <1>4

\* connectPostgres with the primary server.
LEMMA ConnectPrimaryKeeps ==
  ASSUME Defaults, StartInv, NEW i \in Instances, Main!ConnectPrimary(i)
  PROVE  StartInv'
  <1> USE UserAt DEF StartInv, Main!ConnectPrimary, Main!Goto, Main!Servers, Main!netVars, Main!linkVars, Main!choiceVars, Main!dbVars
  <1>1. StartTypes' /\ Net' /\ Where' BY Zenon DEF StartTypes, Net, Where, MainPlaces, Main!Creating
  <1>2. OthersStay(i) /\ pc'[i] \notin {"insert", "print"} BY Zenon DEF StartTypes, OthersStay
  <1>3. Alone' /\ Missing' /\ Stored' /\ Printed' /\ Kept' BY Zenon, <1>2, OthersKeep
  <1>4. Progress' BY Zenon, <1>2, ProgressKept DEF StartTypes
  <1> QED BY Zenon, <1>1, <1>3, <1>4

\* connectPostgres with the local server.
LEMMA ConnectLocalKeeps ==
  ASSUME Defaults, StartInv, NEW i \in Instances, Main!ConnectLocal(i)
  PROVE  StartInv'
  <1> USE UserAt DEF StartInv, Main!ConnectLocal, Main!Goto, Main!Servers, Main!netVars, Main!linkVars, Main!choiceVars, Main!dbVars
  <1>1. StartTypes' /\ Net' /\ Where' BY Zenon DEF StartTypes, Net, Where, MainPlaces, Main!Creating
  <1>2. OthersStay(i) /\ pc'[i] \notin {"insert", "print"} BY Zenon DEF StartTypes, OthersStay
  <1>3. Alone' /\ Missing' /\ Stored' /\ Printed' /\ Kept' BY Zenon, <1>2, OthersKeep
  <1>4. Progress' BY Zenon, <1>2, ProgressKept DEF StartTypes
  <1> QED BY Zenon, <1>1, <1>3, <1>4

\* connectRedis, after which the migrations begin.
LEMMA ConnectRedisKeeps ==
  ASSUME Defaults, StartInv, NEW i \in Instances, Main!ConnectRedis(i)
  PROVE  StartInv'
  <1> USE UserAt DEF StartInv, Main!ConnectRedis, Main!TriesRedis, Main!Goto, Main!Servers, Main!netVars, Main!linkVars, Main!choiceVars, Main!dbVars
  <1>1. StartTypes' /\ Net' /\ Where' BY DEF StartTypes, Net, Where, MainPlaces, Main!Creating, Defaults
  <1>2. OthersStay(i) /\ pc'[i] \notin {"insert", "print"} BY Zenon DEF StartTypes, OthersStay
  <1>3. Alone' /\ Missing' /\ Stored' /\ Printed' /\ Kept' BY Zenon, <1>2, OthersKeep
  <1>4. Progress' BY DEF StartTypes, Progress, Made, Main!Creating
  <1> QED BY Zenon, <1>1, <1>3, <1>4

\* One statement of RunMigrations.
LEMMA RunMigrationKeeps ==
  ASSUME Defaults, StartInv, NEW i \in Instances, Main!RunMigration(i)
  PROVE  StartInv'
  <1>0. /\ pc[i] = "migrate" /\ pg[i] \in Main!Servers /\ at[i] \in 1 .. NMigrations
        /\ UNCHANGED <<conf, reachable, flaky, starts, pg, drawn, accounts, disabled, changed, printed, overlap>>
        /\ at' = [at EXCEPT ![i] = IF at[i] = NMigrations THEN 1 ELSE @ + 1]
        /\ pc' = [pc EXCEPT ![i] = IF at[i] = NMigrations THEN "check" ELSE "migrate"]
        /\ tables' = [tables EXCEPT ![pg[i]] = IF @ < at[i] THEN at[i] ELSE @]
    BY Zenon DEF StartInv, Main!RunMigration, Main!Goto, StartTypes, Where, Main!Servers, Main!netVars, Main!linkVars
  <1> USE <1>0 DEF StartInv
  <1>1. StartTypes' BY DEF StartTypes, MainPlaces
  <1>2. Net' /\ Where' BY UserAt DEF StartTypes, Net, Where, Main!Creating, Defaults
  <1>3. Alone' /\ Missing' /\ Stored' BY Zenon DEF StartTypes, Alone, Missing, Stored, Main!Changed
  <1>4. Printed' /\ Kept' BY Zenon DEF Printed, Kept, Main!Changed
  <1>5. tables'[pg[i]] > 0 /\ \A s \in Main!Servers : tables[s] > 0 => tables'[s] > 0 BY DEF StartTypes
  <1>6. Progress' BY <1>5 DEF StartTypes, Progress, Made, Main!Creating
  <1> QED BY Zenon, <1>1, <1>2, <1>3, <1>4, <1>6

\* A failing statement of RunMigrations.
LEMMA MigrationFailsKeeps ==
  ASSUME Defaults, StartInv, NEW i \in Instances, Main!MigrationFails(i)
  PROVE  StartInv'
  <1> USE UserAt DEF StartInv, Main!MigrationFails, Main!Answers, Main!Goto, Main!Servers, Main!netVars, Main!linkVars, Main!choiceVars, Main!dbVars
  <1>1. StartTypes' /\ Net' /\ Where'
    <2>1. StartTypes' BY Zenon DEF StartTypes, MainPlaces
    <2>2. 1 \in 1 .. Len(FirstUsers) BY UserAt
    <2>3. Net' /\ Where' BY Zenon, <2>2 DEF StartTypes, Net, Where, Main!Creating
    <2> QED BY Zenon, <2>1, <2>3
  <1>2. OthersStay(i) /\ pc'[i] \notin {"insert", "print"} BY Zenon DEF StartTypes, OthersStay
  <1>3. Alone' /\ Missing' /\ Stored' /\ Printed' /\ Kept' BY Zenon, <1>2, OthersKeep
  <1>4. Progress' BY DEF StartTypes, Net, Where, Progress, Made, Main!Creating
  <1> QED BY Zenon, <1>1, <1>3, <1>4

\* SELECT EXISTS of InsertDefaultUsers: an instance that draws a password is alone, or the overlap is recorded.
LEMMA CheckUserKeeps ==
  ASSUME Defaults, StartInv, NEW i \in Instances, Main!CheckUser(i)
  PROVE  StartInv'
  <1> USE UserAt DEF StartInv, Main!Goto, Main!Servers
  <1>0. /\ pc[i] = "check" /\ pg[i] \in Main!Servers /\ at[i] \in 1 .. Len(FirstUsers)
        /\ UNCHANGED <<conf, reachable, flaky, starts, pg, tables, accounts, disabled, changed, printed>>
    BY Zenon DEF Main!CheckUser, StartTypes, Where, Main!Creating, Main!netVars, Main!linkVars, Main!dbVars
  <1>1. CASE ~Main!Answers(i) \/ tables[pg[i]] = 0
    <2>1. pc' = [pc EXCEPT ![i] = "wire"] /\ UNCHANGED <<at, drawn, overlap>> BY Zenon, <1>1 DEF Main!CheckUser
    <2>2. pg[i] \in flaky BY <1>0, <1>1 DEF StartTypes, Net, Where, Progress, Main!Answers, Main!Creating
    <2> USE <1>0, <2>1
    <2>3. StartTypes' /\ Net' /\ Where' BY Zenon DEF StartTypes, Net, Where, MainPlaces, Main!Creating
    <2>4. Alone' /\ Missing' /\ Stored' /\ Printed' /\ Kept'
      BY DEF StartTypes, Alone, Missing, Stored, Printed, Kept, Main!Changed
    <2>5. Progress' BY <2>2 DEF StartTypes, Progress, Made, Main!Creating
    <2> QED BY Zenon, <2>3, <2>4, <2>5
  <1>2. CASE Main!Answers(i) /\ tables[pg[i]] # 0 /\ Main!Exists(i)
    <2>1. /\ at' = [at EXCEPT ![i] = @ + 1] /\ UNCHANGED <<drawn, overlap>>
          /\ pc' = [pc EXCEPT ![i] = IF at[i] = Len(FirstUsers) THEN "wire" ELSE "check"]
      BY Zenon, <1>2 DEF Main!CheckUser, Main!AfterUser
    <2> USE <1>0, <2>1
    <2>2. StartTypes' BY DEF StartTypes, MainPlaces
    <2>3. Net' /\ Where' BY DEF StartTypes, Net, Where, Main!Creating
    <2>4. Alone' /\ Missing' /\ Stored' /\ Printed' /\ Kept'
      BY DEF StartTypes, Alone, Missing, Stored, Printed, Kept, Main!Changed
    <2>5. pg[i] \notin flaky => \A n \in 1 .. at[i] : accounts[pg[i]][FirstUsers[n]] # Main!NoPassword
      <3>1. pg[i] \notin flaky => Made(i, at[i] - 1) BY Zenon DEF StartTypes, Progress, Main!Creating
      <3>2. \A n \in 1 .. at[i] : n = at[i] \/ n \in 1 .. at[i] - 1 BY DEF StartTypes
      <3> QED BY Zenon, <1>2, <3>1, <3>2 DEF Made, Main!Exists
    <2>6. Progress' BY <2>5 DEF StartTypes, Progress, Made, Main!Creating
    <2> QED BY Zenon, <2>2, <2>3, <2>4, <2>6
  <1>3. CASE Main!Answers(i) /\ tables[pg[i]] # 0 /\ ~Main!Exists(i)
    <2> DEFINE d == Main!Chosen + starts * Len(FirstUsers) + at[i]
    <2>1. d \in Nonzero
      <3>1. \A m, n \in Nat : m * n \in Nat OBVIOUS
      <3>2. starts * Len(FirstUsers) \in Nat BY Zenon, <3>1 DEF StartTypes
      <3> QED BY <1>0, <3>2 DEF Main!Chosen, Main!NoPassword, Nonzero
    <2> HIDE DEF d
    <2>2. /\ pc' = [pc EXCEPT ![i] = "insert"] /\ drawn' = [drawn EXCEPT ![i] = d] /\ at' = at
          /\ accounts[pg[i]][FirstUsers[at[i]]] = Main!NoPassword
          /\ overlap \subseteq overlap'
      BY Zenon, <1>3 DEF Main!CheckUser, Main!Exists, d
    <2>3. pg[i] \notin overlap' => \A j \in Instances \ {i} : pg[j] = pg[i] => pc[j] \notin Main!Creating
      BY Zenon, <1>3, <1>0 DEF Main!CheckUser
    <2> USE <1>0, <2>1, <2>2
    <2>4. StartTypes' BY Zenon DEF StartTypes, MainPlaces, Nonzero
    <2>5. Net' /\ Where' BY Zenon DEF StartTypes, Net, Where, Main!Creating
    <2>6. Alone' BY Zenon, <2>3 DEF StartTypes, Alone, Main!Creating
    <2>7. Missing' /\ Stored' BY Zenon DEF StartTypes, Missing, Stored, Main!Changed
    <2>8. Printed' /\ Kept' BY Zenon DEF Printed, Kept, Main!Changed
    <2>9. Progress' BY DEF StartTypes, Progress, Made, Main!Creating
    <2> QED BY Zenon, <2>4, <2>5, <2>6, <2>7, <2>8, <2>9
  <1> QED BY Zenon, <1>1, <1>2, <1>3 DEF Main!CheckUser

\* INSERT of InsertDefaultUsers: the account is missing when there is no overlap.
LEMMA InsertUserKeeps ==
  ASSUME Defaults, StartInv, NEW i \in Instances, Main!InsertUser(i)
  PROVE  StartInv'
  <1> DEFINE u == FirstUsers[at[i]]
  <1> USE UserAt DEF StartInv, Main!Servers
  <1>0. /\ pc[i] = "insert" /\ pg[i] \in Main!Servers /\ at[i] \in 1 .. Len(FirstUsers) /\ drawn[i] \in Nonzero
        /\ u \in Main!Users
        /\ UNCHANGED <<conf, reachable, flaky, starts, pg, at, drawn, tables, disabled, changed, printed, overlap>>
        /\ pc' = [pc EXCEPT ![i] = IF Main!Answers(i) THEN "print" ELSE "wire"]
    BY Zenon DEF Main!InsertUser, Main!Goto, StartTypes, Where, Main!Creating, Main!netVars, Main!linkVars
  <1>1. accounts' = IF Main!Answers(i) /\ accounts[pg[i]][u] = Main!NoPassword
                    THEN [accounts EXCEPT ![pg[i]][u] = drawn[i]] ELSE accounts
    BY Zenon DEF Main!InsertUser
  <1>2. ~Main!Answers(i) => pg[i] \in flaky BY Zenon, <1>0 DEF StartTypes, Net, Where, Main!Answers
  <1> HIDE DEF u
  <1>3. StartTypes' BY Zenon, <1>0, <1>1 DEF StartTypes, MainPlaces, Nonzero
  <1>4. Net' /\ Where' BY Zenon, <1>0 DEF StartTypes, Net, Where, Main!Creating
  <1>5. Alone' BY <1>0 DEF StartTypes, Alone
  <1>6. /\ \A s \in Main!Servers, v \in Main!Users : accounts[s][v] # Main!NoPassword => accounts'[s][v] = accounts[s][v]
        /\ \A s \in Main!Servers \ {pg[i]} : accounts'[s] = accounts[s]
    BY Zenon, <1>0, <1>1 DEF StartTypes
  <1>7. Main!Answers(i) => accounts'[pg[i]][u] # Main!NoPassword BY Zenon, <1>0, <1>1 DEF StartTypes, Nonzero
  <1>8. Missing'
    <2>1. \A j \in Instances : pc'[j] = "insert" /\ pg[j] \notin overlap =>
            pc[j] = "insert" /\ pg[j] \in Main!Servers \ {pg[i]}
      BY Zenon, <1>0 DEF StartTypes, Where, Alone
    <2> QED BY Zenon, <1>0, <1>6, <2>1 DEF Missing
  <1>9. Stored'
    <2>1. Main!Answers(i) /\ pg[i] \notin overlap => accounts'[pg[i]][u] = drawn[i]
      BY Zenon, <1>0, <1>1 DEF StartTypes, Missing, u
    <2>2. \A j \in Instances \ {i} : pc[j] = "print" /\ pg[j] \notin overlap => pg[j] # pg[i]
      BY Zenon, <1>0 DEF Alone
    <2>3. ASSUME NEW j \in Instances \ {i}, pc[j] = "print"
          PROVE  pg[j] \in Main!Servers /\ FirstUsers[at[j]] \in Main!Users
      BY Zenon, <2>3 DEF StartTypes, Where, Main!Creating
    <2> SUFFICES ASSUME NEW j \in Instances, pc'[j] = "print", pg[j] \notin overlap
                 PROVE  \/ accounts'[pg[j]][FirstUsers[at[j]]] = drawn[j]
                        \/ Main!Changed(pg[j], FirstUsers[at[j]], "password")
      BY Zenon, <1>0 DEF Stored, Main!Changed
    <2>4. CASE j = i BY Zenon, <1>0, <2>1, <2>4 DEF StartTypes, u
    <2>5. CASE j # i
      <3>1. pc[j] = "print" BY Zenon, <1>0, <2>5 DEF StartTypes
      <3>2. accounts'[pg[j]] = accounts[pg[j]] BY Zenon, <1>6, <2>2, <2>3, <2>5, <3>1
      <3> QED BY Zenon, <3>1, <3>2 DEF Stored
    <2> QED BY Zenon, <2>4, <2>5
  <1>10. Printed'
    <2> SUFFICES ASSUME NEW p \in printed, p[1] \notin overlap
                 PROVE  accounts'[p[1]][p[2]] = p[3] \/ Main!Changed(p[1], p[2], "password")
      BY Zenon, <1>0 DEF Printed, Main!Changed
    <2>1. p[1] \in Main!Servers /\ p[2] \in Main!Users /\ p[3] # Main!NoPassword BY Zenon DEF StartTypes, Nonzero
    <2> QED BY Zenon, <1>6, <2>1 DEF Printed
  <1>11. Kept' BY <1>0, <1>6 DEF Kept, Main!Changed, Main!Chosen, Main!NoPassword
  <1>12. Progress'
    <2> SUFFICES ASSUME NEW j \in Instances, pg[j] # "none", pg[j] \notin flaky
                 PROVE  /\ pc'[j] = "migrate" /\ at[j] > 1 => tables[pg[j]] > 0
                        /\ pc'[j] \in Main!Creating => tables[pg[j]] > 0
                        /\ pc'[j] \in {"check", "insert"} => Made(j, at[j] - 1)'
                        /\ pc'[j] = "print" => Made(j, at[j])'
                        /\ pc'[j] \in {"wire", "serving"} => Made(j, Len(FirstUsers))'
      BY Zenon, <1>0 DEF Progress
    <2>1. pg[j] \in Main!Servers BY Zenon DEF StartTypes
    <2>2. \A k \in 0 .. Len(FirstUsers) : Made(j, k) => Made(j, k)'
      <3> SUFFICES ASSUME NEW k \in 0 .. Len(FirstUsers), Made(j, k), NEW n \in 1 .. k
                   PROVE  accounts'[pg[j]][FirstUsers[n]] # Main!NoPassword
        BY Zenon, <1>0 DEF Made
      <3>1. FirstUsers[n] \in Main!Users OBVIOUS
      <3> QED BY Zenon, <1>6, <2>1, <3>1 DEF Made
    <2>3. CASE j = i
      <3>1. pc'[i] = "print" /\ tables[pg[i]] > 0 /\ Made(i, at[i] - 1)'
        <4>1. pc'[i] = "print" BY Zenon, <1>0, <1>2, <2>3 DEF StartTypes
        <4>2. tables[pg[i]] > 0 /\ Made(i, at[i] - 1) BY Zenon, <1>0, <2>3 DEF Progress, Main!Creating
        <4>3. at[i] - 1 \in 0 .. Len(FirstUsers) BY <1>0
        <4> QED BY Zenon, <1>0, <2>2, <2>3, <4>1, <4>2, <4>3 DEF Made
      <3>2. accounts'[pg[i]][FirstUsers[at[i]]] # Main!NoPassword BY Zenon, <1>0, <1>2, <1>7, <2>3 DEF u
      <3>3. \A n \in 1 .. at[i] : n = at[i] \/ n \in 1 .. (at[i] - 1) BY <1>0
      <3>4. Made(i, at[i])' BY Zenon, <1>0, <3>1, <3>2, <3>3 DEF Made
      <3> QED BY Zenon, <2>3, <3>1, <3>4
    <2>4. CASE j # i
      <3>1. pc'[j] = pc[j] BY Zenon, <1>0, <2>4 DEF StartTypes
      <3> QED BY Zenon, <1>0, <2>2, <3>1, MoreMade
    <2> QED BY Zenon, <2>3, <2>4
  <1> QED BY Zenon, <1>3, <1>4, <1>5, <1>8, <1>9, <1>10, <1>11, <1>12

\* The password goes to the console after its INSERT.
LEMMA PrintPasswordKeeps ==
  ASSUME Defaults, StartInv, NEW i \in Instances, Main!PrintPassword(i)
  PROVE  StartInv'
  <1>0. /\ pc[i] = "print" /\ pg[i] \in Main!Servers /\ at[i] \in 1 .. Len(FirstUsers) /\ drawn[i] \in Nonzero
        /\ UNCHANGED <<conf, reachable, flaky, starts, pg, drawn, tables, accounts, disabled, changed, overlap>>
        /\ at' = [at EXCEPT ![i] = @ + 1]
        /\ pc' = [pc EXCEPT ![i] = IF at[i] = Len(FirstUsers) THEN "wire" ELSE "check"]
        /\ printed' = printed \cup {<<pg[i], FirstUsers[at[i]], drawn[i]>>}
    BY Zenon DEF StartInv, Main!PrintPassword, Main!AfterUser, Main!Goto, StartTypes, Where, Main!Creating, Main!netVars, Main!linkVars, Main!dbVars
  <1> USE <1>0 DEF StartInv
  <1>1. StartTypes'
    <2>1. printed' \subseteq Main!Servers \X Main!Users \X Nonzero BY UserAt DEF StartTypes
    <2> QED BY <2>1 DEF StartTypes, MainPlaces
  <1>2. Net' /\ Where' BY UserAt DEF StartTypes, Net, Where, Main!Creating
  <1>3. Alone' /\ Missing' /\ Stored' BY Zenon DEF StartTypes, Alone, Missing, Stored, Main!Changed
  <1>4. Printed' BY DEF Stored, Printed, Main!Changed
  <1>5. Kept' BY Zenon DEF Kept, Main!Changed
  <1>6. Progress'
    <2>1. \A j \in Instances \ {i} : pc'[j] = pc[j] /\ at'[j] = at[j] BY Zenon DEF StartTypes
    <2>2. /\ pc'[i] \in {"wire", "check"} /\ (pc'[i] = "wire" => at[i] = Len(FirstUsers))
          /\ at'[i] = at[i] + 1
      BY Zenon DEF StartTypes
    <2>3. at'[i] - 1 = at[i]
      <3>1. ASSUME NEW a \in Nat PROVE (a + 1) - 1 = a
        <4> HIDE <1>0 DEF StartInv
        <4> QED BY <3>1
      <3>2. at[i] \in Nat BY Zenon DEF StartTypes
      <3> QED BY Zenon, <2>2, <3>1, <3>2
    <2>4. pg[i] # "none" /\ pg[i] \notin flaky => Made(i, at[i]) /\ tables[pg[i]] > 0
      BY Zenon DEF Progress, Main!Creating
    <2> SUFFICES ASSUME NEW j \in Instances, pg[j] # "none", pg[j] \notin flaky
                 PROVE  /\ pc'[j] = "migrate" /\ at'[j] > 1 => tables[pg[j]] > 0
                        /\ pc'[j] \in Main!Creating => tables[pg[j]] > 0
                        /\ pc'[j] \in {"check", "insert"} => Made(j, at[j] - 1)'
                        /\ pc'[j] = "print" => Made(j, at[j])'
                        /\ pc'[j] \in {"wire", "serving"} => Made(j, Len(FirstUsers))'
      BY Zenon DEF Progress
    <2>5. CASE j # i
      <3>1. Made(j, at[j] - 1)' <=> Made(j, at[j] - 1) BY Zenon, <2>1, <2>5 DEF Made
      <3>2. Made(j, at[j])' <=> Made(j, at[j]) BY Zenon, <2>1, <2>5 DEF Made
      <3>3. Made(j, Len(FirstUsers))' <=> Made(j, Len(FirstUsers)) BY Zenon DEF Made
      <3> QED BY Zenon, <2>1, <2>5, <3>1, <3>2, <3>3 DEF Progress
    <2>6. CASE j = i
      <3>1. Made(i, at[i] - 1)' BY Zenon, <2>3, <2>4, <2>6 DEF Made
      <3>2. pc'[i] = "wire" => Made(i, Len(FirstUsers))
        <4>1. Made(i, at[i]) BY Zenon, <2>4, <2>6
        <4>2. ASSUME at[i] = Len(FirstUsers) PROVE Made(i, Len(FirstUsers)) BY Zenon, <4>1, <4>2
        <4> QED BY Zenon, <2>2, <4>2
      <3>3. Made(i, Len(FirstUsers)) => Made(i, Len(FirstUsers))' BY Zenon DEF Made
      <3>4. pc'[i] \notin {"migrate", "print", "serving"} BY Zenon, <2>2
      <3> QED BY Zenon, <2>4, <2>6, <3>1, <3>2, <3>3, <3>4
    <2> QED BY Zenon, <2>5, <2>6
  <1> QED BY Zenon, <1>1, <1>2, <1>3, <1>4, <1>5, <1>6

\* The rest of main.
LEMMA WireKeeps ==
  ASSUME Defaults, StartInv, NEW i \in Instances, Main!Wire(i)
  PROVE  StartInv'
  <1> USE UserAt DEF StartInv, Main!Wire, Main!Goto, Main!Servers, Main!netVars, Main!linkVars, Main!choiceVars, Main!dbVars
  <1>1. StartTypes' /\ Net' /\ Where' BY Zenon DEF StartTypes, Net, Where, MainPlaces, Main!Creating
  <1>2. OthersStay(i) /\ pc'[i] \notin {"insert", "print"} BY Zenon DEF StartTypes, OthersStay
  <1>3. Alone' /\ Missing' /\ Stored' /\ Printed' /\ Kept' BY Zenon, <1>2, OthersKeep
  <1>4. Progress' BY Zenon, <1>2, ProgressKept DEF StartTypes
  <1> QED BY Zenon, <1>1, <1>3, <1>4

\* A crash of one instance.
LEMMA CrashKeeps ==
  ASSUME Defaults, StartInv, NEW i \in Instances, Main!Crash(i)
  PROVE  StartInv'
  <1> USE UserAt DEF StartInv, Main!Crash, Main!Goto, Main!Servers, Main!netVars, Main!linkVars, Main!choiceVars, Main!dbVars
  <1>1. StartTypes' /\ Net' /\ Where'
    <2>1. StartTypes' BY Zenon DEF StartTypes, MainPlaces, Main!NoPassword
    <2>2. Net' /\ Where' BY Zenon DEF StartTypes, Net, Where, Main!Creating
    <2> QED BY Zenon, <2>1, <2>2
  <1>2. OthersStay(i) /\ pc'[i] \notin {"insert", "print"} BY Zenon DEF StartTypes, OthersStay
  <1>3. Alone' /\ Missing' /\ Stored' /\ Printed' /\ Kept' BY Zenon, <1>2, OthersKeep
  <1>4. Progress' BY Zenon, <1>2, ProgressKept DEF StartTypes
  <1> QED BY Zenon, <1>1, <1>3, <1>4

\* UpdateUserPassword.
LEMMA UpdateUserPasswordKeeps ==
  ASSUME Defaults, StartInv, NEW i \in Instances, NEW u \in Main!Users, Main!UpdateUserPassword(i, u)
  PROVE  StartInv'
  <1>0. /\ pg[i] \in Main!Servers /\ accounts[pg[i]][u] # Main!NoPassword
        /\ UNCHANGED <<conf, reachable, flaky, starts, pc, pg, at, drawn, tables, disabled, printed, overlap>>
        /\ changed' = changed \cup {<<pg[i], u, "password">>}
        /\ accounts' = [accounts EXCEPT ![pg[i]][u] = Main!Chosen]
    BY Zenon DEF StartInv, Main!UpdateUserPassword, Main!Answers, Main!GetAllUsers, StartTypes, Net, Main!Servers, Main!netVars, Main!linkVars
  <1> USE DEF StartInv
  <1>1. StartTypes' BY Zenon, <1>0 DEF StartTypes, Main!Chosen
  <1>2. \A s \in Main!Servers, v \in Main!Users :
          \/ s = pg[i] /\ v = u /\ accounts'[s][v] = Main!Chosen /\ Main!Changed(s, v, "password")'
          \/ /\ accounts'[s][v] = accounts[s][v]
             /\ Main!Changed(s, v, "password")' <=> Main!Changed(s, v, "password")
    BY Zenon, <1>0 DEF StartTypes, Main!Changed
  <1>3. Net' /\ Where' /\ Alone' BY Zenon, <1>0 DEF Net, Where, Alone
  <1>4. \A j \in Instances : pc[j] \in Main!Creating => pg[j] \in Main!Servers /\ FirstUsers[at[j]] \in Main!Users
    BY Zenon, UserAt DEF StartTypes, Where, Main!Creating
  <1>5. Missing' BY <1>0, <1>2, <1>4 DEF Missing, Main!Creating
  <1>6. Stored' BY Zenon, <1>0, <1>2, <1>4 DEF Stored, Main!Creating
  <1>7. Printed' BY <1>0, <1>2 DEF StartTypes, Printed
  <1>8. Kept'
    <2>1. \A s \in Main!Servers, v \in Main!Users : Main!Changed(s, v, "disabled")' => Main!Changed(s, v, "disabled") BY Zenon, <1>0 DEF Main!Changed
    <2> QED BY Zenon, <1>0, <1>2, <2>1 DEF Kept
  <1>9. Progress'
    <2>1. \A s \in Main!Servers, v \in Main!Users : accounts[s][v] # Main!NoPassword => accounts'[s][v] # Main!NoPassword
      <3>1. Main!Chosen # Main!NoPassword BY DEF Main!Chosen, Main!NoPassword
      <3> QED BY Zenon, <1>2, <3>1
    <2>2. \A j \in Instances, k \in 0 .. Len(FirstUsers) : pg[j] # "none" /\ Made(j, k) => Made(j, k)'
      <3> SUFFICES ASSUME NEW j \in Instances, NEW k \in 0 .. Len(FirstUsers), pg[j] # "none", Made(j, k),
                          NEW n \in 1 .. k
                   PROVE  accounts'[pg[j]][FirstUsers[n]] # Main!NoPassword
        BY Zenon, <1>0 DEF Made
      <3>1. pg[j] \in Main!Servers /\ FirstUsers[n] \in Main!Users BY UserAt DEF StartTypes
      <3> QED BY Zenon, <2>1, <3>1 DEF Made
    <2> SUFFICES ASSUME NEW j \in Instances, pg[j] # "none", pg[j] \notin flaky
                 PROVE  /\ pc[j] = "migrate" /\ at[j] > 1 => tables[pg[j]] > 0
                        /\ pc[j] \in Main!Creating => tables[pg[j]] > 0
                        /\ pc[j] \in {"check", "insert"} => Made(j, at[j] - 1)'
                        /\ pc[j] = "print" => Made(j, at[j])'
                        /\ pc[j] \in {"wire", "serving"} => Made(j, Len(FirstUsers))'
      BY Zenon, <1>0 DEF Progress
    <2> QED BY Zenon, <1>0, <2>2, MoreMade
  <1> QED BY Zenon, <1>1, <1>3, <1>5, <1>6, <1>7, <1>8, <1>9

\* UpdateUser.
LEMMA UpdateUserKeeps ==
  ASSUME Defaults, StartInv, NEW i \in Instances, NEW u \in Main!Users, NEW on \in BOOLEAN, Main!UpdateUser(i, u, on)
  PROVE  StartInv'
  <1> USE UserAt DEF StartInv, Main!UpdateUser, Main!Servers, Main!netVars, Main!linkVars, Main!choiceVars, Main!dbVars
  <1>1. StartTypes' /\ Net' /\ Where' BY Zenon DEF StartTypes, Net, Where
  <1>2. Alone' /\ Missing' /\ Stored' /\ Printed' /\ Kept' BY Zenon DEF StartTypes, Alone, Missing, Stored, Printed, Kept, Main!Changed
  <1>3. Progress' BY Zenon DEF Progress, Made
  <1> QED BY Zenon, <1>1, <1>2, <1>3

\* A server stops answering.
LEMMA GoesDownKeeps ==
  ASSUME Defaults, StartInv, NEW s \in {"primary", "local", "redis"}, Main!GoesDown(s)
  PROVE  StartInv'
  <1> USE UserAt DEF StartInv, Main!GoesDown, Main!Servers, Main!netVars, Main!linkVars, Main!choiceVars, Main!dbVars
  <1>1. StartTypes' /\ Net' /\ Where' BY Zenon DEF StartTypes, Net, Where
  <1>2. Alone' /\ Missing' /\ Stored' /\ Printed' /\ Kept' BY Zenon DEF StartTypes, Alone, Missing, Stored, Printed, Kept, Main!Changed
  <1>3. Progress' BY Zenon DEF Progress, Made
  <1> QED BY Zenon, <1>1, <1>2, <1>3

\* A server answers again.
LEMMA ComesBackKeeps ==
  ASSUME Defaults, StartInv, NEW s \in {"primary", "local", "redis"}, Main!ComesBack(s)
  PROVE  StartInv'
  <1> USE UserAt DEF StartInv, Main!ComesBack, Main!Servers, Main!netVars, Main!linkVars, Main!choiceVars, Main!dbVars
  <1>1. StartTypes' /\ Net' /\ Where' BY Zenon DEF StartTypes, Net, Where
  <1>2. Alone' /\ Missing' /\ Stored' /\ Printed' /\ Kept' BY Zenon DEF StartTypes, Alone, Missing, Stored, Printed, Kept, Main!Changed
  <1>3. Progress' BY Zenon DEF Progress, Made
  <1> QED BY Zenon, <1>1, <1>2, <1>3

\* Every step of every instance and of the servers.
LEMMA StartNext == ASSUME Defaults, StartInv, [Main!Next]_(Main!vars) PROVE StartInv'
  <1>1. CASE Main!Next
    <2>1. CASE \E i \in Instances : Main!Start(i) \/ Main!Step(i) \/ Main!Crash(i)
      BY Zenon, <2>1, StartKeeps, ConnectPrimaryKeeps, ConnectLocalKeeps, ConnectRedisKeeps, RunMigrationKeeps,
         MigrationFailsKeeps, CheckUserKeeps, InsertUserKeeps, PrintPasswordKeeps, WireKeeps, CrashKeeps DEF Main!Step
    <2>2. CASE \E i \in Instances, u \in Main!Users : Main!UpdateUserPassword(i, u) \/ \E on \in BOOLEAN : Main!UpdateUser(i, u, on)
      BY Zenon, <2>2, UpdateUserPasswordKeeps, UpdateUserKeeps
    <2>3. CASE \E s \in {"primary", "local", "redis"} : Main!GoesDown(s) \/ Main!ComesBack(s)
      BY Zenon, <2>3, GoesDownKeeps, ComesBackKeeps
    <2> QED BY Zenon, <1>1, <2>1, <2>2, <2>3 DEF Main!Next
  <1>2. CASE UNCHANGED Main!vars
    <2>1. StartTypes' /\ Net' /\ Where' BY Zenon, <1>2 DEF StartInv, Main!vars, Main!netVars, Main!linkVars, Main!dbVars, StartTypes, Net, Where
    <2>2. Alone' /\ Missing' /\ Stored' /\ Printed' /\ Kept'
      BY Zenon, <1>2 DEF StartInv, Main!vars, Main!netVars, Main!linkVars, Main!dbVars, Alone, Missing, Stored, Printed, Kept, Main!Changed
    <2>3. Progress' BY Zenon, <1>2 DEF StartInv, Main!vars, Main!netVars, Main!linkVars, Main!dbVars, Progress, Made
    <2> QED BY Zenon, <2>1, <2>2, <2>3 DEF StartInv
  <1> QED BY Zenon, <1>1, <1>2

\* What PasswordsWork says of programs that serve is the end of their progress.
LEMMA StartWorks == ASSUME Defaults, StartInv PROVE Main!PasswordsWork
  <1>1. \A i \in Instances : pc[i] = "serving" /\ pg[i] # "none" /\ pg[i] \notin flaky =>
          \A u \in Main!Users : accounts[pg[i]][u] # Main!NoPassword
    BY Zenon, UserAt DEF StartInv, Progress, Made
  <1> QED BY Zenon, <1>1 DEF StartInv, Printed, Kept, Main!PasswordsWork

\* InsertDefaultUsers with the actions of the running program, for any instances that
\* start, crash and start again while servers go down and come back: a printed one-time
\* password is the stored one until its user chooses another, unless two instances
\* created the users of one server together; no start undoes a chosen password or
\* enables an account; and who serves from a server that was never down finds all
\* default users.
THEOREM DefaultPasswordsWork == ASSUME Defaults PROVE Main!Spec => []Main!PasswordsWork
  <1>1. Main!Init => StartInv BY Zenon, StartInit
  <1>2. StartInv /\ [Main!Next]_(Main!vars) => StartInv' BY Zenon, StartNext
  <1>3. StartInv => Main!PasswordsWork BY Zenon, StartWorks
  <1> QED BY <1>1, <1>2, <1>3, PTL DEF Main!Spec

(***************************************************************************)
(* The connections of database.New and what main makes of them.            *)
(***************************************************************************)
Before == {"off", "primary", "local", "redis"}
LinkTypes ==
  /\ redis \in [Instances -> BOOLEAN] /\ failed \in [Instances -> BOOLEAN] /\ manager \in [Instances -> BOOLEAN]
  /\ backend \in [Instances -> {"none", "memory", "postgres"}] /\ limiter \in [Instances -> {"none", "memory", "redis"}]
Linked ==
  \A i \in Instances :
    /\ pc[i] = "local" => "primary" \notin conf \ flaky
    /\ pc[i] = "redis" \/ pc[i] \notin Before => (conf \cap Main!Servers) \ flaky = {} \/ pg[i] # "none"
    /\ pc[i] \notin Before => "redis" \notin conf \ flaky \/ redis[i]
    /\ pc[i] \notin Before /\ ~manager[i] => failed[i] /\ pg[i] = "none" /\ ~redis[i]
    /\ pc[i] = "serving" /\ manager[i] /\ pg[i] # "none" => backend[i] = "postgres"
    /\ pc[i] = "serving" /\ manager[i] /\ redis[i] => limiter[i] = "redis"
LinkInv == StartTypes /\ Net /\ LinkTypes /\ Linked

\* The steps of database.New, and then of main, establish the links one after another.
LEMMA LinkNext == ASSUME Defaults, StartInv, LinkInv, [Main!Next]_(Main!vars) PROVE LinkInv'
  <1>1. StartTypes' /\ Net' BY Zenon, StartNext DEF StartInv
  <1> USE DEF LinkInv, LinkTypes, Linked, StartTypes, Main!Goto, Before, MainPlaces, Main!Servers, Main!netVars, Main!linkVars, Main!choiceVars, Main!dbVars
  <1>2. ASSUME NEW i \in Instances, Main!Start(i) PROVE LinkTypes' /\ Linked' BY <1>2 DEF Main!Start
  <1>3. ASSUME NEW i \in Instances, Main!ConnectPrimary(i) PROVE LinkTypes' /\ Linked' BY <1>3 DEF Main!ConnectPrimary, Net
  <1>4. ASSUME NEW i \in Instances, Main!ConnectLocal(i) PROVE LinkTypes' /\ Linked' BY <1>4 DEF Main!ConnectLocal, Net
  <1>5. ASSUME NEW i \in Instances, Main!ConnectRedis(i) PROVE LinkTypes' /\ Linked'
    <2>1. LinkTypes' BY Zenon, <1>5 DEF Main!ConnectRedis
    <2>2. Linked' BY Zenon, <1>5 DEF Main!ConnectRedis, Main!TriesRedis, Net
    <2> QED BY Zenon, <2>1, <2>2
  <1>6. ASSUME NEW i \in Instances, Main!RunMigration(i) PROVE LinkTypes' /\ Linked' BY <1>6 DEF Main!RunMigration
  <1>7. ASSUME NEW i \in Instances, Main!MigrationFails(i) PROVE LinkTypes' /\ Linked' BY <1>7 DEF Main!MigrationFails
  <1>8. ASSUME NEW i \in Instances, Main!CheckUser(i) PROVE LinkTypes' /\ Linked'
    <2>1. pc[i] = "check" /\ UNCHANGED <<conf, flaky, pg, redis, failed, manager, backend, limiter>>
      BY Zenon, <1>8 DEF Main!CheckUser
    <2>2. \E l \in {"wire", "check", "insert"} : pc' = [pc EXCEPT ![i] = l] BY Zenon, <1>8 DEF Main!CheckUser, Main!AfterUser
    <2> QED BY <2>1, <2>2
  <1>9. ASSUME NEW i \in Instances, Main!InsertUser(i) PROVE LinkTypes' /\ Linked'
    <2>1. pc[i] = "insert" /\ UNCHANGED <<conf, flaky, pg, redis, failed, manager, backend, limiter>>
      BY Zenon, <1>9 DEF Main!InsertUser
    <2>2. \E l \in {"print", "wire"} : pc' = [pc EXCEPT ![i] = l] BY Zenon, <1>9 DEF Main!InsertUser
    <2> QED BY <2>1, <2>2
  <1>10. ASSUME NEW i \in Instances, Main!PrintPassword(i) PROVE LinkTypes' /\ Linked' BY <1>10 DEF Main!PrintPassword, Main!AfterUser
  <1>11. ASSUME NEW i \in Instances, Main!Wire(i) PROVE LinkTypes' /\ Linked' BY <1>11 DEF Main!Wire
  <1>12. ASSUME NEW i \in Instances, Main!Crash(i) PROVE LinkTypes' /\ Linked'
    <2>1. LinkTypes' BY Zenon, <1>12 DEF Main!Crash
    <2>2. pc'[i] = "off" /\ UNCHANGED <<conf, flaky>> BY Zenon, <1>12 DEF Main!Crash
    <2>3. \A j \in Instances \ {i} :
            /\ pc'[j] = pc[j] /\ pg'[j] = pg[j] /\ redis'[j] = redis[j] /\ failed'[j] = failed[j]
            /\ manager'[j] = manager[j] /\ backend'[j] = backend[j] /\ limiter'[j] = limiter[j]
      <3>1. /\ pc' = [pc EXCEPT ![i] = "off"] /\ pg' = [pg EXCEPT ![i] = "none"]
            /\ redis' = [redis EXCEPT ![i] = FALSE] /\ failed' = [failed EXCEPT ![i] = FALSE]
            /\ manager' = [manager EXCEPT ![i] = FALSE] /\ limiter' = [limiter EXCEPT ![i] = "none"]
            /\ backend' = [backend EXCEPT ![i] = "none"]
        BY Zenon, <1>12 DEF Main!Crash
      <3> QED BY <3>1
    <2>4. Linked' BY <2>2, <2>3
    <2> QED BY Zenon, <2>1, <2>4
  <1>13. ASSUME NEW i \in Instances, NEW u \in Main!Users, Main!UpdateUserPassword(i, u) PROVE LinkTypes' /\ Linked'
    BY Zenon, <1>13 DEF Main!UpdateUserPassword
  <1>14. ASSUME NEW i \in Instances, NEW u \in Main!Users, NEW on \in BOOLEAN, Main!UpdateUser(i, u, on) PROVE LinkTypes' /\ Linked'
    BY Zenon, <1>14 DEF Main!UpdateUser
  <1>15. ASSUME NEW s \in {"primary", "local", "redis"}, Main!GoesDown(s) \/ Main!ComesBack(s) PROVE LinkTypes' /\ Linked'
    BY <1>15 DEF Main!GoesDown, Main!ComesBack
  <1>16. CASE UNCHANGED Main!vars BY Zenon, <1>1, <1>16 DEF Main!vars
  <1>17. CASE Main!Next
    <2> USE <1>1 DEF LinkInv
    <2> HIDE DEF LinkTypes, Linked, StartTypes, Main!Goto, Before, MainPlaces, Main!Servers
    <2> QED BY Zenon, <1>2, <1>3, <1>4, <1>5, <1>6, <1>7, <1>8, <1>9, <1>10, <1>11, <1>12, <1>13, <1>14, <1>15, <1>17 DEF Main!Next, Main!Step
  <1> QED BY Zenon, <1>16, <1>17

\* database.New and main, for any instances, crashes and failures: a program that serves
\* is connected to every kind of database of which a configured server was never down,
\* stores and counts there, and has no manager only when it connected to nothing.
THEOREM ConnectionsMade == ASSUME Defaults PROVE Main!Spec => []Main!ConnectsWhatItCan
  <1>1. Main!Init => StartInv /\ LinkInv
    <2>1. Main!Init => StartInv BY Zenon, StartInit
    <2>2. Main!Init => LinkTypes /\ Linked BY DEF Main!Init, LinkTypes, Linked, Before
    <2> QED BY Zenon, <2>1, <2>2 DEF LinkInv, StartInv
  <1>2. StartInv /\ LinkInv /\ [Main!Next]_(Main!vars) => StartInv' /\ LinkInv' BY Zenon, StartNext, LinkNext
  <1>3. LinkInv => Main!ConnectsWhatItCan BY Zenon DEF LinkInv, LinkTypes, Linked, Main!ConnectsWhatItCan, Before
  <1> QED BY <1>1, <1>2, <1>3, PTL DEF Main!Spec

----------------------------------------------------------------------------
CONSTANTS
  Requests, RateLimit, Window, MaxKeys, MaxKeyTime

VARIABLES
  made, keys, keysOff, usage, store, saving, req, keyNow, revoked, raced, grants

Api == INSTANCE ApiKeys WITH MaxTime <- MaxKeyTime, disabled <- keysOff, now <- keyNow

(***************************************************************************)
(* What RevokedRefused rests on.  A revoked key is out of memory or is     *)
(* disabled, and so is it in the store that a restart reads, and no first  *)
(* save of it is under way that could enable it there again.  A validation *)
(* knows whether its key was revoked before it began; until the check has  *)
(* been made only the first part stops it.                                 *)
(***************************************************************************)
KeyPlaces == {"idle", "found", "checked", "granted", "refused"}

KeysKnown ==
  /\ made \in Seq([scopes : SUBSET Api!Scopes, expiry : Nat]) /\ Len(made) <= MaxKeys
  /\ keys \subseteq DOMAIN made /\ keysOff \subseteq DOMAIN made /\ saving \subseteq DOMAIN made
  /\ DOMAIN store \subseteq DOMAIN made /\ DOMAIN usage \subseteq DOMAIN made
  /\ revoked \subseteq DOMAIN made
  /\ keyNow \in 0..MaxKeyTime

KeysChecked ==
  /\ req \in [Requests -> [at : KeyPlaces, key : Nat, scope : Api!Scopes, late : BOOLEAN]]
  /\ \A r \in Requests :
       /\ req[r].at # "idle" => req[r].key \in DOMAIN made
       /\ req[r].at \in {"checked", "granted"} => Api!hasScope(req[r].key, req[r].scope)

RevokedInv ==
  ~raced =>
    /\ \A k \in revoked : /\ k \notin saving /\ (k \in keys => k \in keysOff)
                          /\ k \in DOMAIN store => ~store[k]
    /\ \A r \in Requests :
         /\ req[r].at = "found" /\ req[r].late => req[r].key \in keysOff
         /\ req[r].at \in {"checked", "granted"} => ~req[r].late

KInv == KeysKnown /\ KeysChecked /\ RevokedInv

LEMMA KeysInit == MaxKeys \in Nat /\ MaxKeyTime \in Nat /\ Api!Init => KInv
  BY DEF Api!Init, KInv, KeysKnown, KeysChecked, RevokedInv, Api!Idle, KeyPlaces, Api!Scopes

\* A step of a validation: only its own place changes, and usage and grants.
LEMMA ValidationStep ==
  ASSUME KInv, NEW r \in Requests,
         UNCHANGED <<made, keys, keysOff, store, saving, keyNow, revoked, raced>>,
         DOMAIN usage' \subseteq DOMAIN made,
         NEW q \in [at : KeyPlaces, key : Nat, scope : Api!Scopes, late : BOOLEAN],
         req' = [req EXCEPT ![r] = q],
         q.at # "idle" => q.key \in DOMAIN made,
         q.at \in {"checked", "granted"} => Api!hasScope(q.key, q.scope),
         ~raced /\ q.at = "found" /\ q.late => q.key \in keysOff,
         ~raced /\ q.at \in {"checked", "granted"} => ~q.late
  PROVE  KInv'
<1>1. KeysKnown'
  BY DEF KInv, KeysKnown
<1>2. req' \in [Requests -> [at : KeyPlaces, key : Nat, scope : Api!Scopes, late : BOOLEAN]]
  BY DEF KInv, KeysChecked
<1>3. req'[r] = q /\ \A s \in Requests \ {r} : req'[s] = req[s]
  BY DEF KInv, KeysChecked
<1>4. KeysChecked'
  BY <1>2, <1>3 DEF KInv, KeysChecked, Api!hasScope
<1>5. RevokedInv'
  BY <1>3 DEF KInv, RevokedInv
<1> QED
  BY <1>1, <1>4, <1>5 DEF KInv

LEMMA GenerateKeyInv ==
  ASSUME KInv, MaxKeys \in Nat, NEW scopes \in {{"read"}, {"admin"}}, NEW expiry \in {0, keyNow + 1},
         Api!GenerateKey(scopes, expiry)
  PROVE  KInv'
<1> DEFINE k == Len(made) + 1
           entry == [scopes |-> scopes, expiry |-> expiry]
<1>0. /\ Len(made) < MaxKeys /\ made' = Append(made, entry)
      /\ keys' = keys \cup {k} /\ saving' = saving \cup {k}
      /\ UNCHANGED <<keysOff, usage, store, req, keyNow, revoked, raced, grants>>
  BY DEF Api!GenerateKey
<1>1. entry \in [scopes : SUBSET Api!Scopes, expiry : Nat]
  BY DEF KInv, KeysKnown, Api!Scopes
<1>2. /\ made' \in Seq([scopes : SUBSET Api!Scopes, expiry : Nat]) /\ Len(made') = Len(made) + 1
      /\ Len(made) \in Nat /\ DOMAIN made = 1..Len(made) /\ DOMAIN made' = 1..(Len(made) + 1)
      /\ \A j \in DOMAIN made : made'[j] = made[j]
  <2>1. made \in Seq([scopes : SUBSET Api!Scopes, expiry : Nat])
    BY DEF KInv, KeysKnown
  <2> DEFINE S == [scopes : SUBSET Api!Scopes, expiry : Nat]
  <2> HIDE DEF entry
  <2>2. made' = Append(made, entry)
    BY Zenon, <1>0
  <2>3. made \in Seq(S) /\ entry \in S
    BY Zenon, <1>1, <2>1
  <2>4. S = [scopes : SUBSET Api!Scopes, expiry : Nat]
    BY Zenon
  <2> HIDE DEF S
  <2>5. /\ Append(made, entry) \in Seq(S) /\ Len(Append(made, entry)) = Len(made) + 1
        /\ Len(made) \in Nat /\ DOMAIN made = 1..Len(made)
        /\ DOMAIN Append(made, entry) = 1..(Len(made) + 1)
        /\ \A j \in DOMAIN made : Append(made, entry)[j] = made[j]
    BY <2>3, Appended
  <2> QED
    BY Zenon, <2>2, <2>4, <2>5
<1>3. k \in DOMAIN made' /\ DOMAIN made \subseteq DOMAIN made' /\ k \notin DOMAIN made
  BY <1>2
<1>4. KeysKnown'
  <2>1. Len(made') <= MaxKeys
    <3>1. ASSUME NEW n \in Nat, n < MaxKeys PROVE n + 1 <= MaxKeys
      BY <3>1
    <3> QED
      BY Zenon, <1>0, <1>2, <3>1
  <2>2. /\ keys' \subseteq DOMAIN made' /\ keysOff' \subseteq DOMAIN made' /\ saving' \subseteq DOMAIN made'
        /\ DOMAIN store' \subseteq DOMAIN made' /\ DOMAIN usage' \subseteq DOMAIN made'
        /\ revoked' \subseteq DOMAIN made' /\ keyNow' \in 0..MaxKeyTime
    <3> HIDE DEF k
    <3> QED
      BY Zenon, <1>0, <1>3 DEF KInv, KeysKnown
  <2> QED
    BY Zenon, <1>2, <2>1, <2>2 DEF KeysKnown
<1>5. KeysChecked'
  BY <1>0, <1>2, <1>3 DEF KInv, KeysChecked, Api!hasScope, KeyPlaces
<1>6. RevokedInv'
  BY <1>0, <1>3 DEF KInv, KeysKnown, RevokedInv
<1> QED
  BY <1>4, <1>5, <1>6 DEF KInv

LEMMA SaveKeyInv ==
  ASSUME KInv, NEW k \in saving, Api!SaveKey(k) \/ Api!FailSave(k)
  PROVE  KInv'
<1>0. /\ saving' = saving \ {k} /\ keys' \subseteq keys
      /\ UNCHANGED <<made, keysOff, usage, req, keyNow, revoked, raced>>
      /\ DOMAIN store' \subseteq DOMAIN store \cup {k}
      /\ \A j \in DOMAIN store' : j # k => j \in DOMAIN store /\ store'[j] = store[j]
  <2>1. CASE Api!SaveKey(k)
    BY Zenon, <2>1 DEF Api!SaveKey, Api!With
  <2>2. CASE Api!FailSave(k)
    BY <2>2 DEF Api!FailSave
  <2> QED
    BY <2>1, <2>2
<1>2. KeysKnown' /\ KeysChecked'
  BY <1>0 DEF KInv, KeysKnown, KeysChecked, Api!hasScope
<1>3. RevokedInv'
  <2>1. ~raced => k \notin revoked
    BY DEF KInv, RevokedInv
  <2> QED
    BY <1>0, <2>1 DEF KInv, RevokedInv
<1> QED
  BY <1>2, <1>3 DEF KInv

LEMMA RevokeInv ==
  ASSUME KInv, NEW k \in Api!Ids, Api!RevokeKey(k) \/ Api!DeleteKey(k)
  PROVE  KInv'
<1>0. /\ k \in keys /\ keys' \subseteq keys /\ keysOff \subseteq keysOff' /\ keysOff' \subseteq keysOff \cup {k}
      /\ DOMAIN usage' \subseteq DOMAIN usage /\ raced' = (raced \/ k \in saving)
      /\ revoked' = revoked \/ revoked' = revoked \cup {k}
      /\ UNCHANGED <<made, saving, req, keyNow>>
      /\ k \in keys' => k \in keysOff'
  <2>1. CASE Api!RevokeKey(k)
    BY <2>1 DEF Api!RevokeKey
  <2>2. CASE Api!DeleteKey(k)
    BY <2>2 DEF Api!DeleteKey, Api!Without
  <2> QED
    BY <2>1, <2>2
<1>1. /\ DOMAIN store' \subseteq DOMAIN store \cup {k}
      /\ \A j \in DOMAIN store' : j # k => j \in DOMAIN store /\ store'[j] = store[j]
      /\ \/ ~store'[k]
         \/ k \in DOMAIN store' => k \in DOMAIN store /\ store'[k] = store[k] /\ revoked' = revoked
  <2>1. CASE Api!RevokeKey(k)
    <3>1. CASE store' = Api!With(store, k, FALSE)
      BY Zenon, <3>1 DEF Api!With
    <3> QED
      BY Zenon, <2>1, <3>1 DEF Api!RevokeKey, Api!RevokedInStore
  <2>2. CASE Api!DeleteKey(k)
    <3>1. CASE store' = Api!Without(store, k)
      BY <3>1 DEF Api!Without
    <3> QED
      BY <2>2, <3>1 DEF Api!DeleteKey
  <2> QED
    BY <2>1, <2>2
<1>2. KeysKnown' /\ KeysChecked'
  BY <1>0, <1>1 DEF KInv, KeysKnown, KeysChecked, Api!hasScope
<1>3. RevokedInv'
  <2> SUFFICES ASSUME ~raced, k \notin saving PROVE RevokedInv'
    BY Zenon, <1>0 DEF RevokedInv
  <2>1. \A j \in revoked' : /\ j \notin saving' /\ (j \in keys' => j \in keysOff')
                            /\ j \in DOMAIN store' => ~store'[j]
    <3> SUFFICES ASSUME NEW j \in revoked'
                 PROVE  /\ j \notin saving /\ (j \in keys' => j \in keysOff')
                        /\ j \in DOMAIN store' => ~store'[j]
      BY Zenon, <1>0
    <3>1. CASE j = k
      BY <1>0, <1>1, <3>1 DEF KInv, RevokedInv
    <3>2. CASE j # k
      <4>1. j \in revoked
        BY <1>0, <3>2
      <4> QED
        BY <1>0, <1>1, <3>2, <4>1 DEF KInv, RevokedInv
    <3> QED
      BY Zenon, <3>1, <3>2
  <2>2. \A r \in Requests :
          /\ req'[r].at = "found" /\ req'[r].late => req'[r].key \in keysOff'
          /\ req'[r].at \in {"checked", "granted"} => ~req'[r].late
    BY <1>0 DEF KInv, RevokedInv
  <2> QED
    BY <2>1, <2>2 DEF RevokedInv
<1> QED
  BY <1>2, <1>3 DEF KInv

LEMMA ValidateInv ==
  ASSUME KInv, NEW r \in Requests,
         \/ \E k \in Api!Ids, scope \in {"read", "write"} : Api!Lookup(r, k, scope)
         \/ Api!Check(r) \/ Api!CheckRateLimit(r) \/ Api!Answer(r)
  PROVE  KInv'
<1>0. /\ req[r] \in [at : KeyPlaces, key : Nat, scope : Api!Scopes, late : BOOLEAN]
      /\ DOMAIN usage \subseteq DOMAIN made /\ DOMAIN made \subseteq Nat
  BY DEF KInv, KeysKnown, KeysChecked
<1>1. ASSUME NEW k \in Api!Ids, NEW scope \in {"read", "write"}, Api!Lookup(r, k, scope)
      PROVE  KInv'
  <2> DEFINE q == [at |-> IF k \in keys THEN "found" ELSE "refused", key |-> k, scope |-> scope,
                   late |-> k \in revoked]
  <2>1. /\ req' = [req EXCEPT ![r] = q] /\ k \in DOMAIN made
        /\ UNCHANGED <<made, keys, keysOff, usage, store, saving, keyNow, revoked, raced>>
    BY Zenon, <1>1 DEF Api!Lookup
  <2>2. q \in [at : KeyPlaces, key : Nat, scope : Api!Scopes, late : BOOLEAN]
    <3>1. k \in Nat /\ scope \in Api!Scopes /\ (k \in revoked) \in BOOLEAN
      <4>1. k \in Nat
        BY Zenon, <1>0, <2>1
      <4>2. scope \in Api!Scopes
        BY Zenon DEF Api!Scopes
      <4>3. (k \in revoked) \in BOOLEAN
        OBVIOUS
      <4> QED
        BY Zenon, <4>1, <4>2, <4>3
    <3>2. (IF k \in keys THEN "found" ELSE "refused") \in KeyPlaces
      BY DEF KeyPlaces
    <3> QED
      BY Zenon, <3>1, <3>2
  <2>3. ~raced /\ q.at = "found" /\ q.late => q.key \in keysOff
    <3>1. /\ q.at = "found" => k \in keys
          /\ q.late => k \in revoked
          /\ q.key = k
      BY Zenon
    <3>2. ~raced /\ k \in keys /\ k \in revoked => k \in keysOff
      BY DEF KInv, RevokedInv
    <3> HIDE DEF q
    <3> QED
      BY Zenon, <3>1, <3>2
  <2>4. /\ q.at # "idle" => q.key \in DOMAIN made
        /\ q.at \notin {"checked", "granted"}
    BY <2>1
  <2> HIDE DEF q
  <2> QED
    BY Zenon, <1>0, <2>1, <2>2, <2>3, <2>4, ValidationStep
<1>2. ASSUME NEW to \in {"checked", "granted", "refused"}, req' = [req EXCEPT ![r].at = to],
             UNCHANGED <<made, keys, keysOff, store, saving, keyNow, revoked, raced>>,
             DOMAIN usage' \subseteq DOMAIN made, req[r].at # "idle",
             to \in {"checked", "granted"} =>
               /\ Api!hasScope(req[r].key, req[r].scope)
               /\ ~raced => ~req[r].late
      PROVE  KInv'
  <2> DEFINE q == [req[r] EXCEPT !.at = to]
  <2>1. /\ q \in [at : KeyPlaces, key : Nat, scope : Api!Scopes, late : BOOLEAN]
        /\ q.at = to /\ q.key = req[r].key /\ q.scope = req[r].scope /\ q.late = req[r].late
    BY <1>0, <1>2 DEF KeyPlaces
  <2>2. req' = [req EXCEPT ![r] = q] /\ q.key \in DOMAIN made
    BY <1>2, <2>1 DEF KInv, KeysChecked
  <2> HIDE DEF q
  <2> QED
    BY Zenon, <1>2, <2>1, <2>2, ValidationStep
<1>3. CASE Api!Check(r)
  <2>1. Api!Passes(req[r].key, req[r].scope) =>
          Api!hasScope(req[r].key, req[r].scope) /\ (~raced => ~req[r].late)
    BY <1>3 DEF Api!Check, Api!Passes, KInv, RevokedInv
  <2> QED
    BY Zenon, <1>0, <1>2, <1>3, <2>1 DEF Api!Check
<1>4. CASE Api!CheckRateLimit(r)
  <2>0. /\ req[r].at = "checked" /\ UNCHANGED <<made, keys, keysOff, store, saving, keyNow, revoked, raced>>
        /\ \/ req' = [req EXCEPT ![r].at = "granted"]
           \/ req' = [req EXCEPT ![r].at = "refused"]
        /\ DOMAIN usage' \subseteq DOMAIN usage \cup {req[r].key}
    BY <1>4 DEF Api!CheckRateLimit, Api!With
  <2>1. Api!hasScope(req[r].key, req[r].scope) /\ (~raced => ~req[r].late) /\ req[r].key \in DOMAIN made
    BY <2>0 DEF KInv, KeysChecked, RevokedInv
  <2> QED
    BY <1>0, <1>2, <2>0, <2>1
<1>5. CASE Api!Answer(r)
  <2>1. /\ Api!Idle \in [at : KeyPlaces, key : Nat, scope : Api!Scopes, late : BOOLEAN] /\ Api!Idle.at = "idle"
        /\ req' = [req EXCEPT ![r] = Api!Idle]
        /\ UNCHANGED <<made, keys, keysOff, usage, store, saving, keyNow, revoked, raced>>
    BY <1>5 DEF Api!Answer, Api!Idle, KeyPlaces, Api!Scopes
  <2> QED
    BY Zenon, <1>0, <2>1, ValidationStep
<1> QED
  BY <1>1, <1>3, <1>4, <1>5

LEMMA ReadKeysInv ==
  ASSUME KInv, Api!Restart
  PROVE  KInv'
<1>0. /\ keys' = DOMAIN store /\ keysOff' = {k \in DOMAIN store : ~store[k]} /\ usage' = <<>>
      /\ saving' = {} /\ req' = [r \in Requests |-> Api!Idle]
      /\ UNCHANGED <<made, store, keyNow, revoked, raced>>
  BY DEF Api!Restart
<1>1. KeysKnown'
  BY <1>0 DEF KInv, KeysKnown
<1>2. KeysChecked' /\ RevokedInv'
  BY <1>0 DEF KInv, KeysChecked, RevokedInv, Api!Idle, KeyPlaces, Api!Scopes
<1> QED
  BY <1>1, <1>2 DEF KInv

LEMMA KeysStep ==
  ASSUME MaxKeys \in Nat, MaxKeyTime \in Nat, KInv, [Api!Next]_(Api!vars)
  PROVE  KInv'
<1>1. CASE Api!Tick
  <2>1. UNCHANGED <<made, keys, keysOff, usage, store, saving, req, revoked, raced>>
    BY Zenon, <1>1 DEF Api!Tick
  <2>2. keyNow' \in 0..MaxKeyTime
    <3>1. keyNow < MaxKeyTime /\ keyNow' = keyNow + 1
      BY Zenon, <1>1 DEF Api!Tick
    <3>2. keyNow \in 0..MaxKeyTime
      BY Zenon DEF KInv, KeysKnown
    <3> QED
      BY <3>1, <3>2
  <2>3. KeysKnown'
    BY Zenon, <2>1, <2>2 DEF KInv, KeysKnown
  <2>4. KeysChecked'
    BY Zenon, <2>1 DEF KInv, KeysChecked, Api!hasScope
  <2>5. RevokedInv'
    BY Zenon, <2>1 DEF KInv, RevokedInv
  <2> QED
    BY Zenon, <2>3, <2>4, <2>5 DEF KInv
<1>2. CASE UNCHANGED Api!vars
  <2>1. UNCHANGED <<made, keys, keysOff, usage, store, saving, req, keyNow, revoked, raced>>
    BY Zenon, <1>2 DEF Api!vars
  <2>2. KeysKnown'
    BY Zenon, <2>1 DEF KInv, KeysKnown
  <2>3. KeysChecked'
    BY Zenon, <2>1 DEF KInv, KeysChecked, Api!hasScope
  <2>4. RevokedInv'
    BY Zenon, <2>1 DEF KInv, RevokedInv
  <2> QED
    BY Zenon, <2>2, <2>3, <2>4 DEF KInv
<1> QED
  BY <1>1, <1>2, GenerateKeyInv, SaveKeyInv, RevokeInv, ValidateInv, ReadKeysInv DEF Api!Next

\* GenerateKey, ValidateKey: the maps hold keys that were made, and a validation that is
\* past its checks was made for a scope of its key, for any number of keys and validations.
THEOREM KeysTyped == ASSUME MaxKeys \in Nat, MaxKeyTime \in Nat PROVE Api!Spec => []Api!TypeOK
<1>1. KInv => Api!TypeOK
  BY DEF KInv, KeysKnown, KeysChecked, Api!TypeOK, KeyPlaces, Api!hasScope
<1> QED
  BY <1>1, KeysInit, KeysStep, PTL DEF Api!Spec

\* RevokeKey, DeleteKey, LoadKeys: a validation that begins after a key was revoked or
\* deleted is never granted, not even after a restart, unless the key was being saved.
THEOREM RevokedCorrect == ASSUME MaxKeys \in Nat, MaxKeyTime \in Nat PROVE Api!Spec => []Api!RevokedRefused
<1>1. KInv => Api!RevokedRefused
  BY DEF KInv, RevokedInv, Api!RevokedRefused
<1> QED
  BY <1>1, KeysInit, KeysStep, PTL DEF Api!Spec

----------------------------------------------------------------------------
CONSTANTS
  Callers, SecretTypes, Env, MaxRotations, MaxReloads

VARIABLES
  secrets, reloading, reloadCount, calls, cachedKey, signed, events, generated, answers, started

Vault == INSTANCE Secrets WITH Types <- SecretTypes, key <- cachedKey, tokens <- signed

(***************************************************************************)
(* Secrets: the versions that SetSecret gives out and the flag of          *)
(* ReloadAll.  A version is read and the next one stored under one lock,   *)
(* so a caller that reads a value earlier and stores it later cannot make  *)
(* a version twice; only a caller that set the flag is in a reload.        *)
(***************************************************************************)
CallType ==
  [pc : {"idle", "copy", "each", "set", "store"}, todo : SUBSET SecretTypes, type : SecretTypes,
   val : Nat, old : Nat, ver : Nat, failed : BOOLEAN]

\* The environment has numbers for values, and the token secret is one of the secrets.
EnvOK == "jwt" \in SecretTypes /\ Env \in [SecretTypes -> Nat] /\ MaxRotations \in Nat

SecretsTyped ==
  /\ secrets \in [SecretTypes -> [val : Nat, ver : Nat, env : BOOLEAN]]
  /\ calls \in [Callers -> CallType] /\ generated \in Nat

VInv == SecretsTyped /\ Vault!VersionsExact /\ Vault!OneReload

LEMMA IdleCall == ASSUME EnvOK PROVE Vault!Idle \in CallType /\ Vault!Idle.pc = "idle"
  BY DEF EnvOK, Vault!Idle, CallType

LEMMA SecretsInit == ASSUME EnvOK, Vault!Init PROVE VInv
<1>1. SecretsTyped
  BY IdleCall DEF EnvOK, Vault!Init, SecretsTyped, Vault!LastGenerated
<1>2. Vault!VersionsExact
  <2> SUFFICES ASSUME NEW t \in SecretTypes
               PROVE  {e[3] : e \in {e \in {} : e[1] = t}} = 2..secrets[t].ver
    BY DEF Vault!Init, Vault!VersionsExact
  <2>1. secrets[t].ver \in {0, 1}
    BY DEF Vault!Init
  <2> QED
    BY <2>1
<1>3. Vault!OneReload
  BY IdleCall DEF Vault!Init, Vault!OneReload, Vault!InReload
<1> QED
  BY <1>1, <1>2, <1>3 DEF VInv

\* A step of one caller that leaves the flag and whether it is in a reload alone.
LEMMA CallStep ==
  ASSUME SecretsTyped, Vault!OneReload, NEW c \in Callers, NEW k \in CallType,
         calls' = [calls EXCEPT ![c] = k], UNCHANGED reloading,
         k.pc \in {"copy", "each", "set"} <=> Vault!InReload(c)
  PROVE  calls' \in [Callers -> CallType] /\ Vault!OneReload'
<1>1. /\ calls' \in [Callers -> CallType] /\ calls'[c] = k
      /\ \A d \in Callers : d # c => calls'[d] = calls[d]
  BY DEF SecretsTyped
<1>2. \A d \in Callers : Vault!InReload(d)' <=> Vault!InReload(d)
  BY <1>1 DEF Vault!InReload
<1> QED
  BY <1>1, <1>2 DEF Vault!OneReload

\* SetSecret: the next version, and the event that tells of it.
LEMMA SetSecretExact ==
  ASSUME SecretsTyped, Vault!VersionsExact, NEW c \in Callers, NEW t \in SecretTypes,
         NEW value \in Nat, NEW fromEnv \in BOOLEAN, Vault!SetSecret(c, t, value, fromEnv)
  PROVE  Vault!VersionsExact' /\ secrets' \in [SecretTypes -> [val : Nat, ver : Nat, env : BOOLEAN]]
<1> DEFINE v == secrets[t].ver
           seen(s) == {e \in events : e[1] = s}
           seenNow(s) == {e \in events' : e[1] = s}
<1>0. v \in Nat
  BY DEF SecretsTyped
<1>1. /\ secrets' \in [SecretTypes -> [val : Nat, ver : Nat, env : BOOLEAN]]
      /\ secrets'[t].ver = v + 1
      /\ \A s \in SecretTypes : s # t => secrets'[s] = secrets[s]
  BY <1>0 DEF SecretsTyped, Vault!SetSecret, Vault!NextVersion
<1>2. events' = IF v = 0 THEN events ELSE events \cup {<<t, v, v + 1>>}
  BY DEF Vault!SetSecret, Vault!NextVersion
<1>3. ASSUME NEW s \in SecretTypes
      PROVE  {e[3] : e \in seen(s)} = 2..secrets[s].ver /\ \A e \in seen(s) : e[3] = e[2] + 1
  BY DEF Vault!VersionsExact
<1>4. ASSUME NEW s \in SecretTypes
      PROVE  {e[3] : e \in seenNow(s)} = 2..secrets'[s].ver /\ \A e \in seenNow(s) : e[3] = e[2] + 1
  <2>0. ASSUME NEW A, NEW p
        PROVE  /\ p[1] # s => {e \in A \cup {p} : e[1] = s} = {e \in A : e[1] = s}
               /\ p[1] = s => {e \in A \cup {p} : e[1] = s} = {e \in A : e[1] = s} \cup {p}
    BY Zenon
  <2>1. CASE s # t
    <3>1. seenNow(s) = seen(s)
      BY Zenon, <1>2, <2>0, <2>1
    <3> QED
      BY Zenon, <1>1, <1>3, <2>1, <3>1
  <2>2. CASE s = t /\ v = 0
    <3>1. seenNow(s) = seen(s)
      BY Zenon, <1>2, <2>2
    <3>2. 2..0 = {} /\ 2..1 = {} /\ 0 + 1 = 1
      OBVIOUS
    <3>3. secrets[s].ver = 0 /\ secrets'[s].ver = 1
      BY Zenon, <1>1, <2>2, <3>2
    <3> QED
      BY Zenon, <1>3, <3>1, <3>2, <3>3
  <2>3. CASE s = t /\ v # 0
    <3>1. seenNow(s) = seen(s) \cup {<<t, v, v + 1>>}
      BY Zenon, <1>2, <2>0, <2>3
    <3>2. {e[3] : e \in seenNow(s)} = {e[3] : e \in seen(s)} \cup {v + 1}
      <4>1. ASSUME NEW A, NEW p PROVE {e[3] : e \in A \cup {p}} = {e[3] : e \in A} \cup {p[3]}
        BY Zenon
      <4>2. <<t, v, v + 1>>[3] = v + 1
        OBVIOUS
      <4> HIDE DEF seen, seenNow
      <4>3. {e[3] : e \in seen(s) \cup {<<t, v, v + 1>>}} = {e[3] : e \in seen(s)} \cup {<<t, v, v + 1>>[3]}
        BY Zenon, <4>1
      <4> QED
        BY Zenon, <3>1, <4>2, <4>3
    <3>3. 2..secrets'[s].ver = 2..v \cup {v + 1}
      BY <1>0, <1>1, <2>3
    <3>4. {e[3] : e \in seenNow(s)} = 2..secrets'[s].ver
      BY Zenon, <1>3, <2>3, <3>2, <3>3
    <3>5. \A e \in seenNow(s) : e[3] = e[2] + 1
      BY <1>3, <3>1
    <3> QED
      BY Zenon, <3>4, <3>5
  <2> QED
    BY Zenon, <2>1, <2>2, <2>3
<1> QED
  BY <1>1, <1>4 DEF Vault!VersionsExact

\* Each step of a reload, of a rotation and of a login.
LEMMA SecretsStep == ASSUME EnvOK, VInv, [Vault!Next]_(Vault!vars) PROVE VInv'
<1> USE DEF VInv
<1>1. ASSUME NEW c \in Callers, NEW k \in CallType, calls' = [calls EXCEPT ![c] = k],
             UNCHANGED <<secrets, events, reloading>>, generated' \in Nat,
             k.pc \in {"copy", "each", "set"} <=> Vault!InReload(c)
      PROVE  VInv'
  <2>1. calls' \in [Callers -> CallType] /\ Vault!OneReload'
    BY Zenon, <1>1, CallStep
  <2>2. SecretsTyped'
    BY <1>1, <2>1 DEF SecretsTyped
  <2>3. Vault!VersionsExact'
    BY <1>1 DEF Vault!VersionsExact
  <2> QED
    BY Zenon, <2>1, <2>2, <2>3
<1>2. ASSUME NEW c \in Callers, NEW t \in SecretTypes, NEW value \in Nat, NEW fromEnv \in BOOLEAN,
             Vault!SetSecret(c, t, value, fromEnv), UNCHANGED <<reloading, generated>>,
             NEW k \in CallType, calls' = [calls EXCEPT ![c] = k],
             k.pc \in {"copy", "each", "set"} <=> Vault!InReload(c)
      PROVE  VInv'
  <2>1. calls' \in [Callers -> CallType] /\ Vault!OneReload'
    BY Zenon, <1>2, CallStep
  <2>2. Vault!VersionsExact' /\ secrets' \in [SecretTypes -> [val : Nat, ver : Nat, env : BOOLEAN]]
    BY Zenon, <1>2, SetSecretExact
  <2>3. SecretsTyped'
    BY <1>2, <2>1, <2>2 DEF SecretsTyped
  <2> QED
    BY Zenon, <2>1, <2>2, <2>3
<1>3. ASSUME NEW c \in Callers PROVE calls[c] \in CallType
  BY DEF SecretsTyped
<1>4. ASSUME NEW c \in Callers, Vault!ReloadAll(c) PROVE VInv'
  <2>1. CASE reloading
    BY <1>4, <2>1 DEF Vault!ReloadAll, Vault!MayReload, SecretsTyped, Vault!VersionsExact,
                      Vault!OneReload, Vault!InReload
  <2>2. CASE ~reloading
    <3> DEFINE k == [Vault!Idle EXCEPT !.pc = "copy"]
    <3>1. k \in CallType /\ k.pc = "copy"
      BY IdleCall DEF CallType
    <3>2. reloading' = TRUE /\ calls' = [calls EXCEPT ![c] = k] /\ UNCHANGED <<secrets, events, generated>>
      BY <1>4, <2>2 DEF Vault!ReloadAll, Vault!MayReload
    <3> HIDE DEF k
    <3>3. SecretsTyped' /\ calls'[c] = k /\ \A d \in Callers : d # c => calls'[d] = calls[d]
      BY <3>1, <3>2 DEF SecretsTyped
    <3>4. Vault!OneReload'
      BY <2>2, <3>1, <3>2, <3>3 DEF Vault!OneReload, Vault!InReload
    <3>5. Vault!VersionsExact'
      BY Zenon, <3>2 DEF Vault!VersionsExact
    <3> QED
      BY <3>3, <3>4, <3>5
  <2> QED
    BY <2>1, <2>2
<1>5. ASSUME NEW c \in Callers, Vault!CopySecrets(c) PROVE VInv'
  <2> DEFINE todo == {t \in SecretTypes : secrets[t].ver > 0 /\ secrets[t].env}
             k == [calls[c] EXCEPT !.pc = "each", !.todo = todo]
  <2>1. k \in CallType /\ k.pc = "each"
    BY Zenon, <1>3 DEF CallType
  <2>2. /\ calls[c].pc = "copy" /\ calls' = [calls EXCEPT ![c] = k]
        /\ UNCHANGED <<secrets, events, reloading, generated>>
    BY Zenon, <1>5 DEF Vault!CopySecrets, SecretsTyped
  <2> HIDE DEF k
  <2> QED
    BY Zenon, <1>1, <2>1, <2>2 DEF Vault!InReload, SecretsTyped
<1>6. ASSUME NEW c \in Callers, NEW t \in SecretTypes, Vault!ReloadFromEnv(c, t) PROVE VInv'
  <2> DEFINE value == IF secrets[t].env THEN Env[t] ELSE 0
             rest == [calls[c] EXCEPT !.todo = calls[c].todo \ {t}]
             unset == [rest EXCEPT !.failed = TRUE]
             found == [rest EXCEPT !.pc = "set", !.type = t, !.val = value, !.ver = secrets[t].ver]
             k == IF value = 0 THEN unset ELSE found
  <2>1. rest \in CallType /\ rest.pc = calls[c].pc
    BY <1>3 DEF CallType
  <2>2. value \in Nat /\ secrets[t].ver \in Nat
    BY DEF EnvOK, SecretsTyped
  <2>3. unset \in CallType /\ unset.pc = calls[c].pc /\ found \in CallType /\ found.pc = "set"
    <3> HIDE DEF rest, value
    <3> QED
      BY Zenon, <2>1, <2>2 DEF CallType
  <2>4. /\ calls[c].pc = "each" /\ calls' = [calls EXCEPT ![c] = k]
        /\ UNCHANGED <<secrets, events, reloading, generated>>
    BY <1>6 DEF Vault!ReloadFromEnv, Vault!Remaining
  <2>5. k \in CallType /\ k.pc \in {"each", "set"}
    BY Zenon, <2>3, <2>4
  <2> HIDE DEF k
  <2> QED
    BY Zenon, <1>1, <2>4, <2>5 DEF Vault!InReload, SecretsTyped
<1>7. ASSUME NEW c \in Callers, Vault!ReloadSet(c) PROVE VInv'
  <2> DEFINE k == [calls[c] EXCEPT !.pc = "each"]
  <2>1. k \in CallType /\ k.pc = "each" /\ calls[c].type \in SecretTypes /\ calls[c].val \in Nat
    BY <1>3 DEF CallType
  <2>2. /\ calls[c].pc = "set" /\ calls' = [calls EXCEPT ![c] = k]
        /\ Vault!SetSecret(c, calls[c].type, calls[c].val, TRUE) /\ UNCHANGED <<reloading, generated>>
    BY Zenon, <1>7 DEF Vault!ReloadSet
  <2> HIDE DEF k
  <2> QED
    BY Zenon, <1>2, <2>1, <2>2 DEF Vault!InReload
<1>8. ASSUME NEW c \in Callers, Vault!ReloadEnd(c) PROVE VInv'
  <2>1. /\ Vault!InReload(c) /\ reloading' = FALSE /\ calls' = [calls EXCEPT ![c] = Vault!Idle]
        /\ UNCHANGED <<secrets, events, generated>>
    BY <1>8 DEF Vault!ReloadEnd, Vault!InReload
  <2>2. SecretsTyped' /\ calls'[c].pc = "idle" /\ \A d \in Callers : d # c => calls'[d] = calls[d]
    BY <2>1, IdleCall DEF SecretsTyped
  <2>3. Vault!OneReload'
    BY <2>1, <2>2 DEF Vault!OneReload, Vault!InReload
  <2>4. Vault!VersionsExact'
    BY <2>1 DEF Vault!VersionsExact
  <2> QED
    BY <2>2, <2>3, <2>4
<1>9. ASSUME NEW c \in Callers, Vault!RotateRead(c) PROVE VInv'
  <2> DEFINE k == [Vault!Idle EXCEPT !.pc = "store", !.val = generated + 1,
                                     !.old = secrets["jwt"].val, !.ver = secrets["jwt"].ver]
  <2>1. secrets["jwt"].val \in Nat /\ secrets["jwt"].ver \in Nat /\ generated + 1 \in Nat
    BY DEF EnvOK, SecretsTyped
  <2>2. k \in CallType /\ k.pc = "store"
    BY Zenon, <2>1, IdleCall DEF CallType
  <2>3. /\ calls[c].pc = "idle" /\ calls' = [calls EXCEPT ![c] = k] /\ generated' \in Nat
        /\ UNCHANGED <<secrets, events, reloading>>
    BY <1>9, <2>1 DEF Vault!RotateRead
  <2> HIDE DEF k
  <2> QED
    BY Zenon, <1>1, <2>2, <2>3 DEF Vault!InReload
<1>10. ASSUME NEW c \in Callers, Vault!RotateStore(c) PROVE VInv'
  <2>1. /\ calls[c].pc = "store" /\ calls' = [calls EXCEPT ![c] = Vault!Idle]
        /\ Vault!SetSecret(c, "jwt", calls[c].val, FALSE) /\ UNCHANGED <<reloading, generated>>
    BY Zenon, <1>10 DEF Vault!RotateStore
  <2>2. calls[c].val \in Nat /\ "jwt" \in SecretTypes
    BY <1>3 DEF CallType, EnvOK
  <2> QED
    BY Zenon, <1>2, <2>1, <2>2, IdleCall DEF Vault!InReload
<1>11. CASE Vault!GenerateJWT \/ UNCHANGED Vault!vars
  <2>1. UNCHANGED <<secrets, reloading, calls, events, generated>>
    BY <1>11 DEF Vault!GenerateJWT, Vault!vars
  <2>2. SecretsTyped'
    BY Zenon, <2>1 DEF SecretsTyped
  <2>3. Vault!VersionsExact'
    BY Zenon, <2>1 DEF Vault!VersionsExact
  <2>4. Vault!OneReload'
    BY Zenon, <2>1 DEF Vault!OneReload, Vault!InReload
  <2> QED
    BY Zenon, <2>2, <2>3, <2>4
<1> QED
  BY Zenon, <1>4, <1>5, <1>6, <1>7, <1>8, <1>9, <1>10, <1>11 DEF Vault!Next, Vault!Steps

\* SetSecret, whatever ReloadAll and RotateJWTSecret run at the same time: the versions of a
\* secret have no gap and no repetition, and the callbacks are told of each change once.
THEOREM VersionsCorrect == ASSUME EnvOK PROVE Vault!Spec => []Vault!VersionsExact
<1>1. VInv => Vault!VersionsExact
  BY DEF VInv
<1> QED
  BY <1>1, SecretsInit, SecretsStep, PTL DEF Vault!Spec

\* ReloadAll: one reload at a time, and the flag is set just while it runs.
THEOREM ReloadCorrect == ASSUME EnvOK PROVE Vault!Spec => []Vault!OneReload
<1>1. VInv => Vault!OneReload
  BY DEF VInv
<1> QED
  BY <1>1, SecretsInit, SecretsStep, PTL DEF Vault!Spec
==============================================================================
