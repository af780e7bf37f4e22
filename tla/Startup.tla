------------------------------ MODULE Startup ------------------------------
(***************************************************************************)
(* The start of the program: main up to its first request, with the        *)
(* connections of database.New, the migrations and the default users.      *)
(*                                                                         *)
(* Several instances may start, crash and start again against the same two *)
(* PostgreSQL servers (the primary one and the local fallback) and Redis,  *)
(* which go down and come back.  A statement on a server that is down      *)
(* fails.  Passwords are numbered in the order in which they are drawn.    *)
(***************************************************************************)
EXTENDS Naturals, Sequences, FiniteSets

CONSTANTS
  Instances,
  DefaultUsers,     \* the sequence admin, analyst, viewer
  NMigrations,      \* statements of RunMigrations; the first creates the users
  MaxStarts, MaxDowns, MaxChanges

VARIABLES
  conf,             \* the servers that have a URL in the environment
  reachable, downs, \* servers that answer now; times that one stopped
  flaky,            \* history: servers that were ever down
  starts,
  pc,               \* instance -> where its main is
  pg, redis,        \* its connections
  failed,           \* it met a connection error in New
  manager,          \* dbManager is not nil
  limiter, engine, backend,   \* what main chose
  at,               \* the statement or the default user that is next
  drawn,            \* the one-time password it has drawn
  tables, accounts, \* server -> statements applied; server -> user -> password
  disabled,         \* accounts <<server, user>> that are not enabled
  changed,          \* history: <<account, what UpdateUserPassword or UpdateUser set last>>
  printed,          \* <<server, user, password>> on some console
  overlap           \* history: servers on which two instances created users at once

netVars == <<conf, reachable, downs, flaky>>
linkVars == <<pg, redis, failed, manager>>
choiceVars == <<limiter, engine, backend>>
dbVars == <<tables, accounts, disabled, changed>>
vars == <<netVars, starts, pc, linkVars, choiceVars, at, drawn, dbVars, printed, overlap>>

Servers == {"primary", "local"}
Users == {DefaultUsers[k] : k \in DOMAIN DefaultUsers}
NoPassword == 0
Chosen == 1            \* a password that its user chose
Creating == {"check", "insert", "print"}

Init ==
  /\ conf \in SUBSET {"primary", "local", "redis"}
  /\ reachable = conf /\ downs = 0 /\ flaky = {}
  /\ starts = 0
  /\ pc = [i \in Instances |-> "off"]
  /\ pg = [i \in Instances |-> "none"] /\ redis = [i \in Instances |-> FALSE]
  /\ failed = [i \in Instances |-> FALSE] /\ manager = [i \in Instances |-> FALSE]
  /\ limiter = [i \in Instances |-> "none"] /\ engine = [i \in Instances |-> "none"]
  /\ backend = [i \in Instances |-> "none"]
  /\ at = [i \in Instances |-> 1] /\ drawn = [i \in Instances |-> NoPassword]
  /\ tables = [s \in Servers |-> 0]
  /\ accounts = [s \in Servers |-> [u \in Users |-> NoPassword]]
  /\ disabled = {} /\ changed = {}
  /\ printed = {} /\ overlap = {}

Goto(i, l) == pc' = [pc EXCEPT ![i] = l]

(***************************************************************************)
(* database.New                                                            *)
(***************************************************************************)

\* Flags, environment, logging and the security manager, which refuse no value of
\* their settings.
Start(i) ==
  /\ pc[i] = "off" /\ starts < MaxStarts
  /\ starts' = starts + 1
  /\ Goto(i, "primary")
  /\ UNCHANGED <<netVars, linkVars, choiceVars, at, drawn, dbVars, printed, overlap>>

\* connectPostgres: the pool is used only after a ping.
ConnectPrimary(i) ==
  /\ pc[i] = "primary"
  /\ LET ok == "primary" \in reachable IN
     /\ pg' = [pg EXCEPT ![i] = IF ok THEN "primary" ELSE "none"]
     /\ failed' = [failed EXCEPT ![i] = "primary" \in conf /\ ~ok /\ "local" \notin conf]
     /\ Goto(i, IF ~ok /\ "local" \in conf THEN "local" ELSE "redis")
  /\ UNCHANGED <<netVars, starts, redis, manager, choiceVars, at, drawn, dbVars, printed, overlap>>

ConnectLocal(i) ==
  /\ pc[i] = "local"
  /\ pg' = [pg EXCEPT ![i] = IF "local" \in reachable THEN "local" ELSE "none"]
  /\ failed' = [failed EXCEPT ![i] = "local" \notin reachable]
  /\ Goto(i, "redis")
  /\ UNCHANGED <<netVars, starts, redis, manager, choiceVars, at, drawn, dbVars, printed, overlap>>

\* Redis is tried whatever became of PostgreSQL.
TriesRedis(i) == "redis" \in conf

\* connectRedis, and the error when nothing could be connected; main goes on without.
ConnectRedis(i) ==
  /\ pc[i] = "redis"
  /\ LET ok == TriesRedis(i) /\ "redis" \in reachable
         errors == failed[i] \/ ("redis" \in conf /\ ~ok) IN
     /\ redis' = [redis EXCEPT ![i] = ok]
     /\ failed' = [failed EXCEPT ![i] = errors]
     /\ manager' = [manager EXCEPT ![i] = ~(pg[i] = "none" /\ ~ok /\ errors)]
  /\ at' = [at EXCEPT ![i] = 1]
  /\ Goto(i, IF pg[i] = "none" THEN "wire" ELSE "migrate")
  /\ UNCHANGED <<netVars, starts, pg, choiceVars, drawn, dbVars, printed, overlap>>

(***************************************************************************)
(* RunMigrations and InsertDefaultUsers                                    *)
(***************************************************************************)
Answers(i) == pg[i] \in reachable

\* CREATE TABLE IF NOT EXISTS, and the like: done again they change nothing.
RunMigration(i) ==
  /\ pc[i] = "migrate" /\ Answers(i)
  /\ tables' = [tables EXCEPT ![pg[i]] = IF @ < at[i] THEN at[i] ELSE @]
  /\ at' = [at EXCEPT ![i] = IF at[i] = NMigrations THEN 1 ELSE @ + 1]
  /\ Goto(i, IF at[i] = NMigrations THEN "check" ELSE "migrate")
  /\ UNCHANGED <<netVars, starts, linkVars, choiceVars, drawn, accounts, disabled, changed, printed, overlap>>

\* The first error ends the migrations; main warns and goes on to the users.
MigrationFails(i) ==
  /\ pc[i] = "migrate" /\ ~Answers(i)
  /\ at' = [at EXCEPT ![i] = 1]
  /\ Goto(i, "check")
  /\ UNCHANGED <<netVars, starts, linkVars, choiceVars, drawn, dbVars, printed, overlap>>

\* Where InsertDefaultUsers goes after the user at[i].
AfterUser(i) ==
  /\ at' = [at EXCEPT ![i] = @ + 1]
  /\ Goto(i, IF at[i] = Len(DefaultUsers) THEN "wire" ELSE "check")

\* Mutant: the check for the user is dropped.
ExistsNot(i) == FALSE

Exists(i) == accounts[pg[i]][DefaultUsers[at[i]]] # NoPassword

\* SELECT EXISTS: an error when the server is down or has no table of users yet.
CheckUser(i) ==
  /\ pc[i] = "check"
  /\ IF ~Answers(i) \/ tables[pg[i]] = 0 THEN Goto(i, "wire") /\ UNCHANGED <<at, drawn, overlap>>
     ELSE IF Exists(i) THEN AfterUser(i) /\ UNCHANGED <<drawn, overlap>>
     ELSE /\ drawn' = [drawn EXCEPT ![i] = Chosen + starts * Len(DefaultUsers) + at[i]]
          /\ overlap' = IF \E j \in Instances \ {i} : pg[j] = pg[i] /\ pc[j] \in Creating
                        THEN overlap \cup {pg[i]} ELSE overlap
          /\ Goto(i, "insert") /\ UNCHANGED at
  /\ UNCHANGED <<netVars, starts, linkVars, choiceVars, dbVars, printed>>

\* INSERT ... ON CONFLICT (username) DO NOTHING; how many rows it made is not looked at.
InsertUser(i) ==
  /\ pc[i] = "insert"
  /\ LET s == pg[i] u == DefaultUsers[at[i]] IN
     accounts' = IF Answers(i) /\ accounts[s][u] = NoPassword
                 THEN [accounts EXCEPT ![s][u] = drawn[i]] ELSE accounts
  /\ Goto(i, IF Answers(i) THEN "print" ELSE "wire")
  /\ UNCHANGED <<netVars, starts, linkVars, choiceVars, at, drawn, tables, disabled, changed, printed, overlap>>

PrintPassword(i) ==
  /\ pc[i] = "print"
  /\ printed' = printed \cup {<<pg[i], DefaultUsers[at[i]], drawn[i]>>}
  /\ AfterUser(i)
  /\ UNCHANGED <<netVars, starts, linkVars, choiceVars, drawn, dbVars, overlap>>

(***************************************************************************)
(* The rest of main                                                        *)
(***************************************************************************)

\* Cache, store, rate limiter (over Redis it has a fallback of its own), GeoIP, alerts,
\* security services and engine: an error makes it go on with less, and only a fallback engine
\* or user interface that cannot be made would end it.
Wire(i) ==
  /\ pc[i] = "wire"
  /\ backend' = [backend EXCEPT ![i] = IF manager[i] /\ pg[i] # "none" THEN "postgres" ELSE "memory"]
  /\ limiter' = [limiter EXCEPT ![i] = IF manager[i] /\ redis[i] THEN "redis" ELSE "memory"]
  /\ \E e \in {"full", "fallback"} : engine' = [engine EXCEPT ![i] = e]
  /\ Goto(i, "serving")
  /\ UNCHANGED <<netVars, starts, linkVars, at, drawn, dbVars, printed, overlap>>

\* GetUserByUsername and GetAllUsers: the accounts of the server it is connected to.
GetAllUsers(i) == {u \in Users : accounts[pg[i]][u] # NoPassword}

\* UPDATE users SET ... WHERE username: an error when it changes no row.
UpdateUserPassword(i, u) ==
  /\ pc[i] = "serving" /\ Answers(i) /\ u \in GetAllUsers(i)
  /\ Cardinality(changed) < MaxChanges
  /\ accounts' = [accounts EXCEPT ![pg[i]][u] = Chosen]
  /\ changed' = changed \cup {<<pg[i], u, "password">>}
  /\ UNCHANGED <<netVars, starts, pc, linkVars, choiceVars, at, drawn, tables, disabled, printed, overlap>>

UpdateUser(i, u, enabled) ==
  /\ pc[i] = "serving" /\ Answers(i) /\ u \in GetAllUsers(i)
  /\ enabled \/ Cardinality(changed) < MaxChanges
  /\ disabled' = IF enabled THEN disabled \ {<<pg[i], u>>} ELSE disabled \cup {<<pg[i], u>>}
  /\ changed' = LET c == {<<pg[i], u, "disabled">>} IN
                IF enabled THEN changed \ c ELSE changed \cup c
  /\ UNCHANGED <<netVars, starts, pc, linkVars, choiceVars, at, drawn, tables, accounts, printed, overlap>>

\* A crash at any point; the servers keep what they have.
Crash(i) ==
  /\ pc[i] # "off"
  /\ Goto(i, "off")
  /\ pg' = [pg EXCEPT ![i] = "none"] /\ redis' = [redis EXCEPT ![i] = FALSE]
  /\ failed' = [failed EXCEPT ![i] = FALSE] /\ manager' = [manager EXCEPT ![i] = FALSE]
  /\ limiter' = [limiter EXCEPT ![i] = "none"] /\ engine' = [engine EXCEPT ![i] = "none"]
  /\ backend' = [backend EXCEPT ![i] = "none"]
  /\ at' = [at EXCEPT ![i] = 1] /\ drawn' = [drawn EXCEPT ![i] = NoPassword]
  /\ UNCHANGED <<netVars, starts, dbVars, printed, overlap>>

GoesDown(s) ==
  /\ s \in reachable /\ downs < MaxDowns
  /\ reachable' = reachable \ {s} /\ downs' = downs + 1 /\ flaky' = flaky \cup {s}
  /\ UNCHANGED <<conf, starts, pc, linkVars, choiceVars, at, drawn, dbVars, printed, overlap>>

ComesBack(s) ==
  /\ s \in conf \ reachable
  /\ reachable' = reachable \cup {s}
  /\ UNCHANGED <<conf, downs, flaky, starts, pc, linkVars, choiceVars, at, drawn, dbVars, printed, overlap>>

Step(i) ==
  \/ ConnectPrimary(i) \/ ConnectLocal(i) \/ ConnectRedis(i)
  \/ RunMigration(i) \/ MigrationFails(i)
  \/ CheckUser(i) \/ InsertUser(i) \/ PrintPassword(i) \/ Wire(i)

Next ==
  \/ \E i \in Instances : Start(i) \/ Step(i) \/ Crash(i)
  \/ \E i \in Instances, u \in Users : UpdateUserPassword(i, u) \/ \E on \in BOOLEAN : UpdateUser(i, u, on)
  \/ \E s \in {"primary", "local", "redis"} : GoesDown(s) \/ ComesBack(s)

\* Every step of main ends: connections and pings have timeouts.
Fairness == \A i \in Instances : WF_vars(Step(i))

Spec == Init /\ [][Next]_vars
FairSpec == Spec /\ Fairness

(***************************************************************************)
(* Properties                                                              *)
(***************************************************************************)

\* Types of the variables.
TypeOK ==
  /\ reachable \subseteq conf
  /\ \A i \in Instances :
       /\ pg[i] \in Servers \cup {"none"} /\ limiter[i] \in {"none", "memory", "redis"}
       /\ at[i] \in 1 .. Len(DefaultUsers) + NMigrations
  /\ tables \in [Servers -> 0 .. NMigrations]
  /\ \A p \in printed : p[1] \in Servers /\ p[2] \in Users

\* New: "It tries to connect to each database independently - one failing won't prevent
\* the other from connecting".  A program that serves is connected to every kind of
\* database of which a configured server was never down, PostgreSQL over the fallback
\* too; and it counts in Redis then.
ConnectsWhatItCan ==
  \A i \in Instances : pc[i] = "serving" =>
    /\ (conf \cap Servers) \ flaky # {} => pg[i] # "none" /\ backend[i] = "postgres"
    /\ "redis" \in conf \ flaky => redis[i] /\ limiter[i] = "redis"
    /\ ~manager[i] => failed[i] /\ pg[i] = "none" /\ ~redis[i]

Changed(s, u, what) == <<s, u, what>> \in changed

\* InsertDefaultUsers: the one-time password that is printed is the one that is stored
\* until its user chooses another, after any crashes, restarts and failures, unless two
\* instances created the users of one server at the same time; no start undoes a chosen
\* password or enables an account again; and a program that serves from a server that
\* was never down finds all default users there.
PasswordsWork ==
  /\ \A p \in printed : p[1] \notin overlap =>
       accounts[p[1]][p[2]] = p[3] \/ Changed(p[1], p[2], "password")
  /\ \A s \in Servers, u \in Users :
       /\ Changed(s, u, "password") => accounts[s][u] = Chosen
       /\ Changed(s, u, "disabled") => <<s, u>> \in disabled
  /\ \A i \in Instances : pc[i] = "serving" /\ pg[i] # "none" /\ pg[i] \notin flaky =>
       \A u \in Users : accounts[pg[i]][u] # NoPassword

\* main: every start ends in serving requests, unless the process crashes, whatever
\* servers are down.
StartsServing == \A i \in Instances : pc[i] = "primary" ~> pc[i] \in {"serving", "off"}

(***************************************************************************)
(* Claims of the comments that the code does not keep                      *)
(***************************************************************************)

\* "This is only done on the very first creation of the user." (database.go:589): two
\* instances that start together both print a password, and one of them is not stored.
PrintedOnCreation == \A p \in printed : accounts[p[1]][p[2]] = p[3]

\* "These passwords are printed to the console on first startup" (database.go:534): a
\* crash after the INSERT leaves an account whose password nobody has seen.
CreatedArePrinted ==
  \A s \in Servers, u \in Users : accounts[s][u] # NoPassword =>
    \/ <<s, u, accounts[s][u]>> \in printed
    \/ \E i \in Instances : pc[i] = "print" /\ drawn[i] = accounts[s][u]
=============================================================================
