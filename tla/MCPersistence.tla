--------------------------- MODULE MCPersistence ---------------------------
(***************************************************************************)
(* Small instances of everything that keeps its state on disk or in a      *)
(* database: the store of rules, its logs and statistics, the blocklist of *)
(* the threat feeds, the allowlist, the two layers above PostgreSQL, and   *)
(* the start of the program, which creates tables and accounts.            *)
(* They share no state, so a behaviour is of one instance: part says which *)
(* one, the variables of Store keep their initial values in the instances  *)
(* of the other modules, and the rest the value Unused.                    *)
(***************************************************************************)
EXTENDS Store, Sequences, TLC

CONSTANTS Switches, None, Torn, lo, x, wide, small

VARIABLES
  part,
  logs, stats, saved,                                             \* StoreStats
  blockedIPs, cidrBlocks, refresh, done, custom, atStop, overlap, failed,
  writer, blocklist, newList,                                     \* ThreatIntel
  enabled, entries, cidrs, keyOf, off, store, saving, raced, unsaved, missed,  \* IpAllow
  state, starts, migration, users, nextUser, sessions, audits, adding, cutShort,  \* PgStore
  counters, rows, pager,                                          \* PgStore, Database
  call, late, table, threats,                                     \* Database
  conf, reachable, downs, flaky, runs, pc, pg, redis, unconnected, manager, limiter, engine, backend,
  at, drawn, tables, accounts, disabled, changed, printed, together   \* Startup

statVars == <<logs, stats, saved>>
threatVars == <<blockedIPs, cidrBlocks, refresh, done, custom, atStop, overlap, failed,
                writer, blocklist, newList>>
allowVars == <<enabled, entries, cidrs, keyOf, off, store, saving, raced, unsaved, missed>>
pgVars == <<state, starts, migration, users, nextUser, sessions, audits, adding, cutShort>>
sqlVars == <<counters, rows, pager>>
callVars == <<call, late, table, threats>>
startVars == <<conf, reachable, downs, flaky, runs, pc, pg, redis, unconnected, manager, limiter,
               engine, backend, at, drawn, tables, accounts, disabled, changed, printed, together>>
dbVars == <<pgVars, sqlVars, callVars, startVars>>
otherVars == <<part, statVars, threatVars, allowVars, dbVars>>
allVars == <<vars, otherVars>>

Unused == "unused"
NoStats == logs = Unused /\ stats = Unused /\ saved = Unused
NoThreat == /\ blockedIPs = Unused /\ cidrBlocks = Unused /\ refresh = Unused
            /\ done = Unused /\ custom = Unused /\ atStop = Unused /\ overlap = Unused
            /\ failed = Unused /\ writer = Unused /\ blocklist = Unused /\ newList = Unused
NoAllow == /\ enabled = Unused /\ entries = Unused /\ cidrs = Unused /\ keyOf = Unused
           /\ off = Unused /\ store = Unused /\ saving = Unused /\ raced = Unused
           /\ unsaved = Unused /\ missed = Unused
NoPg == /\ state = Unused /\ starts = Unused /\ migration = Unused /\ users = Unused
        /\ nextUser = Unused /\ sessions = Unused /\ audits = Unused /\ adding = Unused
        /\ cutShort = Unused
NoCalls == call = Unused /\ late = Unused /\ table = Unused /\ threats = Unused
NoStart == /\ conf = Unused /\ reachable = Unused /\ downs = Unused /\ flaky = Unused
           /\ runs = Unused /\ pc = Unused /\ pg = Unused /\ redis = Unused /\ unconnected = Unused
           /\ manager = Unused /\ limiter = Unused /\ engine = Unused /\ backend = Unused
           /\ at = Unused /\ drawn = Unused /\ tables = Unused /\ accounts = Unused
           /\ disabled = Unused /\ changed = Unused /\ printed = Unused /\ together = Unused
NoSql == NoPg /\ NoCalls /\ counters = Unused /\ rows = Unused /\ pager = Unused
NoDb == NoSql /\ NoStart

\* Store itself has a default rule and one more, with overlapping calls of Save.  Of the
\* rules of an instance those that may come back after their deletion, Defaults \cup
\* FileRules, are the same as in Store, so that Durable means the same in all of them.

\* A rule of the rules file and one of the core rule set, which is switched on and off.
Merge == INSTANCE Store WITH
  Ids <- {1, 3}, Defaults <- {}, FileRules <- {1}, CrsRules <- {3}, CustomRange <- {1},
  Savers <- {"s"}, Togglers <- Switches

\* A rule of the core rule set whose ID is in the range of custom rules.
Shared == INSTANCE Store WITH
  Ids <- {3}, CrsRules <- {3}, CustomRange <- {3}, Defaults <- {}, Savers <- {"s"},
  Togglers <- Switches

Stats == INSTANCE StoreStats WITH KeptLogs <- 3, MaxRequests <- 5

\* A feed with a range and one with an address of it.
Threat == INSTANCE ThreatIntel WITH
  IPs <- {"x", "y"}, Ranges <- {"n"},
  Covers <- [n |-> {"x", "y"}], Feeds <- << <<"n">>, <<"y">> >>,
  saver <- writer, file <- blocklist, tmp <- newList

\* Two overlapping ranges, and a loopback address.
Allow == INSTANCE IpAllow WITH
  IPs <- {lo, x}, Ranges <- {wide, small}, Loopback <- {lo}, AllowLocalhost <- TRUE,
  Covers <- [r \in {wide, small} |-> IF r = wide THEN {lo, x} ELSE {x}], MaxEntries <- 2

\* Users, sessions, audit entries and rules of PostgresStore.
Users == INSTANCE PgStore WITH
  rules <- rows,
  Names <- {"a", "b"}, Emails <- {"e", "f"}, MaxUsers <- 3, SessionIds <- {"s"}, MaxAudits <- 2,
  Callers <- {}, Times <- {}, Statuses <- {}, RuleIds <- {1}, PageSizes <- {},
  DefaultPage <- 1, LargestPage <- 2, MaxStarts <- 1

\* Two callers of AddLog, over a restart.
Counts == INSTANCE PgStore WITH
  rules <- rows,
  Names <- {}, Emails <- {}, MaxUsers <- 0, SessionIds <- {}, MaxAudits <- 0,
  Callers <- {"c1", "c2"}, Times <- {1, 2, 3}, Statuses <- {"Blocked", "ThreatBlocked", "Flagged", "Safe"},
  RuleIds <- {}, PageSizes <- {}, DefaultPage <- 1, LargestPage <- 2, MaxStarts <- 2

\* A client that reads the log page by page while it grows; limits below, at and above
\* the largest page.
Pages == INSTANCE PgStore WITH
  rules <- rows,
  Names <- {}, Emails <- {}, MaxUsers <- 0, SessionIds <- {}, MaxAudits <- 0,
  Callers <- {"c1"}, Times <- {1, 2, 3}, Statuses <- {"Blocked", "Safe"},
  RuleIds <- {}, PageSizes <- {0, 3}, DefaultPage <- 1, LargestPage <- 2, MaxStarts <- 1

\* The statements of database.Manager.
Sql == INSTANCE Database WITH
  rules <- rows,
  Calls <- {}, Statement <- <<>>, Sizes <- {}, DefaultPage <- 1, LargestPage <- 2

\* Upserts of the same address and counter, each of which may time out.
Upserts == INSTANCE Database WITH
  rules <- rows,
  Calls <- 1 .. 4, Sizes <- {}, DefaultPage <- 1, LargestPage <- 2,
  Statement <- << Sql!SaveThreatIntel("x", TRUE), Sql!SaveThreatIntel("x", FALSE),
                  Sql!IncrementStat("n", 2), Sql!IncrementStat("n", 1) >>

\* A rule that is saved twice, deleted, and counted.
RuleRows == INSTANCE Database WITH
  rules <- rows,
  Calls <- 1 .. 4, Sizes <- {}, DefaultPage <- 1, LargestPage <- 2,
  Statement <- << Sql!SaveWAFRule(1, "a"), Sql!SaveWAFRule(1, "b"), Sql!DeleteWAFRule(1),
                  Sql!IncrementStat("n", 1) >>

\* Three log tables, one of them read page by page while it grows.
Inserts == INSTANCE Database WITH
  rules <- rows,
  Calls <- 1 .. 4, Sizes <- {0, 3}, DefaultPage <- 1, LargestPage <- 2,
  Statement <- << Sql!InsertAttackLog(2), Sql!InsertAttackLog(1), Sql!InsertAuditLog(1),
                  Sql!InsertRuleAuditLog(1) >>

\* Two processes that start, crash and start again against servers that go down once.
Boot == INSTANCE Startup WITH
  Instances <- Savers, DefaultUsers <- <<"admin", "viewer">>, NMigrations <- 2,
  MaxStarts <- 2, MaxDowns <- 1, MaxChanges <- 1,
  starts <- runs, failed <- unconnected, overlap <- together

StoresInit ==
  \/ part = "rules" /\ Init /\ NoStats /\ NoThreat /\ NoAllow /\ NoDb
  \/ part = "merge" /\ Merge!Init /\ NoStats /\ NoThreat /\ NoAllow /\ NoDb
  \/ part = "shared" /\ Shared!Init /\ NoStats /\ NoThreat /\ NoAllow /\ NoDb
  \/ /\ Init
     /\ \/ part = "stats" /\ Stats!Init /\ NoThreat /\ NoAllow /\ NoDb
        \/ part = "threat" /\ Threat!Init /\ NoStats /\ NoAllow /\ NoDb
        \/ part = "allow" /\ Allow!Init /\ NoStats /\ NoThreat /\ NoDb
        \/ part = "start" /\ Boot!Init /\ NoStats /\ NoThreat /\ NoAllow /\ NoSql
        \/ /\ NoThreat /\ NoAllow /\ NoStart /\ stats = Unused /\ saved = Unused
           /\ \/ /\ NoCalls
                 /\ \/ part = "users" /\ Users!Init
                    \/ part = "counts" /\ Counts!Init
                    \/ part = "pages" /\ Pages!Init
              \/ /\ NoPg /\ logs = Unused
                 /\ \/ part = "upserts" /\ Upserts!Init
                    \/ part = "ruleRows" /\ RuleRows!Init
                    \/ part = "inserts" /\ Inserts!Init

StoresNext ==
  \/ part = "rules" /\ Next /\ UNCHANGED otherVars
  \/ part = "merge" /\ Merge!Next /\ UNCHANGED otherVars
  \/ part = "shared" /\ Shared!Next /\ UNCHANGED otherVars
  \/ part = "stats" /\ Stats!Next /\ UNCHANGED <<part, vars, threatVars, allowVars, dbVars>>
  \/ part = "threat" /\ Threat!Next /\ UNCHANGED <<part, vars, statVars, allowVars, dbVars>>
  \/ part = "allow" /\ Allow!Next /\ UNCHANGED <<part, vars, statVars, threatVars, dbVars>>
  \/ /\ part = "start" /\ Boot!Next
     /\ UNCHANGED <<part, vars, statVars, threatVars, allowVars, pgVars, sqlVars, callVars>>
  \/ /\ UNCHANGED <<part, vars, stats, saved, threatVars, allowVars, startVars>>
     /\ \/ part = "users" /\ Users!Next /\ UNCHANGED callVars
        \/ part = "counts" /\ Counts!Next /\ UNCHANGED callVars
        \/ part = "pages" /\ Pages!Next /\ UNCHANGED callVars
        \/ part = "upserts" /\ Upserts!Next /\ UNCHANGED <<pgVars, logs>>
        \/ part = "ruleRows" /\ RuleRows!Next /\ UNCHANGED <<pgVars, logs>>
        \/ part = "inserts" /\ Inserts!Next /\ UNCHANGED <<pgVars, logs>>

StoresSpec == StoresInit /\ [][StoresNext]_allVars

\* Type invariant of each instance.
StoresTypeOK ==
  CASE part = "rules" -> TypeOK
    [] part = "merge" -> Merge!TypeOK
    [] part = "shared" -> Shared!TypeOK
    [] part = "stats" -> Stats!TypeOK
    [] part = "threat" -> Threat!TypeOK
    [] part = "allow" -> Allow!TypeOK
    [] part = "users" -> Users!TypeOK
    [] part = "counts" -> Counts!TypeOK
    [] part = "pages" -> Pages!TypeOK
    [] part = "upserts" -> Upserts!TypeOK
    [] part = "ruleRows" -> RuleRows!TypeOK
    [] part = "inserts" -> Inserts!TypeOK
    [] part = "start" -> Boot!TypeOK

\* Memory and store agree: data.json parses whenever nobody is writing, after a crash too,
\* although Save holds its lock for reading only, the rules shown are in PostgreSQL, the
\* statistics of AddLog add up, IsAllowed enforces the list that is shown, and the stored
\* list follows it (see SavedWhole and DbHasRules in Store, StatsAddUp in StoreStats, and
\* AllowedIffListed and StoreFollows in IpAllow).
StoresAgree ==
  /\ StoresTypeOK
  /\ part = "rules" => SavedWhole /\ DbHasRules
  /\ part = "stats" => Stats!StatsAddUp
  /\ part = "allow" => Allow!AllowedIffListed /\ Allow!StoreFollows

\* CheckIP finds what administrators blocked and, when no refresh runs or failed, every
\* range of the feeds; what was blocked when Service.Stop was called is on disk when it
\* returns, and the file parses whenever nobody is writing (see CustomBlocked,
\* RangesComplete, StopPersists and FileWhole in ThreatIntel).
ThreatsBlocked ==
  part = "threat" =>
    /\ Threat!CustomBlocked /\ Threat!RangesComplete
    /\ Threat!StopPersists /\ Threat!FileWhole

\* The rows of PostgreSQL fit together: sessions and audit entries lead to the users they
\* belong to, AddLog's counters account for every row over failures and restarts, and
\* what a call of the Manager was told is done is stored, once (see OwnersKept and
\* LogsCounted in PgStore and AnsweredIsStored in Database).
RowsConsistent ==
  /\ part = "users" => Users!OwnersKept
  /\ part = "counts" => Counts!LogsCounted
  /\ part = "upserts" => Upserts!AnsweredIsStored
  /\ part = "ruleRows" => RuleRows!AnsweredIsStored
  /\ part = "inserts" => Inserts!AnsweredIsStored

\* Reading the logs page after page misses no row that was there at the start, while
\* rows are added, with any limit (see PagesComplete in PgStore and Database).
PagesComplete ==
  /\ part = "pages" => Pages!PagesComplete
  /\ part = "inserts" => Inserts!PagesComplete

\* A program that serves is connected to every kind of database it could reach, the
\* one-time password it printed is the one that is stored, unless two instances created
\* the users together, and no start undoes a change of an account (see
\* ConnectsWhatItCan and PasswordsWork in Startup).
StartsRight == part = "start" => Boot!ConnectsWhatItCan /\ Boot!PasswordsWork

\* addEntry: "Persist (rollback memory on failure)" (see RollbackIsOwn in IpAllow).
RollbackIsOwn == part = "allow" => Allow!RollbackIsOwn

Symmetry == Permutations(Savers) \cup Permutations(Switches)
=============================================================================
