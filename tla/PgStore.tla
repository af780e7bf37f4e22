------------------------------ MODULE PgStore ------------------------------
(***************************************************************************)
(* PostgresStore: the tables of users, sessions, audit entries, request    *)
(* logs, rules and counters, the operations on them, and the migrations    *)
(* that create them.  Every call of the pool is one statement, atomic in   *)
(* the server, and it may fail; an operation of several statements may be  *)
(* cut short between them by an error or by a crash.                       *)
(*                                                                         *)
(* The server (external) keeps what is committed, refuses a duplicate key  *)
(* or a dangling reference, and never hands out a serial number twice.     *)
(* An operation that is refused and leaves every table as it was (an       *)
(* update or a delete of no row, a duplicate rule) is a stuttering step.   *)
(***************************************************************************)
EXTENDS Paging, Sequences

CONSTANTS
  Names, Emails,       \* of users
  MaxUsers,            \* bound on the serial numbers of users
  SessionIds, MaxAudits,
  Callers,             \* goroutines in AddLog
  Times, Statuses,     \* of log entries; the timestamps are distinct
  RuleIds,
  PageSizes,           \* the limits that a client may ask for
  MaxStarts            \* bound on the starts of the program

VARIABLES
  state,               \* "closed", "migrating" or "open"
  starts,
  migration,           \* the next statement of migrate
  users, nextUser,     \* id -> user; the serial
  sessions,            \* id -> owner
  audits,              \* sequence of [user, by]: by is who acted
  logs,                \* timestamp -> status
  counters,            \* name -> value, for the rows of waf_stats
  rules,               \* id -> enabled
  adding,              \* caller -> where its AddLog is, and the status it logs
  cutShort,            \* AddLog calls that ended after the row and before the last counter
  pager                \* a client that reads the log page by page

accountVars == <<users, nextUser, sessions, audits>>
logVars == <<logs, counters, adding, cutShort>>
serverVars == <<accountVars, logs, counters, rules>>
vars == <<state, starts, migration, accountVars, logVars, rules, pager>>

Absent == 0                    \* a user_id that is NULL
Idle == [at |-> "idle"]
Parts == {"blocked_requests", "flagged_requests", "safe_requests"}
Counters == Parts \cup {"total_requests"}

\* The statements of migrate; the indexes change no table and are left out.
Migrations == << "users", "waf_logs", "waf_rules", "waf_stats", "counter rows",
                 "audit_logs", "rule_audit_log", "sessions" >>

Without(f, k) == [x \in DOMAIN f \ {k} |-> f[x]]
With(f, k, v) == [x \in DOMAIN f \cup {k} |-> IF x = k THEN v ELSE f[x]]

\* Mutant: the counters are set to 0 when the program starts.
InsertCountersAfresh(c) == [n \in Counters |-> 0]

\* INSERT ... ON CONFLICT (stat_name) DO NOTHING
InsertCounters(c) == [n \in Counters |-> IF n \in DOMAIN c THEN c[n] ELSE 0]

\* INSERT ... ON CONFLICT (stat_name) DO UPDATE SET stat_value = waf_stats.stat_value + 1
IncrementStat(c, n) == With(c, n, IF n \in DOMAIN c THEN c[n] + 1 ELSE 1)

StatName(status) ==
  CASE status \in {"Blocked", "ThreatBlocked"} -> "blocked_requests"
    [] status = "Flagged" -> "flagged_requests"
    [] OTHER -> "safe_requests"

Init ==
  /\ state = "closed" /\ starts = 0 /\ migration = 1
  /\ users = <<>> /\ nextUser = 1 /\ sessions = <<>> /\ audits = <<>>
  /\ logs = <<>> /\ counters = <<>> /\ rules = <<>>
  /\ adding = [c \in Callers |-> Idle] /\ cutShort = 0
  /\ pager = Idle

(***************************************************************************)
(* Opening and closing                                                     *)
(***************************************************************************)

\* Connect and ping; migrate starts from the first statement at every start.
NewPostgresStore ==
  /\ state = "closed" /\ starts < MaxStarts
  /\ state' = "migrating" /\ starts' = starts + 1 /\ migration' = 1
  /\ UNCHANGED <<accountVars, logVars, rules, pager>>

Migrate ==
  /\ state = "migrating"
  /\ migration' = migration + 1
  /\ state' = IF migration = Len(Migrations) THEN "open" ELSE state
  /\ counters' = IF Migrations[migration] = "counter rows"
                 THEN InsertCounters(counters) ELSE counters
  /\ UNCHANGED <<starts, accountVars, logs, adding, cutShort, rules, pager>>

\* Calls of AddLog that have stored their row when the process ends.
InFlight == {c \in Callers : adding[c].at # "idle"}

\* A statement of migrate fails (the pool is closed), Close, or a crash: what is
\* committed stays, the goroutines do not.
Ends ==
  /\ state # "closed"
  /\ state' = "closed"
  /\ cutShort' = cutShort + Cardinality(InFlight)
  /\ adding' = [c \in Callers |-> Idle] /\ pager' = Idle
  /\ UNCHANGED <<starts, migration, serverVars>>

(***************************************************************************)
(* Users, sessions and audit entries                                       *)
(***************************************************************************)
Open == state = "open" /\ UNCHANGED <<state, starts, migration>>

Taken(n, e) == \E i \in DOMAIN users : users[i].name = n \/ users[i].email = e

\* The serial is used up also when isPgDuplicateError turns the insert into
\* ErrDuplicateUser.
CreateUser(n, e) ==
  /\ Open /\ nextUser <= MaxUsers
  /\ nextUser' = nextUser + 1
  /\ users' = IF Taken(n, e) THEN users
              ELSE With(users, nextUser, [name |-> n, email |-> e, enabled |-> TRUE])
  /\ UNCHANGED <<sessions, audits, logVars, rules, pager>>

UpdateUser(i, e, on) ==
  /\ Open
  /\ \A j \in DOMAIN users \ {i} : users[j].email # e
  /\ users' = [users EXCEPT ![i].email = e, ![i].enabled = on]
  /\ UNCHANGED <<nextUser, sessions, audits, logVars, rules, pager>>

\* sessions: ON DELETE CASCADE
Cascade(i) == [s \in {t \in DOMAIN sessions : sessions[t] # i} |-> sessions[s]]

\* audit_logs: ON DELETE SET NULL
SetNull(i) ==
  [k \in DOMAIN audits |-> IF audits[k].user = i THEN [audits[k] EXCEPT !.user = Absent]
                           ELSE audits[k]]

DeleteUser(i) ==
  /\ Open
  /\ users' = Without(users, i)
  /\ sessions' = Cascade(i)
  /\ audits' = SetNull(i)
  /\ UNCHANGED <<nextUser, logVars, rules, pager>>

\* The caller looked the user up earlier: the user may be gone, and the insert refused.
CreateSession(s, i) ==
  /\ Open
  /\ s \notin DOMAIN sessions /\ i \in DOMAIN users
  /\ sessions' = With(sessions, s, i)
  /\ UNCHANGED <<users, nextUser, audits, logVars, rules, pager>>

DeleteSession(s) ==
  /\ Open
  /\ sessions' = Without(sessions, s)
  /\ UNCHANGED <<users, nextUser, audits, logVars, rules, pager>>

DeleteUserSessions(i) ==
  /\ Open
  /\ sessions' = Cascade(i)
  /\ UNCHANGED <<users, nextUser, audits, logVars, rules, pager>>

AddAuditLog(i) ==
  /\ Open /\ Len(audits) < MaxAudits
  /\ audits' = Append(audits, [user |-> i, by |-> users[i].name])
  /\ UNCHANGED <<users, nextUser, sessions, logVars, rules, pager>>

\* GetUser and GetUserByID: the user, or ErrUserNotFound.
GetUser(n) == {i \in DOMAIN users : users[i].name = n}
GetUserByID(i) == DOMAIN users \cap {i}

\* GetSession, and then the owner by id.
SessionOwner(s) == GetUserByID(sessions[s])

(***************************************************************************)
(* Rules                                                                   *)
(***************************************************************************)
CreateRule(r, on) ==
  /\ Open
  /\ r \notin DOMAIN rules
  /\ rules' = With(rules, r, on)
  /\ UNCHANGED <<accountVars, logVars, pager>>

UpdateRule(r, on) ==
  /\ Open
  /\ r \in DOMAIN rules
  /\ rules' = [rules EXCEPT ![r] = on]
  /\ UNCHANGED <<accountVars, logVars, pager>>

DeleteRule(r) ==
  /\ Open
  /\ r \in DOMAIN rules
  /\ rules' = Without(rules, r)
  /\ UNCHANGED <<accountVars, logVars, pager>>

(***************************************************************************)
(* Request logs and their counters                                         *)
(***************************************************************************)

\* AddLog, its three statements: the row, total_requests, and the counter of its status.
AddRow(c, t, status) ==
  /\ Open
  /\ adding[c] = Idle /\ t \notin DOMAIN logs
  /\ logs' = With(logs, t, status)
  /\ adding' = [adding EXCEPT ![c] = [at |-> "total", status |-> status]]
  /\ UNCHANGED <<counters, cutShort, accountVars, rules, pager>>

AddTotal(c) ==
  /\ Open
  /\ adding[c].at = "total"
  /\ counters' = IncrementStat(counters, "total_requests")
  /\ adding' = [adding EXCEPT ![c].at = "part"]
  /\ UNCHANGED <<logs, cutShort, accountVars, rules, pager>>

AddPart(c) ==
  /\ Open
  /\ adding[c].at = "part"
  /\ counters' = IncrementStat(counters, StatName(adding[c].status))
  /\ adding' = [adding EXCEPT ![c] = Idle]
  /\ UNCHANGED <<logs, cutShort, accountVars, rules, pager>>

\* An increment fails: AddLog returns the error, and the row stays.
AddFails(c) ==
  /\ Open
  /\ adding[c].at \in {"total", "part"}
  /\ adding' = [adding EXCEPT ![c] = Idle]
  /\ cutShort' = cutShort + 1
  /\ UNCHANGED <<logs, counters, accountVars, rules, pager>>

\* GetStats: the counters in one statement, the rules that are enabled in another.
GetStats == [total |-> counters["total_requests"],
             parts |-> counters["blocked_requests"] + counters["flagged_requests"]
                         + counters["safe_requests"],
             active |-> Cardinality({r \in DOMAIN rules : rules[r]})]

GetLogCount == Cardinality(DOMAIN logs)

Matching(filter) == {t \in DOMAIN logs : filter = "any" \/ logs[t] = filter}

\* A client starts to read: newest first (GetLogs), or with a filter and an order.
StartPaging(filtered, filter, descending, n) ==
  /\ Open
  /\ pager = Idle
  /\ filtered \/ (filter = "any" /\ descending)
  /\ pager' = [at |-> "reading", filter |-> filter, descending |-> descending,
               limit |-> IF filtered THEN FilterLimit(n) ELSE ClampLimit(n),
               offset |-> 0, seen |-> {}, due |-> Matching(filter)]
  /\ UNCHANGED <<accountVars, logVars, rules>>

\* The next page starts where the rows received so far end; an empty page is the last.
NextPage ==
  /\ Open
  /\ pager.at = "reading"
  /\ LET page == Page(Matching(pager.filter), pager.descending, pager.limit, pager.offset)
     IN pager' = [pager EXCEPT !.offset = @ + Cardinality(page), !.seen = @ \cup page,
                               !.at = IF page = {} THEN "done" ELSE @]
  /\ UNCHANGED <<accountVars, logVars, rules>>

EndPaging ==
  /\ Open /\ pager.at = "done" /\ pager' = Idle
  /\ UNCHANGED <<accountVars, logVars, rules>>

Next ==
  \/ NewPostgresStore \/ Migrate \/ Ends
  \/ \E n \in Names, e \in Emails : CreateUser(n, e)
  \/ \E i \in DOMAIN users :
       \/ \E e \in Emails, on \in BOOLEAN : UpdateUser(i, e, on)
       \/ DeleteUser(i) \/ DeleteUserSessions(i) \/ AddAuditLog(i)
  \/ \E s \in SessionIds, i \in 1 .. MaxUsers : CreateSession(s, i)
  \/ \E s \in DOMAIN sessions : DeleteSession(s)
  \/ \E r \in RuleIds : DeleteRule(r) \/ \E on \in BOOLEAN : CreateRule(r, on) \/ UpdateRule(r, on)
  \/ \E c \in Callers :
       \/ \E t \in Times, status \in Statuses : AddRow(c, t, status)
       \/ AddTotal(c) \/ AddPart(c) \/ AddFails(c)
  \/ \E filtered, descending \in BOOLEAN, filter \in {"any", "Blocked"}, n \in PageSizes :
       StartPaging(filtered, filter, descending, n)
  \/ NextPage \/ EndPaging

Spec == Init /\ [][Next]_vars

(***************************************************************************)
(* Properties                                                              *)
(***************************************************************************)

\* Types of the tables.
TypeOK ==
  /\ state \in {"closed", "migrating", "open"} /\ migration \in 1 .. Len(Migrations) + 1
  /\ DOMAIN users \subseteq 1 .. nextUser - 1 /\ DOMAIN sessions \subseteq SessionIds
  /\ DOMAIN logs \subseteq Times /\ DOMAIN rules \subseteq RuleIds
  /\ DOMAIN counters \in {{}, Counters}

\* DeleteUser and the references of the tables: every session leads to a user, no name
\* or e-mail address is used twice, and an audit entry that still names a user names the
\* one who acted, however many users were created and deleted since.
OwnersKept ==
  /\ \A s \in DOMAIN sessions : SessionOwner(s) # {}
  /\ \A n \in Names : Cardinality(GetUser(n)) <= 1
  /\ \A k \in DOMAIN audits : audits[k].user # Absent =>
       GetUserByID(audits[k].user) = GetUser(audits[k].by)

\* AddLog: in every answer of GetStats the parts add up to at most the total, which is at
\* most the rows of GetLogCount; and the rows not counted are those of calls that are
\* still running or were cut short, over restarts too.
LogsCounted ==
  counters # <<>> =>
    /\ GetStats.parts <= GetStats.total
    /\ GetStats.total <= GetLogCount
    /\ GetLogCount - GetStats.parts = cutShort + Cardinality(InFlight)

\* GetLogs and GetLogsFiltered: a client that reads page after page until an empty one
\* has seen every matching row that was there when it started, whatever is added
\* meanwhile, with any page size, newest or oldest first.
PagesComplete == pager.at = "done" => pager.due \subseteq pager.seen
=============================================================================
