------------------------------ MODULE Database ------------------------------
(***************************************************************************)
(* database.Manager at work: the statements that the program sends to      *)
(* PostgreSQL, and the readers of its tables.                              *)
(*                                                                         *)
(* A call sends one statement and waits for its answer under a deadline.   *)
(* The server applies a statement atomically.  When the deadline passes    *)
(* first the call returns an error, but its statement may have been        *)
(* applied, or may still be.  Nothing is retried.                          *)
(***************************************************************************)
EXTENDS Paging, Sequences, FiniteSetsExt, TLC

CONSTANTS
  Calls,            \* calls that the program makes: the set of statements
  Statement,        \* call -> its statement
  Sizes             \* the limits that a client may ask for

VARIABLES
  call,             \* call -> "new", "sent", "applied", "ok", "error"
  late,             \* calls whose deadline passed, and that the server still has
  table,            \* log table -> its rows
  rules,            \* rule id -> content
  threats,          \* address -> [blocked, hits]
  counters,         \* name -> value
  pager

tables == <<table, rules, threats, counters>>
vars == <<call, late, tables, pager>>

LogTables == {"audit_logs", "rule_audit_log", "attack_logs"}
Idle == [at |-> "idle"]

Of(op) == {c \in Calls : Statement[c].op = op}

\* The statements of InsertAuditLog, InsertRuleAuditLog and InsertAttackLog.
InsertAuditLog(t) == [op |-> "log", table |-> "audit_logs", time |-> t]
InsertRuleAuditLog(t) == [op |-> "log", table |-> "rule_audit_log", time |-> t]
InsertAttackLog(t) == [op |-> "log", table |-> "attack_logs", time |-> t]

\* INSERT ... ON CONFLICT (rule_id) DO UPDATE, and DELETE ... WHERE rule_id.
SaveWAFRule(r, content) == [op |-> "rule", rule |-> r, content |-> content]
DeleteWAFRule(r) == [op |-> "no rule", rule |-> r]

SaveThreatIntel(ip, blocked) == [op |-> "threat", ip |-> ip, blocked |-> blocked]
IncrementStat(n, delta) == [op |-> "stat", name |-> n, delta |-> delta]

\* stat_value = stats.stat_value + delta on a conflict
Added(n, delta) == (n :> (IF n \in DOMAIN counters THEN counters[n] + delta ELSE delta))

\* hit_count = threat_intel.hit_count + 1 on a conflict
Hits(ip) == IF ip \in DOMAIN threats THEN threats[ip].hits + 1 ELSE 1

\* What the server does with a statement.
Execute(s) ==
  /\ table' = IF s.op = "log" THEN [table EXCEPT ![s.table] = @ \cup {s.time}] ELSE table
  /\ rules' = CASE s.op = "rule" -> (s.rule :> s.content) @@ rules
                [] s.op = "no rule" -> [r \in DOMAIN rules \ {s.rule} |-> rules[r]]
                [] OTHER -> rules
  /\ threats' = IF s.op = "threat"
                THEN (s.ip :> [blocked |-> s.blocked, hits |-> Hits(s.ip)]) @@ threats
                ELSE threats
  /\ counters' = IF s.op = "stat" THEN Added(s.name, s.delta) @@ counters ELSE counters

Init ==
  /\ call = [c \in Calls |-> "new"] /\ late = {}
  /\ table = [t \in LogTables |-> {}]
  /\ rules = <<>> /\ threats = <<>> /\ counters = <<>>
  /\ pager = Idle

Send(c) ==
  /\ call[c] = "new"
  /\ call' = [call EXCEPT ![c] = "sent"]
  /\ UNCHANGED <<late, tables, pager>>

Apply(c) ==
  /\ call[c] = "sent" \/ c \in late
  /\ Execute(Statement[c])
  /\ call' = [call EXCEPT ![c] = IF @ = "sent" THEN "applied" ELSE @]
  /\ late' = late \ {c}
  /\ UNCHANGED pager

Answer(c) ==
  /\ call[c] = "applied"
  /\ call' = [call EXCEPT ![c] = "ok"]
  /\ UNCHANGED <<late, tables, pager>>

\* The deadline of the context passes before the answer is there.
DeadlinePasses(c) ==
  /\ call[c] \in {"sent", "applied"}
  /\ call' = [call EXCEPT ![c] = "error"]
  /\ late' = IF call[c] = "sent" THEN late \cup {c} ELSE late
  /\ UNCHANGED <<tables, pager>>

\* The connection is gone: the server never sees the statement.
StatementLost(c) ==
  /\ c \in late
  /\ late' = late \ {c}
  /\ UNCHANGED <<call, tables, pager>>

(***************************************************************************)
(* Readers                                                                 *)
(***************************************************************************)
GetAuditLogs(limit, offset) == Page(table["audit_logs"], TRUE, ClampLimit(limit), offset)
GetRuleAuditLogs(limit, offset) == Page(table["rule_audit_log"], TRUE, ClampLimit(limit), offset)
GetAttackLogs(limit, offset) == Page(table["attack_logs"], TRUE, ClampLimit(limit), offset)

GetLogs(t, limit, offset) ==
  CASE t = "audit_logs" -> GetAuditLogs(limit, offset)
    [] t = "rule_audit_log" -> GetRuleAuditLogs(limit, offset)
    [] t = "attack_logs" -> GetAttackLogs(limit, offset)

GetWAFRules == rules
GetThreatIntel == threats
GetBlockedIPs == {ip \in DOMAIN threats : threats[ip].blocked}
GetAllStats == counters

StartPaging(t, n) ==
  /\ pager = Idle
  /\ pager' = [at |-> "reading", table |-> t, limit |-> n, offset |-> 0, seen |-> {},
               due |-> table[t]]
  /\ UNCHANGED <<call, late, tables>>

NextPage ==
  /\ pager.at = "reading"
  /\ LET page == GetLogs(pager.table, pager.limit, pager.offset)
     IN pager' = [pager EXCEPT !.offset = @ + Cardinality(page), !.seen = @ \cup page,
                               !.at = IF page = {} THEN "done" ELSE @]
  /\ UNCHANGED <<call, late, tables>>

Next ==
  \/ \E c \in Calls : Send(c) \/ Apply(c) \/ Answer(c) \/ DeadlinePasses(c) \/ StatementLost(c)
  \/ \E t \in LogTables, n \in Sizes : StartPaging(t, n)
  \/ NextPage

Spec == Init /\ [][Next]_vars

(***************************************************************************)
(* Properties                                                              *)
(***************************************************************************)

\* Types of the tables.
TypeOK ==
  /\ call \in [Calls -> {"new", "sent", "applied", "ok", "error"}]
  /\ late \subseteq {c \in Calls : call[c] = "error"}
  /\ DOMAIN table = LogTables

Known(c) == call[c] \in {"applied", "ok"}
Possible(c) == call[c] # "new" /\ call[c] # "sent" /\ c \notin late
Sum(S) == FoldSet(LAMBDA c, n : n + Statement[c].delta, 0, S)

\* The inserts and the upserts of the Manager: what a call was told is done is in the
\* tables, whatever calls run beside it or time out; and nothing is counted that no call
\* sent, nor twice, so hit counts and counters lie between the calls that were answered
\* and those that may have been applied.
AnsweredIsStored ==
  /\ \A c \in Of("log") : Known(c) => Statement[c].time \in table[Statement[c].table]
  /\ \A c \in Of("threat") : Known(c) => Statement[c].ip \in DOMAIN GetThreatIntel
  /\ \A ip \in DOMAIN GetThreatIntel :
       LET of == {c \in Of("threat") : Statement[c].ip = ip} IN
       /\ GetThreatIntel[ip].hits >= Cardinality({c \in of : Known(c)})
       /\ GetThreatIntel[ip].hits <= Cardinality({c \in of : Possible(c)})
       /\ ip \in GetBlockedIPs => \E c \in of : Statement[c].blocked /\ Possible(c)
  /\ \A n \in DOMAIN GetAllStats :
       LET of == {c \in Of("stat") : Statement[c].name = n} IN
       /\ GetAllStats[n] >= Sum({c \in of : Known(c)})
       /\ GetAllStats[n] <= Sum({c \in of : Possible(c)})
  /\ \A r \in DOMAIN GetWAFRules : \E c \in Of("rule") :
       Possible(c) /\ Statement[c].rule = r /\ Statement[c].content = GetWAFRules[r]

\* GetAuditLogs, GetRuleAuditLogs and GetAttackLogs: reading page after page until an
\* empty one misses no row that was there at the start (see PagesComplete in PgStore).
PagesComplete == pager.at = "done" => pager.due \subseteq pager.seen
=============================================================================
