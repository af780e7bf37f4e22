----------------------------- MODULE StoreStats -----------------------------
(***************************************************************************)
(* The request log and the counters of the store (store.go): AddLog,       *)
(* AddSafeLog and IncrementSafeRequest under the lock, Save and the load   *)
(* at the next start.  A log entry is its status.                          *)
(***************************************************************************)
EXTENDS Integers, Sequences

CONSTANTS
  KeptLogs,   \* 1000
  MaxRequests \* bound: requests counted

VARIABLES
  logs,   \* state.Logs
  stats,  \* state.Stats
  saved   \* what data.json holds of both

vars == <<logs, stats, saved>>

Statuses == {"Blocked", "ThreatBlocked", "Flagged", "Safe"}
NoStats == [total |-> 0, blocked |-> 0, flagged |-> 0, safe |-> 0]

Init == logs = <<>> /\ stats = NoStats /\ saved = [logs |-> <<>>, stats |-> NoStats]

\* AddLog gives an entry without a status the one of its action.
StatusOf(status, action) ==
  CASE status # ""                    -> status
    [] action \in {"blocked", "deny"} -> "Blocked"
    [] action = "log"                 -> "Flagged"
    [] OTHER                          -> "Safe"

Shortened(s) == IF Len(s) > KeptLogs THEN Tail(s) ELSE s

\* Mutant: requests that were blocked as threats are counted as safe too.
CountedThreatTwice(st, status) ==
  [st EXCEPT !.total = @ + 1,
             !.blocked = IF status \in {"Blocked", "ThreatBlocked"} THEN @ + 1 ELSE @,
             !.flagged = IF status = "Flagged" THEN @ + 1 ELSE @,
             !.safe = IF status \notin {"Blocked", "Flagged"} THEN @ + 1 ELSE @]
Counted(st, status) ==
  [st EXCEPT !.total = @ + 1,
             !.blocked = IF status \in {"Blocked", "ThreatBlocked"} THEN @ + 1 ELSE @,
             !.flagged = IF status = "Flagged" THEN @ + 1 ELSE @,
             !.safe = IF status \notin {"Blocked", "ThreatBlocked", "Flagged"} THEN @ + 1 ELSE @]

AddLog(status, action) ==
  /\ stats.total < MaxRequests
  /\ logs' = Append(Shortened(logs), StatusOf(status, action))
  /\ stats' = Counted(stats, StatusOf(status, action))
  /\ UNCHANGED saved

AddSafeLog ==
  /\ stats.total < MaxRequests
  /\ logs' = Append(Shortened(logs), "Safe")
  /\ stats' = Counted(stats, "Safe")
  /\ UNCHANGED saved

IncrementSafeRequest ==
  /\ stats.total < MaxRequests
  /\ stats' = Counted(stats, "Safe")
  /\ UNCHANGED <<logs, saved>>

Save == saved' = [logs |-> logs, stats |-> stats] /\ UNCHANGED <<logs, stats>>

Restart == logs' = saved.logs /\ stats' = saved.stats /\ UNCHANGED saved

Next ==
  \/ \E status \in {"", "ThreatBlocked"}, action \in {"deny", "log", "pass"} : AddLog(status, action)
  \/ AddSafeLog \/ IncrementSafeRequest \/ Save \/ Restart

Spec == Init /\ [][Next]_vars

----------------------------------------------------------------------------
\* Type invariant; the log never holds more than one entry above its limit.
TypeOK ==
  /\ Len(logs) <= KeptLogs + 1 /\ \A i \in DOMAIN logs : logs[i] \in Statuses
  /\ stats \in [{"total", "blocked", "flagged", "safe"} -> 0..MaxRequests]

\* The requests counted as blocked, flagged and safe add up to the total, and as
\* long as no entry was dropped every blocked one is in the log.
StatsAddUp ==
  /\ stats.total = stats.blocked + stats.flagged + stats.safe
  /\ Len(logs) < KeptLogs =>
       Len(SelectSeq(logs, LAMBDA e : e \in {"Blocked", "ThreatBlocked"})) = stats.blocked

\* Claims of the comments that the code does not keep.

\* The log keeps the last KeptLogs entries.
LogsKept == Len(logs) <= KeptLogs
=============================================================================
