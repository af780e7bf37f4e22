------------------------------- MODULE Paging -------------------------------
(***************************************************************************)
(* How the log readers of the two database layers cut a table into pages.  *)
(* A row is its timestamp; timestamps are distinct.  A page is the set of  *)
(* its rows: the client only counts and collects them.                     *)
(***************************************************************************)
EXTENDS Integers, FiniteSets

CONSTANTS DefaultPage, LargestPage   \* 100 and 1000 in the code

\* The limits of GetLogs and GetAuditLogs, and of GetLogsFiltered.
ClampLimit(n) == IF n = 0 THEN DefaultPage ELSE IF n > LargestPage THEN LargestPage ELSE n
FilterLimit(n) == IF n \in 1 .. LargestPage THEN n ELSE DefaultPage

\* ORDER BY timestamp: how many rows come before row t.
Before(descending, a, b) == IF descending THEN a > b ELSE a < b
Rank(ts, descending, t) == Cardinality({u \in ts : Before(descending, u, t)})

\* Mutant: OFFSET counts from one.
PageFromOne(ts, descending, limit, offset) ==
  {t \in ts : Rank(ts, descending, t) \in offset + 1 .. offset + limit}

\* ORDER BY timestamp LIMIT limit OFFSET offset
Page(ts, descending, limit, offset) ==
  {t \in ts : Rank(ts, descending, t) \in offset .. offset + limit - 1}
=============================================================================
