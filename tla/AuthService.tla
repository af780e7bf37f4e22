----------------------------- MODULE AuthService ----------------------------
(***************************************************************************)
(* Package authservice on package persistence: concurrent calls of         *)
(* Authenticate for one account, with the record of attempts and the       *)
(* lockout, sessions, ChangePassword, UnlockAccount, and an administrator  *)
(* who enables and disables the account.                                   *)
(*                                                                         *)
(* mu is held from the step that takes it to the step that uses the maps   *)
(* and gives it back; each statement on the database is one step and may   *)
(* fail.  The account is its row of the table users.                       *)
(***************************************************************************)
EXTENDS Integers, Sequences, FiniteSets

CONSTANTS
  Callers,            \* goroutines that call Authenticate
  MaxFailedAttempts,
  LockoutDuration,
  Hour,               \* how long attempts are kept
  MaxTime, MaxCalls   \* bounds: ticks, calls

VARIABLES
  now, calls,
  mu,         \* the goroutine that holds mu, or Free
  attempts,   \* attempts[username]: time, success and reason
  locked,     \* lockedUsers[username]: locked until, or 0
  row,        \* the account in the database
  sessions,   \* the sessions: what password they were opened with
  call,       \* the calls of Authenticate
  change,     \* the call of ChangePassword
  unlocking,  \* UnlockAccount is deleting
  disabledAt  \* history: the account is disabled since then (0: it is enabled)

vars == <<now, calls, mu, attempts, locked, row, sessions, call, change, unlocking, disabledAt>>

Free == "free"
Never == 0
Old == "old"
New == "new"
NoCall == [at |-> "idle", row |-> [enabled |-> TRUE, pw |-> Old], pw |-> Old, t |-> 0]
NoChange == [at |-> "idle", row |-> [enabled |-> TRUE, pw |-> Old]]

Init ==
  /\ now = 1 /\ calls = 0 /\ mu = Free /\ attempts = <<>> /\ locked = Never
  /\ row = [enabled |-> TRUE, pw |-> Old] /\ sessions = {}
  /\ call = [p \in Callers |-> NoCall] /\ change = NoChange
  /\ unlocking = FALSE /\ disabledAt = 0

\* The calls of recordAttempt, by the outcome they record, and what follows them.
AfterRecord == [recLocked |-> "idle", recDisabled |-> "idle", recWrong |-> "lockout", recOk |-> "clear"]

At(p, label) == call[p].at = label
\* A call that goes on to record an attempt notes the time before it takes mu.
Goes(p, label) ==
  call' = [call EXCEPT ![p] =
    IF label = "idle" THEN NoCall
    ELSE [@ EXCEPT !.at = label, !.t = IF label \in DOMAIN AfterRecord THEN now ELSE 0]]
Holds(p, label) == At(p, label) /\ mu = p /\ mu' = Free

----------------------------------------------------------------------------
\* Authenticate

Begin(p) ==
  /\ At(p, "idle") /\ calls < MaxCalls
  /\ calls' = calls + 1
  /\ \E pw \in {Old, New, "wrong"} :
       call' = [call EXCEPT ![p] = [NoCall EXCEPT !.at = "check", !.pw = pw]]
  /\ UNCHANGED <<now, mu, attempts, locked, row, sessions, change, unlocking, disabledAt>>

LockedSteps == {"check", "recLocked", "recDisabled", "recWrong", "lockout", "recOk", "clear"}

\* s.mu.Lock()
Acquire(p) ==
  /\ call[p].at \in LockedSteps /\ mu = Free
  /\ mu' = p
  /\ UNCHANGED <<now, calls, attempts, locked, row, sessions, call, change, unlocking, disabledAt>>

StillLocked(t) == t < locked

CheckLocked(p) ==
  /\ Holds(p, "check")
  /\ locked' = IF StillLocked(now) THEN locked ELSE Never
  /\ Goes(p, IF StillLocked(now) THEN "recLocked" ELSE "get")
  /\ UNCHANGED <<now, calls, attempts, row, sessions, change, unlocking, disabledAt>>

GetUser(p) ==
  /\ At(p, "get")
  /\ \/ row.enabled /\ call' = [call EXCEPT ![p].row = row, ![p].at = "verify"]
     \/ ~row.enabled /\ Goes(p, "recDisabled")
     \/ Goes(p, "idle")
  /\ UNCHANGED <<now, calls, mu, attempts, locked, row, sessions, change, unlocking, disabledAt>>

VerifyPassword(p) ==
  /\ At(p, "verify")
  /\ Goes(p, IF call[p].pw = call[p].row.pw THEN "recOk" ELSE "recWrong")
  /\ UNCHANGED <<now, calls, mu, attempts, locked, row, sessions, change, unlocking, disabledAt>>

\* recordAttempt, which keeps the attempts of the last hour.
Recorded(t, why) ==
  SelectSeq(Append(attempts, [t |-> t, ok |-> why = "recOk", why |-> why]), LAMBDA a : a.t > now - Hour)

RecordAttempt(p) ==
  /\ call[p].at \in DOMAIN AfterRecord /\ Holds(p, call[p].at)
  /\ attempts' = Recorded(call[p].t, call[p].at)
  /\ Goes(p, AfterRecord[call[p].at])
  /\ UNCHANGED <<now, calls, locked, row, sessions, change, unlocking, disabledAt>>

Failed(seq) == Len(SelectSeq(seq, LAMBDA a : ~a.ok /\ a.t > now - LockoutDuration))

\* Mutant: one failure more is let through.
TooManyLate(n) == n > MaxFailedAttempts
TooMany(n) == n >= MaxFailedAttempts

\* checkLockout
CheckLockout(p) ==
  /\ Holds(p, "lockout")
  /\ locked' = IF TooMany(Failed(attempts)) THEN now + LockoutDuration ELSE locked
  /\ Goes(p, "idle")
  /\ UNCHANGED <<now, calls, attempts, row, sessions, change, unlocking, disabledAt>>

ClearAttempts(p) ==
  /\ Holds(p, "clear")
  /\ attempts' = <<>>
  /\ Goes(p, "session")
  /\ UNCHANGED <<now, calls, locked, row, sessions, change, unlocking, disabledAt>>

CreateSession(p) ==
  /\ At(p, "session")
  /\ \/ sessions' = sessions \cup {call[p].pw} /\ Goes(p, "touch")
     \/ UNCHANGED sessions /\ Goes(p, "idle")
  /\ UNCHANGED <<now, calls, mu, attempts, locked, row, change, unlocking, disabledAt>>

\* PostgresStore.UpdateUser: email, role, enabled and last_login of the copy.
Updated(copy) == [row EXCEPT !.enabled = copy.enabled]

\* Update last login.
TouchUser(p) ==
  /\ At(p, "touch")
  /\ row' = Updated(call[p].row) \/ row' = row
  /\ Goes(p, "idle")
  /\ UNCHANGED <<now, calls, mu, attempts, locked, sessions, change, unlocking, disabledAt>>

----------------------------------------------------------------------------
\* ChangePassword from the old password to the new one.
ChangeGet ==
  /\ change.at = "idle" /\ calls < MaxCalls /\ row.pw = Old
  /\ calls' = calls + 1
  /\ change' = [at |-> "update", row |-> [row EXCEPT !.pw = New]]
  /\ UNCHANGED <<now, mu, attempts, locked, row, sessions, call, unlocking, disabledAt>>

ChangeUpdate ==
  /\ change.at = "update"
  /\ \/ row' = Updated(change.row) /\ change' = [change EXCEPT !.at = "sessions"]
     \/ row' = row /\ change' = NoChange
  /\ UNCHANGED <<now, calls, mu, attempts, locked, sessions, call, unlocking, disabledAt>>

\* DeleteUserSessions; its error is dropped.
ChangeSessions ==
  /\ change.at = "sessions"
  /\ sessions' = {} \/ sessions' = sessions
  /\ change' = [change EXCEPT !.at = "done"]
  /\ UNCHANGED <<now, calls, mu, attempts, locked, row, call, unlocking, disabledAt>>

\* UnlockAccount deletes from both maps without mu.
UnlockBegin ==
  /\ ~unlocking /\ calls < MaxCalls
  /\ calls' = calls + 1 /\ unlocking' = TRUE
  /\ locked' = Never
  /\ UNCHANGED <<now, mu, attempts, row, sessions, call, change, disabledAt>>

UnlockEnd ==
  /\ unlocking
  /\ unlocking' = FALSE /\ attempts' = <<>>
  /\ UNCHANGED <<now, calls, mu, locked, row, sessions, call, change, disabledAt>>

\* LogoutAll, and the administrator's update of the account.
LogoutAll ==
  /\ sessions' = {}
  /\ UNCHANGED <<now, calls, mu, attempts, locked, row, call, change, unlocking, disabledAt>>

SetEnabled(enabled) ==
  /\ row.enabled # enabled /\ calls < MaxCalls
  /\ calls' = calls + 1
  /\ row' = [row EXCEPT !.enabled = enabled]
  /\ disabledAt' = IF enabled THEN 0 ELSE now
  /\ UNCHANGED <<now, mu, attempts, locked, sessions, call, change, unlocking>>

\* IsAccountLocked removes a lockout that is over.
IsAccountLocked ==
  /\ mu = Free /\ ~StillLocked(now)
  /\ locked' = Never
  /\ UNCHANGED <<now, calls, mu, attempts, row, sessions, call, change, unlocking, disabledAt>>

Tick ==
  /\ now < MaxTime
  /\ now' = now + 1
  /\ UNCHANGED <<calls, mu, attempts, locked, row, sessions, call, change, unlocking, disabledAt>>

Authenticate(p) ==
  \/ Begin(p) \/ Acquire(p) \/ CheckLocked(p) \/ GetUser(p) \/ VerifyPassword(p)
  \/ RecordAttempt(p) \/ CheckLockout(p) \/ ClearAttempts(p) \/ CreateSession(p) \/ TouchUser(p)

Next ==
  \/ \E p \in Callers : Authenticate(p)
  \/ ChangeGet \/ ChangeUpdate \/ ChangeSessions
  \/ UnlockBegin \/ UnlockEnd \/ LogoutAll \/ IsAccountLocked \/ Tick
  \/ \E enabled \in BOOLEAN : SetEnabled(enabled)

Spec == Init /\ [][Next]_vars

----------------------------------------------------------------------------
Labels == LockedSteps \cup {"idle", "get", "verify", "session", "touch"}
Rows == [enabled : BOOLEAN, pw : {Old, New}]

\* Type invariant.
TypeOK ==
  /\ now \in 1..MaxTime /\ mu \in Callers \cup {Free} /\ locked \in 0..(MaxTime + LockoutDuration)
  /\ \A i \in DOMAIN attempts :
       attempts[i] \in [t : 1..now, ok : BOOLEAN, why : DOMAIN AfterRecord]
  /\ row \in Rows /\ sessions \subseteq {Old, New}
  /\ call \in [Callers -> [at : Labels, row : Rows, pw : {Old, New, "wrong"}, t : 0..MaxTime]]
  /\ mu # Free => call[mu].at \in LockedSteps

\* However the calls interleave, and across the end of a lockout, no more wrong
\* passwords are tried within LockoutDuration than the limit and one more for
\* every other call that was under way when it was reached.
GuessesBounded ==
  Len(SelectSeq(attempts, LAMBDA a : a.why = "recWrong" /\ a.t > now - LockoutDuration))
    <= MaxFailedAttempts + Cardinality(Callers) - 1

\* A call that finds the account locked never gets to see the account.
RefusesLocked ==
  \A p \in Callers : At(p, "check") /\ now < locked => call'[p].at \notin {"get", "verify"}
LockedRefused == [][RefusesLocked]_vars

\* Claims of the comments that the code does not keep.

\* mu protects the maps: nobody uses them while somebody deletes from them.
MapsGuarded == ~(unlocking /\ mu # Free)

\* ChangePassword changes the password.
PasswordChanged == change.at = "done" => row.pw = New

\* An account an administrator disabled stays disabled.
DisableSticks == disabledAt # 0 => ~row.enabled

\* ChangePassword invalidates all existing sessions.
OldSessionsGone == change.at = "done" => Old \notin sessions
=============================================================================
