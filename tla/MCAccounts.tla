---------------------------- MODULE MCAccounts -----------------------------
(***************************************************************************)
(* Small instances of what decides who may use the API: logins, tokens,    *)
(* roles and scopes, the lockout of the authentication service, and the    *)
(* revocation of API keys.  They share no state, so a behaviour is of one  *)
(* instance: part says which one, the variables of Access keep their       *)
(* initial values where they are not used, and the others the value        *)
(* Unused.                                                                 *)
(***************************************************************************)
EXTENDS Access, Sequences, TLC

CONSTANTS Callers

VARIABLES
  part, time,
  calls, mu, attempts, locked, row, sessions, call, change, unlocking, disabledAt, \* AuthService
  made, keys, disabled, usage, store, saving, req, revoked, raced, grants      \* ApiKeys

authVars == <<calls, mu, attempts, locked, row, sessions, call, change, unlocking, disabledAt>>
keyVars == <<made, keys, disabled, usage, store, saving, req, revoked, raced, grants>>
otherVars == <<part, time, authVars, keyVars>>
allVars == <<vars, otherVars>>

Unused == "unused"
NoAuth == /\ calls = Unused /\ mu = Unused /\ attempts = Unused /\ locked = Unused
          /\ row = Unused /\ sessions = Unused /\ call = Unused /\ change = Unused
          /\ unlocking = Unused /\ disabledAt = Unused
NoKeys == /\ made = Unused /\ keys = Unused /\ disabled = Unused /\ usage = Unused
          /\ store = Unused /\ saving = Unused /\ req = Unused /\ revoked = Unused
          /\ raced = Unused /\ grants = Unused

\* Updates of two accounts and the tokens issued before them; no API keys.
MCDefaultRole == [adm |-> "Admin", vwr |-> "Viewer"]

\* API keys of several scopes, and no updates.
Scopes == INSTANCE Access WITH
  Passwords <- {1, 2}, Keys <- {{"read"}, {"write", "export"}, {"admin"}}, MaxUpdates <- 0

\* Two callers that try passwords, until after a lockout has ended.
Auth == INSTANCE AuthService WITH
  MaxFailedAttempts <- 2, LockoutDuration <- 2, Hour <- 3, MaxTime <- 4, MaxCalls <- 4, now <- time

\* A key without a limit, its revocation and a restart.
Revoked == INSTANCE ApiKeys WITH
  Requests <- Callers, RateLimit <- 0, Window <- 2, MaxKeys <- 1, MaxTime <- 2, now <- time

AccountsInit ==
  \/ part = "rights" /\ Init /\ time = Unused /\ NoAuth /\ NoKeys
  \/ part = "scopes" /\ Scopes!Init /\ time = Unused /\ NoAuth /\ NoKeys
  \/ part = "auth" /\ Init /\ ~hasDb /\ Auth!Init /\ NoKeys
  \/ part = "revoked" /\ Init /\ ~hasDb /\ Revoked!Init /\ NoAuth

AccountsNext ==
  \/ part = "rights" /\ Next /\ UNCHANGED otherVars
  \/ part = "scopes" /\ Scopes!Next /\ UNCHANGED otherVars
  \/ part = "auth" /\ Auth!Next /\ UNCHANGED <<part, vars, keyVars>>
  \/ part = "revoked" /\ Revoked!Next /\ UNCHANGED <<part, vars, authVars>>

AccountsSpec == AccountsInit /\ [][AccountsNext]_allVars

\* Type invariant of each instance.
AccountsTypeOK ==
  CASE part = "rights" -> TypeOK
    [] part = "scopes" -> Scopes!TypeOK
    [] part = "auth" -> Auth!TypeOK
    [] part = "revoked" -> Revoked!TypeOK

\* Authenticate: wrong passwords are bounded however calls interleave, and a locked
\* account is not even looked up (see GuessesBounded and LockedRefused in AuthService).
GuessesBounded ==
  /\ [](part = "auth" => Auth!GuessesBounded)
  /\ [][part = "auth" => Auth!RefusesLocked]_allVars

\* A key does no more than its scopes say, and once RevokeKey has returned nothing, also
\* after a restart (see KeysWithinScopes in Access and RevokedRefused in ApiKeys).
KeysBounded ==
  /\ AccountsTypeOK
  /\ part = "scopes" => Scopes!KeysWithinScopes
  /\ part = "revoked" => Revoked!RevokedRefused

Symmetry == Permutations(Callers)
=============================================================================
