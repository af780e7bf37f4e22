------------------------------ MODULE Secrets -------------------------------
(***************************************************************************)
(* The secrets manager (internal/app/secrets/secrets.go), its two handlers *)
(* and the key that signs and verifies the session tokens (auth.           *)
(* getSecretKey).  Each caller runs one handler at a time; a step is what  *)
(* it does under one hold of mu, or one atomic operation.                  *)
(*                                                                         *)
(* A secret's value is a number: 0 for none, the environment's value of    *)
(* its variable, or a generated one, which nothing has used before.        *)
(***************************************************************************)
EXTENDS Integers, FiniteSets

CONSTANTS
  Callers,
  Types,        \* the secrets; "jwt" is one of them
  Env,          \* the process's environment: the value of each secret's variable, 0 if unset
  MaxRotations, MaxReloads  \* bounds

VARIABLES
  secrets,      \* [val, ver, env] of each: ver 0 when absent, env FALSE when generated
  reloading,
  reloadCount,
  calls,        \* what each caller is doing
  key,          \* cachedSecretKey of the token code, 0 until it is used
  tokens,       \* tokens signed: [key, at], at the rotations answered before
  events,       \* the reload events sent: <<type, old version, new version>>
  generated,    \* the last generated value
  answers,      \* rotations that have answered: [new, old, replaced]
  started       \* reloads begun

vars == <<secrets, reloading, reloadCount, calls, key, tokens, events, generated, answers, started>>

Idle == [pc |-> "idle", todo |-> {}, type |-> "jwt", val |-> 0, old |-> 0, ver |-> 0, failed |-> FALSE]

DevelopmentKey == 9
LastGenerated == 10
Values == 0..(LastGenerated + MaxRotations)

Init ==
  /\ secrets = [t \in Types |-> [val |-> Env[t], ver |-> IF Env[t] = 0 THEN 0 ELSE 1, env |-> Env[t] # 0]]
  /\ reloading = FALSE /\ reloadCount = 0
  /\ calls = [c \in Callers |-> Idle]
  /\ key = 0 /\ tokens = {}
  /\ events = {} /\ generated = LastGenerated /\ answers = {} /\ started = 0

----------------------------------------------------------------------------
NextVersion(c, t) == secrets[t].ver + 1

\* SetSecret: the value and its version under the lock, an event when there was
\* a value before.
SetSecret(c, t, value, fromEnv) ==
  /\ secrets' = [secrets EXCEPT ![t] = [val |-> value, ver |-> NextVersion(c, t), env |-> fromEnv]]
  /\ events' = IF secrets[t].ver = 0 THEN events
               ELSE events \cup {<<t, secrets[t].ver, NextVersion(c, t)>>}

MayReload == ~reloading

\* ReloadAll: refused while another runs; it copies the secrets.
ReloadAll(c) ==
  /\ calls[c].pc = "idle" /\ started < MaxReloads
  /\ started' = started + 1
  /\ IF MayReload
     THEN /\ reloading' = TRUE
          /\ calls' = [calls EXCEPT ![c] = [Idle EXCEPT !.pc = "copy"]]
     ELSE UNCHANGED <<reloading, calls>>
  /\ UNCHANGED <<secrets, reloadCount, key, tokens, events, generated, answers>>

CopySecrets(c) ==
  /\ calls[c].pc = "copy"
  /\ calls' = [calls EXCEPT ![c].pc = "each", ![c].todo = {t \in Types : secrets[t].ver > 0 /\ secrets[t].env}]
  /\ UNCHANGED <<secrets, reloading, reloadCount, key, tokens, events, generated, answers, started>>

\* Mutant: a secret that cannot be read is tried again.
RemainingRetried(c, t, value) == IF value = 0 THEN calls[c].todo ELSE calls[c].todo \ {t}
Remaining(c, t, value) == calls[c].todo \ {t}

\* ReloadFromEnv reads the name of the variable again, under the lock; a secret
\* generated meanwhile has none, and none is not set.
ReloadFromEnv(c, t) ==
  /\ calls[c].pc = "each" /\ t \in calls[c].todo
  /\ LET value == IF secrets[t].env THEN Env[t] ELSE 0
         rest == [calls[c] EXCEPT !.todo = Remaining(c, t, value)]
     IN calls' = [calls EXCEPT ![c] =
          IF value = 0 THEN [rest EXCEPT !.failed = TRUE]
          ELSE [rest EXCEPT !.pc = "set", !.type = t, !.val = value, !.ver = secrets[t].ver]]
  /\ UNCHANGED <<secrets, reloading, reloadCount, key, tokens, events, generated, answers, started>>

ReloadSet(c) ==
  /\ calls[c].pc = "set"
  /\ SetSecret(c, calls[c].type, calls[c].val, TRUE)
  /\ calls' = [calls EXCEPT ![c].pc = "each"]
  /\ UNCHANGED <<reloading, reloadCount, key, tokens, generated, answers, started>>

Counted == reloadCount + 1

\* The reload is counted, failed or not, and the flag cleared.
ReloadEnd(c) ==
  /\ calls[c].pc = "each" /\ calls[c].todo = {}
  /\ reloadCount' = Counted
  /\ reloading' = FALSE
  /\ calls' = [calls EXCEPT ![c] = Idle]
  /\ UNCHANGED <<secrets, key, tokens, events, generated, answers, started>>

\* RotateJWTSecret: the old value is read, a new one generated, then stored.
RotateRead(c) ==
  /\ calls[c].pc = "idle" /\ generated < LastGenerated + MaxRotations
  /\ generated' = generated + 1
  /\ calls' = [calls EXCEPT ![c] = [Idle EXCEPT !.pc = "store", !.val = generated + 1,
                                                !.old = secrets["jwt"].val, !.ver = secrets["jwt"].ver]]
  /\ UNCHANGED <<secrets, reloading, reloadCount, key, tokens, events, answers, started>>

RotateStore(c) ==
  /\ calls[c].pc = "store"
  /\ SetSecret(c, "jwt", calls[c].val, FALSE)
  /\ answers' = answers \cup {[new |-> calls[c].val, old |-> calls[c].old, replaced |-> secrets["jwt"].val]}
  /\ calls' = [calls EXCEPT ![c] = Idle]
  /\ UNCHANGED <<reloading, reloadCount, key, tokens, generated, started>>

\* getSecretKey, in development mode: cached for the life of the process.  In
\* production the process panics when the variable is not set.
GetSecretKey ==
  CASE key # 0        -> key
    [] Env["jwt"] # 0 -> Env["jwt"]
    [] OTHER          -> DevelopmentKey

\* GenerateJWT: a user logs in.
GenerateJWT ==
  /\ key' = GetSecretKey
  /\ tokens' = tokens \cup {[key |-> GetSecretKey, at |-> Cardinality(answers)]}
  /\ UNCHANGED <<secrets, reloading, reloadCount, calls, events, generated, answers, started>>

\* VerifyJWT: the tokens whose signature is accepted.
Verified == {tk \in tokens : tk.key = GetSecretKey}

Steps(c) == CopySecrets(c) \/ (\E t \in Types : ReloadFromEnv(c, t)) \/ ReloadSet(c) \/ ReloadEnd(c) \/ RotateStore(c)
Next == GenerateJWT \/ \E c \in Callers : ReloadAll(c) \/ RotateRead(c) \/ Steps(c)

Spec == Init /\ [][Next]_vars
\* A handler that has begun runs to its end.
FairSpec == Spec /\ \A c \in Callers : WF_vars(Steps(c))

----------------------------------------------------------------------------
InReload(c) == calls[c].pc \in {"copy", "each", "set"}

\* Type invariant.
TypeOK ==
  /\ \A t \in Types : secrets[t].val \in Values /\ secrets[t].ver \in Nat /\ secrets[t].env \in BOOLEAN
  /\ reloading \in BOOLEAN /\ reloadCount \in 0..started
  /\ \A c \in Callers : calls[c].todo \subseteq Types /\ calls[c].val \in Values /\ calls[c].old \in Values
  /\ key \in Values /\ generated \in Values

\* SetSecret numbers the versions of a secret without a gap or a repetition, and
\* tells the callbacks of each change once: whatever reloads and rotations run
\* at the same time, the events are the steps from version 1 to the current one.
VersionsExact ==
  \A t \in Types :
    LET seen == {e \in events : e[1] = t}
    IN /\ {e[3] : e \in seen} = 2..secrets[t].ver
       /\ \A e \in seen : e[3] = e[2] + 1

\* ReloadAll: one reload at a time, and the flag is set just while it runs.
OneReload ==
  /\ \A c, d \in Callers : InReload(c) /\ InReload(d) => c = d
  /\ reloading <=> \E c \in Callers : InReload(c)

\* A reload ends, also when a secret was rotated under it and cannot be read
\* again, so that the next one is not refused for ever.
ReloadEnds == reloading ~> ~reloading

\* Claims of the comments that the code does not keep.

\* RotateJWTSecret "returns the old one": the value the new one replaced.
RotateReturnsOld == \A a \in answers : a.old = a.replaced

\* A rotated secret is old: no value a rotation replaced is current again.
OldStaysOld == \A a \in answers : secrets["jwt"].val # a.replaced

\* "All existing tokens are now invalid" once a rotation has answered.
TokensInvalid == \A tk \in Verified : tk.at = Cardinality(answers)
=============================================================================
