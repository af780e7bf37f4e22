------------------------------ MODULE ApiKeys ------------------------------
(***************************************************************************)
(* The API key manager (internal/app/apikeys/apikeys.go): keys in memory,  *)
(* a store that is written when a key is made, revoked or deleted and read *)
(* when the program starts, and validations that look a key up, check it   *)
(* without the lock and count it in the window of its rate limit.          *)
(*                                                                         *)
(* Keys are numbered in the order of their creation; a number stands for   *)
(* the plaintext, its hash, its prefix and its ID, which differ for every  *)
(* two keys.                                                               *)
(***************************************************************************)
EXTENDS Integers, Sequences, FiniteSets

CONSTANTS
  Requests,  \* validations under way
  RateLimit, \* requests per window; 0 means no limit
  Window,    \* ticks of time.Minute
  MaxKeys,   \* bound: keys ever created
  MaxTime    \* bound: the clock

VARIABLES
  made,     \* for every key ever made, its scopes and its expiry (0: none)
  keys,     \* the keys in the map
  disabled, \* the keys whose Enabled is false; a deleted key keeps its fields
  usage,    \* from key to the count and the start of its window
  store,    \* the keys in the store: from key to Enabled
  saving,   \* keys whose first SaveKey has not returned
  req,      \* the validations
  now,      \* time.Now
  revoked,  \* history: keys whose RevokeKey or DeleteKey succeeded
  raced,    \* history: such an operation met a key that was being saved
  grants    \* history: for every key the times of its last grants

vars == <<made, keys, disabled, usage, store, saving, req, now, revoked, raced, grants>>

Scopes == {"read", "write", "admin"}
Ids == 1..MaxKeys
Without(f, k) == [x \in DOMAIN f \ {k} |-> f[x]]
With(f, k, v) == [x \in DOMAIN f \cup {k} |-> IF x = k THEN v ELSE f[x]]

Idle == [at |-> "idle", key |-> 0, scope |-> "read", late |-> FALSE]

Init ==
  /\ made = <<>> /\ keys = {} /\ disabled = {} /\ usage = <<>> /\ store = <<>> /\ saving = {}
  /\ req = [r \in Requests |-> Idle] /\ now = 0
  /\ revoked = {} /\ raced = FALSE /\ grants = [k \in Ids |-> <<>>]

\* GenerateKey up to the unlock: the key works before it is saved.
GenerateKey(scopes, expiry) ==
  /\ Len(made) < MaxKeys
  /\ LET k == Len(made) + 1
     IN /\ made' = Append(made, [scopes |-> scopes, expiry |-> expiry])
        /\ keys' = keys \cup {k}
        /\ saving' = saving \cup {k}
  /\ UNCHANGED <<disabled, usage, store, req, now, revoked, raced, grants>>

SaveKey(k) ==
  /\ k \in saving
  /\ saving' = saving \ {k}
  /\ store' = With(store, k, TRUE)
  /\ UNCHANGED <<made, keys, disabled, usage, req, now, revoked, raced, grants>>

\* The store failed: the key is taken out of memory; its usage stays.
FailSave(k) ==
  /\ k \in saving
  /\ saving' = saving \ {k}
  /\ keys' = keys \ {k}
  /\ UNCHANGED <<made, disabled, usage, store, req, now, revoked, raced, grants>>

\* Mutant: the key is disabled in memory only.
RevokedInStoreNot(k) == store
RevokedInStore(k) == With(store, k, FALSE)

\* RevokeKey holds the lock while it saves; when the save fails the key stays
\* disabled in memory and the caller gets the error.
RevokeKey(k) ==
  /\ k \in keys
  /\ disabled' = disabled \cup {k}
  /\ \/ /\ store' = RevokedInStore(k)
        /\ revoked' = revoked \cup {k}
     \/ UNCHANGED <<store, revoked>>
  /\ raced' = (raced \/ k \in saving)
  /\ UNCHANGED <<made, keys, usage, saving, req, now, grants>>

DeleteKey(k) ==
  /\ k \in keys
  /\ keys' = keys \ {k}
  /\ usage' = Without(usage, k)
  /\ \/ /\ store' = Without(store, k)
        /\ revoked' = revoked \cup {k}
     \/ UNCHANGED <<store, revoked>>
  /\ raced' = (raced \/ k \in saving)
  /\ UNCHANGED <<made, disabled, saving, req, now, grants>>

\* ValidateKey, the lookup under the read lock.
Lookup(r, k, scope) ==
  /\ req[r].at = "idle"
  /\ k \in DOMAIN made
  /\ req' = [req EXCEPT ![r] = [at |-> IF k \in keys THEN "found" ELSE "refused",
                                key |-> k, scope |-> scope, late |-> k \in revoked]]
  /\ UNCHANGED <<made, keys, disabled, usage, store, saving, now, revoked, raced, grants>>

hasScope(k, scope) == scope \in made[k].scopes \/ "admin" \in made[k].scopes

\* Enabled, expiry and scope are read from the key without the lock, which may
\* have been revoked or deleted meanwhile.
Passes(k, scope) ==
  /\ k \notin disabled
  /\ made[k].expiry # 0 => now <= made[k].expiry
  /\ hasScope(k, scope)

Check(r) ==
  /\ req[r].at = "found"
  /\ req' = [req EXCEPT ![r].at = IF Passes(req[r].key, req[r].scope) THEN "checked" ELSE "refused"]
  /\ UNCHANGED <<made, keys, disabled, usage, store, saving, now, revoked, raced, grants>>

NewWindow(k) == IF k \in DOMAIN usage THEN now - usage[k].start >= Window ELSE TRUE

Full(count) == count >= RateLimit

Granted(k) == [grants EXCEPT ![k] = IF Len(@) > 2 * RateLimit THEN @ ELSE Append(@, now)]

\* checkRateLimit: a new window, a full one, or one more in the current one.
CheckRateLimit(r) ==
  LET k == req[r].key
      fresh == NewWindow(k)
  IN /\ req[r].at = "checked"
     /\ \/ /\ RateLimit = 0
           /\ req' = [req EXCEPT ![r].at = "granted"]
           /\ UNCHANGED <<usage, grants>>
        \/ /\ RateLimit > 0 /\ fresh
           /\ usage' = With(usage, k, [count |-> 1, start |-> now])
           /\ req' = [req EXCEPT ![r].at = "granted"]
           /\ grants' = Granted(k)
        \/ /\ RateLimit > 0 /\ ~fresh /\ Full(usage[k].count)
           /\ req' = [req EXCEPT ![r].at = "refused"]
           /\ UNCHANGED <<usage, grants>>
        \/ /\ RateLimit > 0 /\ ~fresh /\ ~Full(usage[k].count)
           /\ usage' = [usage EXCEPT ![k].count = @ + 1]
           /\ req' = [req EXCEPT ![r].at = "granted"]
           /\ grants' = Granted(k)
     /\ UNCHANGED <<made, keys, disabled, store, saving, now, revoked, raced>>

\* The rest of ValidateKey and the handler behind it.
Answer(r) ==
  /\ req[r].at \in {"granted", "refused"}
  /\ req' = [req EXCEPT ![r] = Idle]
  /\ UNCHANGED <<made, keys, disabled, usage, store, saving, now, revoked, raced, grants>>

Recent(times) == SelectSeq(times, LAMBDA t : now + 1 - t < Window)

Tick ==
  /\ now < MaxTime
  /\ now' = now + 1
  /\ grants' = [k \in Ids |-> Recent(grants[k])]
  /\ UNCHANGED <<made, keys, disabled, usage, store, saving, req, revoked, raced>>

\* The program stops at any point and starts again with LoadKeys.
Restart ==
  /\ keys' = DOMAIN store
  /\ disabled' = {k \in DOMAIN store : ~store[k]}
  /\ usage' = <<>> /\ saving' = {} /\ req' = [r \in Requests |-> Idle]
  /\ grants' = [k \in Ids |-> <<>>]
  /\ UNCHANGED <<made, store, now, revoked, raced>>

Next ==
  \/ \E scopes \in {{"read"}, {"admin"}}, expiry \in {0, now + 1} : GenerateKey(scopes, expiry)
  \/ \E k \in saving : SaveKey(k) \/ FailSave(k)
  \/ \E k \in Ids : RevokeKey(k) \/ DeleteKey(k)
  \/ \E r \in Requests : \/ \E k \in Ids, scope \in {"read", "write"} : Lookup(r, k, scope)
                         \/ Check(r) \/ CheckRateLimit(r) \/ Answer(r)
  \/ Tick
  \/ Restart

Spec == Init /\ [][Next]_vars

----------------------------------------------------------------------------
\* Type invariant: a validation past its checks was made for a scope of its key.
TypeOK ==
  /\ Len(made) <= MaxKeys /\ keys \cup disabled \cup DOMAIN store \cup DOMAIN usage \subseteq DOMAIN made
  /\ saving \subseteq DOMAIN made /\ now \in 0..MaxTime
  /\ \A r \in Requests :
       /\ req[r].at \in {"idle", "found", "checked", "granted", "refused"}
       /\ req[r].at \in {"checked", "granted"} =>
            made[req[r].key].scopes \cap {req[r].scope, "admin"} # {}

\* A validation that begins after RevokeKey or DeleteKey has returned without an
\* error is never granted, not even after a restart, unless the key was still
\* being saved at the time.
RevokedRefused == ~raced => \A r \in Requests : req[r].at = "granted" => ~req[r].late

\* No key that is still in memory is granted more than two limits of requests in
\* any period shorter than the window, however validations interleave.
KeyThrottled ==
  RateLimit > 0 => \A k \in keys : Len(grants[k]) <= 2 * RateLimit

=============================================================================
