------------------------------- MODULE Hibp --------------------------------
(***************************************************************************)
(* The check of new passwords against a service that knows how often each  *)
(* has been seen in breaches.  The service is asked for all passwords with *)
(* one prefix of their hash; its answer is cached.  Counts of the service  *)
(* grow while calls are under way, the configuration may change between    *)
(* any two reads of it, and a call that fails lets the password pass.      *)
(***************************************************************************)
EXTENDS Integers, FiniteSets

CONSTANTS
  Callers,         \* handlers that change a user's password
  Passwords,       \* passwords, all with one prefix
  CacheDuration, Timeout,   \* of a cached answer and of a request
  Thresholds,      \* thresholds the configuration may have
  MaxCount,        \* bound on the breaches of a password
  MaxNow,          \* bound on the clock
  MaxConfigs       \* bound on changes of the configuration

VARIABLES
  now,             \* the clock
  counts,          \* for each moment so far, what the service knows then
  cache,           \* the cached answer and when it was stored; at = -1 for none
  config,          \* [enabled, threshold]
  configs,         \* changes of the configuration so far
  calls            \* where each handler is

vars == <<now, counts, cache, config, configs, calls>>

None == [p \in Passwords |-> 0]
Idle == [at |-> "idle", password |-> CHOOSE p \in Passwords : TRUE, began |-> 0, asked |-> 0, answer |-> None,
         verdict |-> "none", ended |-> 0]

Init ==
  /\ now = 0 /\ counts = [t \in 0 .. MaxNow |-> None]
  /\ cache = [at |-> -1, suffixes |-> None]
  /\ config \in [enabled : {TRUE}, threshold : Thresholds] /\ configs = 0
  /\ calls = [c \in Callers |-> Idle]

Goes(c, to) == calls' = [calls EXCEPT ![c].at = to]
Ends(c, verdict) == calls' = [calls EXCEPT ![c].at = "ended", ![c].verdict = verdict, ![c].ended = now]
IsBreached(count) == count >= config.threshold

(* The handler of a changed password asks the checker only when that is switched on. *)
HandleUser(c, p) ==
  /\ calls[c].at = "idle"
  /\ calls' = [calls EXCEPT ![c].at = IF config.enabled THEN "check" ELSE "ended", ![c].password = p, ![c].began = now,
                            ![c].verdict = IF config.enabled THEN "none" ELSE "off", ![c].ended = now]
  /\ UNCHANGED <<now, counts, cache, config, configs>>

Cached == cache.at >= 0 /\ now - cache.at <= CacheDuration

(* CheckPassword looks at the configuration again, and then into the cache. *)
CheckCache(c) ==
  /\ calls[c].at = "check"
  /\ IF ~config.enabled THEN Ends(c, "off")
     ELSE IF Cached
     THEN Ends(c, IF IsBreached(cache.suffixes[calls[c].password]) THEN "breached" ELSE "fine")
     ELSE calls' = [calls EXCEPT ![c].at = "asking", ![c].asked = now]
  /\ UNCHANGED <<now, counts, cache, config, configs>>

(* External: the service answers with what it knows at this moment. *)
ServiceAnswers(c) ==
  /\ calls[c].at = "asking"
  /\ calls' = [calls EXCEPT ![c].at = "answered", ![c].answer = counts[now]]
  /\ UNCHANGED <<now, counts, cache, config, configs>>

(* A request that failed, was refused or has timed out is an error: the handler logs it and goes on. *)
FetchFails(c) ==
  /\ calls[c].at \in {"asking", "answered"}
  /\ Ends(c, "unknown")
  /\ UNCHANGED <<now, counts, cache, config, configs>>

(* The whole answer was read before the timeout; it is stored as of now. *)
CacheResult(c) ==
  /\ calls[c].at = "answered"
  /\ now - calls[c].asked <= Timeout
  /\ cache' = [at |-> now, suffixes |-> calls[c].answer]
  /\ Goes(c, "stored")
  /\ UNCHANGED <<now, counts, config, configs>>

CheckPassword(c) ==
  /\ calls[c].at = "stored"
  /\ Ends(c, IF IsBreached(calls[c].answer[calls[c].password]) THEN "breached" ELSE "fine")
  /\ UNCHANGED <<now, counts, cache, config, configs>>

(* The password is refused when it is breached, else changed; the next request may come. *)
Responds(c) ==
  /\ calls[c].at = "ended"
  /\ calls' = [calls EXCEPT ![c] = Idle]
  /\ UNCHANGED <<now, counts, cache, config, configs>>

SetEnabled(b) ==
  /\ configs < MaxConfigs /\ configs' = configs + 1
  /\ config' = [config EXCEPT !.enabled = b]
  /\ UNCHANGED <<now, counts, cache, calls>>

SetConfig(new) ==
  /\ configs < MaxConfigs /\ configs' = configs + 1
  /\ config' = new
  /\ UNCHANGED <<now, counts, cache, calls>>

ClearCache ==
  /\ configs < MaxConfigs /\ configs' = configs + 1
  /\ cache' = [at |-> -1, suffixes |-> None]
  /\ UNCHANGED <<now, counts, config, calls>>

(* External: another breach with the password becomes known. *)
Breach(p) ==
  /\ counts[now][p] < MaxCount
  /\ counts' = [t \in 0 .. MaxNow |-> IF t >= now THEN [counts[t] EXCEPT ![p] = @ + 1] ELSE counts[t]]
  /\ UNCHANGED <<now, cache, config, configs, calls>>

(* External: a request does not outlive its timeout, and the steps of a handler between two calls are *)
(* shorter than the unit of the clock.                                                               *)
Tick ==
  /\ now < MaxNow /\ now' = now + 1
  /\ \A c \in Callers : calls[c].at \in {"idle", "asking", "answered"}
  /\ \A c \in Callers : calls[c].at # "idle" => now < calls[c].asked + Timeout
  /\ UNCHANGED <<counts, cache, config, configs, calls>>

Next ==
  \/ \E c \in Callers :
       \/ \E p \in Passwords : HandleUser(c, p)
       \/ CheckCache(c) \/ ServiceAnswers(c) \/ FetchFails(c) \/ CacheResult(c) \/ CheckPassword(c) \/ Responds(c)
  \/ \E b \in BOOLEAN : SetEnabled(b)
  \/ \E new \in [enabled : BOOLEAN, threshold : Thresholds] : SetConfig(new)
  \/ ClearCache
  \/ \E p \in Passwords : Breach(p)
  \/ Tick

Spec == Init /\ [][Next]_vars

(***************************************************************************)
(* Properties                                                              *)
(***************************************************************************)
(* The variables have their types. *)
TypeOK ==
  /\ now \in 0 .. MaxNow /\ counts \in [0 .. MaxNow -> [Passwords -> 0 .. MaxCount]]
  /\ cache.at \in -1 .. MaxNow /\ config.threshold \in Thresholds /\ configs \in 0 .. MaxConfigs
  /\ \A c \in Callers : calls[c].verdict \in {"none", "off", "unknown", "fine", "breached"}

(* A verdict says what the service knew within the lifetime of a cached answer and the time of a request:    *)
(* a password that was above every threshold all that time is refused, one that was below each is not,       *)
(* although an older answer may replace a newer one in the cache (CheckPassword, checkCache, cacheResult).   *)
(* The counts of a moment are those at its end, so that one moment more is looked at.                        *)
VerdictFresh ==
  \A c \in Callers : calls[c].at = "ended" =>
    LET oldest == calls[c].ended - CacheDuration - Timeout
        known == {counts[t][calls[c].password] : t \in {u \in 0 .. MaxNow : u >= oldest - 1 /\ u <= calls[c].ended}}
    IN /\ calls[c].verdict = "fine" /\ oldest > 0 => \E n \in known, t \in Thresholds : n < t
       /\ calls[c].verdict = "breached" => \E n \in known, t \in Thresholds : n >= t

(* Claims of the comments that the code does not keep. *)

(* "Default threshold - reject passwords seen more than this many times" (hibp/hibp.go:30, and 50): one seen *)
(* exactly so often is refused too.                                                                          *)
MoreThanThreshold ==
  \A c \in Callers : calls[c].at = "ended" /\ calls[c].verdict = "breached" =>
    \E t \in Thresholds : counts[now][calls[c].password] > t
=============================================================================
