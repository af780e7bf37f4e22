---------------------------- MODULE MCLimiters -----------------------------
(***************************************************************************)
(* Small instances of everything that enforces a rate or a list: the       *)
(* limiter in memory, the one in Redis, the limit of an API key, that of   *)
(* the alerts, the blocking of countries, and the check of passwords       *)
(* against those of known breaches.  They share no state, so a behaviour   *)
(* is of one instance: part says which one, and the variables that the     *)
(* instance does not have keep the value Unused.                           *)
(***************************************************************************)
EXTENDS Integers, Sequences, TLC

CONSTANTS Processes, Instances

VARIABLES
  part,
  now, proc, stopped,                                     \* all but ApiKeys
  whitelist, blacklist, granted,                          \* both limiters
  visitors, totalVisitors, cleaner, until,                \* RateLimiter
  backendWhite, redis, collided, banned, let,             \* RedisLimiter
  raced,                                                  \* RateLimiter, ApiKeys
  made, keys, disabled, usage, store, saving, req, revoked, grants,  \* ApiKeys
  webhooks, states, alertChan, raised, due, handled, sends,          \* Alerts
  rules, ipCache, lookups, hits, misses, total, requestsBy, blockedBy, changes, failed, wrong,  \* GeoIp
  counts, cache, config, configs, calls                              \* Hibp

listVars == <<whitelist, blacklist, granted>>
rateVars == <<visitors, totalVisitors, cleaner, until>>
alertVars == <<webhooks, states, alertChan, raised, due, handled, sends>>
redisVars == <<backendWhite, redis, collided, banned, let>>
keyVars == <<made, keys, disabled, usage, store, saving, req, revoked, grants>>
geoVars == <<rules, ipCache, lookups, hits, misses, total, requestsBy, blockedBy, changes, failed,
             wrong>>
limitVars == <<now, proc, stopped, listVars, rateVars, redisVars, raced, keyVars, alertVars>>
breachVars == <<counts, cache, config, configs, calls>>
vars == <<part, limitVars, geoVars, breachVars>>

Unused == "unused"
NoLists == whitelist = Unused /\ blacklist = Unused /\ granted = Unused
NoRate == /\ visitors = Unused /\ totalVisitors = Unused /\ cleaner = Unused
          /\ until = Unused
NoRedis == /\ backendWhite = Unused /\ redis = Unused /\ collided = Unused
           /\ banned = Unused /\ let = Unused
NoKeys == /\ made = Unused /\ keys = Unused /\ disabled = Unused /\ usage = Unused
          /\ store = Unused /\ saving = Unused /\ req = Unused /\ revoked = Unused
          /\ grants = Unused
NoAlerts == /\ webhooks = Unused /\ states = Unused /\ alertChan = Unused /\ raised = Unused
            /\ due = Unused /\ handled = Unused /\ sends = Unused
NoGeo == /\ rules = Unused /\ ipCache = Unused /\ lookups = Unused /\ hits = Unused
         /\ misses = Unused /\ total = Unused /\ requestsBy = Unused /\ blockedBy = Unused
         /\ changes = Unused /\ failed = Unused /\ wrong = Unused
NoBreach == /\ counts = Unused /\ cache = Unused /\ config = Unused /\ configs = Unused
            /\ calls = Unused

\* "v6" is another spelling of "a".
Spellings == [ip \in {"a", "v6"} |-> "a"]
Configs == [all |-> [RequestsPerMinute |-> 2, BlockDuration |-> 2],
            login |-> [RequestsPerMinute |-> 1, BlockDuration |-> 5]]

\* One address against two limits, with cleanups, unblocks and resets in between.
Rate == INSTANCE RateLimiter WITH
  IPs <- {"a"}, normalizeIP <- [ip \in {"a"} |-> ip], getShard <- [ip \in {"a"} |-> 1],
  NumShards <- 1, Endpoints <- {"all", "login"}, Configs <- Configs, Whitelisted <- {},
  Window <- 2, Second <- 2, Ops <- {"Unblock", "Reset"}, MaxNow <- 4

\* Overlapping operations on the two lists, on one address in two spellings.
Lists == INSTANCE RateLimiter WITH
  IPs <- {"a", "v6"}, normalizeIP <- Spellings, getShard <- [ip \in {"a", "v6"} |-> 1],
  NumShards <- 1, Endpoints <- {"all"}, Configs <- Configs, Whitelisted <- {"v6"},
  Window <- 3, Second <- 2, MaxNow <- 0,
  Ops <- {"Blacklist", "Whitelist", "RemoveFromBlacklist", "RemoveFromWhitelist"}

\* Two shards that cleanups and overlapping calls of Reset("") walk through.
Resets == INSTANCE RateLimiter WITH
  IPs <- {"a", "b"}, normalizeIP <- [a |-> "a", b |-> "b"], getShard <- [a |-> 1, b |-> 2],
  NumShards <- 2, Endpoints <- {"none"},
  Configs <- [none |-> [RequestsPerMinute |-> 0, BlockDuration |-> 2]], Whitelisted <- {},
  Window <- 1, Second <- 2, Ops <- {"ResetAll", "Stop"}, MaxNow <- 1

\* One address counted in Redis, with calls that fail or time out.
Shared == INSTANCE RedisLimiter WITH
  Instances <- {"i"}, IPs <- {"a"}, Endpoints <- {"all"},
  normalizeIP <- [ip \in {"a"} |-> ip], Whitelisted <- {}, Limit <- 2, BlockDuration <- 2,
  Window <- 2, ReadTimeout <- 1, Randoms <- {1, 2}, EnableFallback <- TRUE, MayFail <- TRUE,
  Ops <- {"Unblock", "Reset", "ResetAll"}, Listed <- {"a"}, MaxNow <- 3

\* Two instances of the program and the blacklist they share.
SharedLists == INSTANCE RedisLimiter WITH
  IPs <- {"a", "v6"}, Endpoints <- {"all"}, normalizeIP <- Spellings, Whitelisted <- {},
  Limit <- 1, BlockDuration <- 2, Window <- 3, ReadTimeout <- 1, Randoms <- {1},
  EnableFallback <- TRUE, MayFail <- TRUE, Listed <- {"a"}, MaxNow <- 0,
  Ops <- {"Blacklist", "Whitelist", "RemoveFromBlacklist", "RemoveFromWhitelist"}

\* One API key with a limit of one request.
Key == INSTANCE ApiKeys WITH
  Requests <- Processes, RateLimit <- 1, Window <- 2, MaxKeys <- 1, MaxTime <- 3

Severity == [a1 |-> "high", a3 |-> "odd"]
Type == [a1 |-> "waf", a3 |-> "system"]

\* Two alerts, raised again and again by the worker and by a caller of SendImmediate.
Throttle == INSTANCE Alerts WITH
  AlertIds <- {"a1", "a3"}, Webhooks <- {"slack"},
  MinSeverity <- [slack |-> "medium"], Types <- [slack |-> {}], Enabled <- {"slack"},
  Immediate <- {"caller"}, BufferSize <- 1, RetryAttempts <- 1, MaxPerMinute <- 1,
  MaxPerHour <- 2, Minute <- 1, Hour <- 2, Again <- TRUE, MaxNow <- 1

\* Two requests and a query from two addresses of one network, in different countries, and
\* from a private one; <<>> is a string that is no address.
Country == (<<5, 1>> :> "RU") @@ (<<5, 2>> :> "US") @@ (<<10, 0>> :> "XX")
Geo == INSTANCE GeoIp WITH
  Requests <- Processes, Queries <- {"q"}, Addrs <- DOMAIN Country, Invalid <- <<>>,
  Accurate <- Country, BlockedCountries <- {"RU"}, AllowedCountries <- {},
  Countries <- {"RU", "US"}, MaxChanges <- 1, req <- lookups

\* Two handlers that check a password which becomes known while the answer is cached.
Breaches == INSTANCE Hibp WITH
  Callers <- Processes, Passwords <- {"p"}, CacheDuration <- 1, Timeout <- 1, Thresholds <- {2},
  MaxCount <- 2, MaxNow <- 4, MaxConfigs <- 1

InitLimiters ==
  \/ part = "rate" /\ Rate!Init /\ NoRedis /\ NoKeys /\ NoAlerts
  \/ part = "lists" /\ Lists!Init /\ NoRedis /\ NoKeys /\ NoAlerts
  \/ part = "resets" /\ Resets!Init /\ NoRedis /\ NoKeys /\ NoAlerts
  \/ /\ part = "shared" /\ Shared!Init
     /\ NoRate /\ raced = Unused /\ stopped = Unused /\ NoKeys /\ NoAlerts
  \/ /\ part = "sharedLists" /\ SharedLists!Init
     /\ NoRate /\ raced = Unused /\ stopped = Unused /\ NoKeys /\ NoAlerts
  \/ /\ part = "key" /\ Key!Init
     /\ proc = Unused /\ stopped = Unused /\ NoLists /\ NoRate /\ NoRedis /\ NoAlerts
  \/ /\ part = "throttle" /\ Throttle!Init
     /\ raced = Unused /\ NoLists /\ NoRate /\ NoRedis /\ NoKeys

Init ==
  \/ InitLimiters /\ NoGeo /\ NoBreach
  \/ /\ part = "geo" /\ Geo!Init /\ now = Unused /\ proc = Unused /\ stopped = Unused
     /\ raced = Unused /\ NoLists /\ NoRate /\ NoRedis /\ NoKeys /\ NoAlerts /\ NoBreach
  \/ /\ part = "breaches" /\ Breaches!Init /\ proc = Unused /\ stopped = Unused
     /\ raced = Unused /\ NoLists /\ NoRate /\ NoRedis /\ NoKeys /\ NoAlerts /\ NoGeo

\* Only the variables of an instance change.
OfRate(A) == A /\ UNCHANGED <<part, redisVars, keyVars, alertVars, geoVars, breachVars>>
OfRedis(A) == A /\ UNCHANGED <<part, stopped, rateVars, raced, keyVars, alertVars, geoVars, breachVars>>

Next ==
  \/ part = "rate" /\ OfRate(Rate!Next)
  \/ part = "lists" /\ OfRate(Lists!Next)
  \/ part = "resets" /\ OfRate(Resets!Next)
  \/ part = "shared" /\ OfRedis(Shared!Next)
  \/ part = "sharedLists" /\ OfRedis(SharedLists!Next)
  \/ /\ part = "key" /\ Key!Next
     /\ UNCHANGED <<part, proc, stopped, listVars, rateVars, redisVars, alertVars, geoVars, breachVars>>
  \/ /\ part = "throttle" /\ Throttle!Next
     /\ UNCHANGED <<part, raced, listVars, rateVars, redisVars, keyVars, geoVars, breachVars>>
  \/ part = "geo" /\ Geo!Next /\ UNCHANGED <<part, limitVars, breachVars>>
  \/ /\ part = "breaches" /\ Breaches!Next
     /\ UNCHANGED <<part, proc, stopped, raced, listVars, rateVars, redisVars, keyVars, alertVars,
                    geoVars>>

Spec == Init /\ [][Next]_vars

\* Type invariant of each instance.
LimitersTypeOK ==
  CASE part = "rate" -> Rate!TypeOK
    [] part = "lists" -> Lists!TypeOK
    [] part = "shared" -> Shared!TypeOK
    [] part = "sharedLists" -> SharedLists!TypeOK
    [] part = "key" -> Key!TypeOK
    [] part = "resets" -> Resets!TypeOK
    [] part = "throttle" -> Throttle!TypeOK
    [] part = "geo" -> Geo!TypeOK
    [] part = "breaches" -> Breaches!TypeOK

\* No limit is exceeded, whatever overlaps, fails or is cleaned up meanwhile: that of an
\* address in RateLimiter.Allow, that of the instances together in the script of
\* RedisRateLimiter, that of an API key in checkRateLimit, and but for the other
\* senders that of a webhook in sendToWebhook (see these properties in RateLimiter,
\* RedisLimiter, ApiKeys and Alerts).
LimitsKept ==
  /\ part = "rate" => Rate!WindowKept
  /\ part = "shared" => Shared!SharedLimit
  /\ part = "key" => Key!KeyThrottled
  /\ part = "throttle" => Throttle!Throttled

\* The lists are what is enforced and counted: Blacklist and Whitelist leave no address
\* on both lists, blacklisting through one instance holds for all, totalVisitors is the
\* number of visitors after Reset(""), and a request from a blocked country passes
\* ShouldBlock only when no service knew its country, and the verdict on a password is
\* no older than a cached answer may be (see these properties in RateLimiter,
\* RedisLimiter, GeoIp and Hibp).
ListsAgree ==
  /\ LimitersTypeOK
  /\ part = "lists" => Lists!ListsExclusive
  /\ part = "sharedLists" => SharedLists!PermanentBlacklist
  /\ part = "resets" => Resets!VisitorsCounted
  /\ part = "geo" => Geo!BlockedUnlessUnknown /\ Geo!DecisionsCounted
  /\ part = "breaches" => Breaches!VerdictFresh

\* RateLimiter.Allow: no visitor is granted a request before its block ends (see
\* BlockKept in RateLimiter).
BlockKept == [][part = "rate" => Rate!BlockHolds]_vars

Symmetry == Permutations(Processes) \cup Permutations(Instances)
=============================================================================
