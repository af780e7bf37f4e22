---------------------------- MODULE RedisLimiter ----------------------------
(***************************************************************************)
(* Rate limiting through Redis (internal/app/ratelimit/redis.go, and the   *)
(* branches of ratelimit.go taken when a Redis backend is set): several    *)
(* instances of the program share the counters, the blocks and the         *)
(* blacklist; each has its own whitelists.                                 *)
(*                                                                         *)
(* A step is one call of the Redis client, which may fail, or one access   *)
(* to an instance's own lists (their interleavings are in RateLimiter).    *)
(* The fallback limiter is what RateLimiter allows it to be: it may        *)
(* refuse any request that is not whitelisted.                             *)
(***************************************************************************)
EXTENDS Integers, Sequences, FiniteSets

CONSTANTS
  Processes, Instances, IPs, Endpoints,
  normalizeIP,    \* function from IPs to IPs
  Whitelisted,    \* config.Whitelist
  Limit, BlockDuration,
  Window,         \* the script's window
  ReadTimeout,    \* how long an Eval may take
  Randoms,        \* what math.random may return in the script
  EnableFallback, \* an instance has a fallback limiter
  MayFail,        \* Redis calls can fail
  Ops, Listed,    \* the administrators' operations of a model, and the addresses they name
  MaxNow          \* bound: the last second

VARIABLES
  now,
  whitelist, blacklist, \* of each instance's RateLimiter
  backendWhite,         \* of each instance's RedisRateLimiter
  redis,                \* the keys in Redis: black, entries, expires, block
  proc,
  granted,              \* history: when the script granted, up to one request over the limit
  collided,             \* history: an entry replaced another one
  banned,               \* history: addresses on the shared blacklist, by request of an administrator
  let                   \* history: a request of a banned address was granted

vars == <<now, whitelist, blacklist, backendWhite, redis, proc, granted, collided, banned, let>>
local == <<whitelist, blacklist, backendWhite>>
hist == <<granted, collided, banned, let>>

Keys == IPs \X Endpoints
Idle == [op |-> "none", at |-> "idle"]

Init ==
  /\ now = 0
  /\ whitelist = [i \in Instances |-> Whitelisted]
  /\ backendWhite = [i \in Instances |-> Whitelisted]
  /\ blacklist = [i \in Instances |-> {}]
  /\ redis = [black |-> {}, entries |-> [k \in Keys |-> {}],
              expires |-> [k \in Keys |-> 0], block |-> [k \in Keys |-> 0]]
  /\ proc = [p \in Processes |-> Idle]
  /\ granted = [k \in Keys |-> <<>>] /\ collided = FALSE /\ banned = {} /\ let = FALSE

Goto(p, label) == proc' = [proc EXCEPT ![p].at = label]
Finish(p) == proc' = [proc EXCEPT ![p] = Idle]

Names(ip) == {ip, normalizeIP[ip]}

\* Whether a call to Redis succeeds.
Answers == IF MayFail THEN BOOLEAN ELSE {TRUE}

\* The request is answered; a banned address must have been refused.
Refuse(p) == Finish(p) /\ UNCHANGED let
Grant(p) == Finish(p) /\ let' = (let \/ proc[p].ban)

----------------------------------------------------------------------------
AllowEndpoint(p, i, ip, ep) ==
  /\ proc[p] = Idle
  /\ proc' = [proc EXCEPT ![p] =
       [op |-> "allow", at |-> "lists", i |-> i, ip |-> ip, ep |-> ep, n |-> 1, read |-> 0,
        ban |-> Names(ip) \cap banned # {}]]
  /\ UNCHANGED <<now, local, redis, hist>>

OnList(l, ip) == Names(ip) \cap l # {}

CheckLists(p) ==
  /\ proc[p].at = "lists"
  /\ LET i == proc[p].i
         ip == proc[p].ip
     IN \/ OnList(whitelist[i], ip) /\ Finish(p)
        \/ ~OnList(whitelist[i], ip) /\ ip \in blacklist[i] /\ Finish(p)
        \/ ~OnList(whitelist[i], ip) /\ ip \notin blacklist[i] /\ Goto(p, "exists")
  /\ UNCHANGED <<now, local, redis, hist>>

\* The blacklist is asked for twice by each limiter: the normalized address first.
LookedUp(p) == IF proc[p].n \in {1, 3} THEN normalizeIP[proc[p].ip] ELSE proc[p].ip

\* IsBlacklisted: an error counts as no.
IsBlacklisted(p) ==
  /\ proc[p].at = "exists"
  /\ \E ok \in Answers :
       \/ /\ ok /\ LookedUp(p) \in redis.black
          /\ Finish(p)
       \/ /\ ~(ok /\ LookedUp(p) \in redis.black)
          /\ LET exempt == proc[p].n = 2 /\ OnList(backendWhite[proc[p].i], proc[p].ip)
             IN proc' = [proc EXCEPT ![p] = IF exempt THEN Idle
                   ELSE [@ EXCEPT !.n = @ + 1, !.read = now, !.ban = @ /\ ok,
                                  !.at = IF proc[p].n = 4 THEN "eval" ELSE "exists"]]
  /\ UNCHANGED <<now, local, redis, hist>>

----------------------------------------------------------------------------
Old(score, t) == score <= t - Window

KeyOf(p) == <<normalizeIP[proc[p].ip], proc[p].ep>>
Blocked(k, t) == redis.block[k] > t
Kept(k, t) == {e \in redis.entries[k] : ~Old(e[1], t)}

Full(k, t) == Cardinality(Kept(k, t)) >= Limit

\* The script, run atomically by Redis with the time that the caller read.
ScriptRefuses(k, t) ==
  /\ Blocked(k, t) \/ Full(k, t)
  /\ redis' = IF Blocked(k, t) THEN redis
              ELSE [redis EXCEPT !.entries[k] = Kept(k, t), !.block[k] = t + BlockDuration]

ScriptGrants(k, t, r) ==
  /\ ~Blocked(k, t) /\ ~Full(k, t)
  /\ redis' = [redis EXCEPT !.block[k] = 0, !.entries[k] = Kept(k, t) \cup {<<t, r>>},
                            !.expires[k] = now + Window]

EvalRefuses(p) ==
  /\ proc[p].at = "eval"
  /\ ScriptRefuses(KeyOf(p), proc[p].read)
  /\ Refuse(p)
  /\ UNCHANGED <<now, local, granted, collided, banned>>

EvalGrants(p) ==
  /\ proc[p].at = "eval"
  /\ LET k == KeyOf(p)
     IN \E r \in Randoms :
          /\ ScriptGrants(k, proc[p].read, r)
          /\ collided' = (collided \/ <<proc[p].read, r>> \in Kept(k, proc[p].read))
          /\ granted' = [granted EXCEPT ![k] = IF Len(@) > Limit THEN @ ELSE Append(@, now)]
  /\ Grant(p)
  /\ UNCHANGED <<now, local, banned>>

\* Eval fails: it was not run, or it was and its answer is lost.
EvalFails(p) ==
  /\ proc[p].at = "eval" /\ MayFail
  /\ \/ UNCHANGED redis
     \/ ScriptRefuses(KeyOf(p), proc[p].read)
     \/ \E r \in Randoms : ScriptGrants(KeyOf(p), proc[p].read, r)
  /\ IF EnableFallback
     THEN proc' = [proc EXCEPT ![p].at = "fallback", ![p].ban = FALSE]
     ELSE Finish(p)
  /\ UNCHANGED <<now, local, hist>>

Fallback(p) ==
  /\ proc[p].at = "fallback"
  /\ Refuse(p) \/ Grant(p)
  /\ OnList(Whitelisted, proc[p].ip) => Grant(p)
  /\ UNCHANGED <<now, local, redis, granted, collided, banned>>

----------------------------------------------------------------------------
Lifting == {"Whitelist", "RemoveFromBlacklist"}

\* From here on no request is held to a ban that the operation lifts.
Begin(p, op, i, ip) ==
  /\ proc[p] = Idle /\ op \in Ops
  /\ proc' = [q \in Processes |->
       IF q = p THEN [op |-> op, at |-> "redis", i |-> i, ip |-> ip]
       ELSE IF op \in Lifting /\ proc[q].op = "allow" /\ ip \in Names(proc[q].ip)
            THEN [proc[q] EXCEPT !.ban = FALSE] ELSE proc[q]]
  /\ banned' = IF op \in Lifting THEN banned \ {ip} ELSE banned
  /\ UNCHANGED <<now, local, redis, granted, collided, let>>

BeingLifted(ip) == \E q \in Processes : proc[q].op \in Lifting /\ proc[q].ip = ip

Blacklist(p) ==
  /\ proc[p].op = "Blacklist"
  /\ LET i == proc[p].i
         ip == proc[p].ip
     IN \/ /\ proc[p].at = "redis"
           /\ \E ok \in Answers :
                /\ redis' = IF ok THEN [redis EXCEPT !.black = @ \cup {ip}] ELSE redis
                /\ banned' = IF ok /\ ~BeingLifted(ip) THEN banned \cup {ip} ELSE banned
           /\ Goto(p, "local")
           /\ UNCHANGED local
        \/ /\ proc[p].at = "local"
           /\ blacklist' = [blacklist EXCEPT ![i] = @ \cup {ip}]
           /\ whitelist' = [whitelist EXCEPT ![i] = @ \ {ip}]
           /\ Finish(p)
           /\ UNCHANGED <<backendWhite, redis, banned>>
  /\ UNCHANGED <<now, granted, collided, let>>

DelBlack(ip) ==
  \E ok \in Answers : redis' = IF ok THEN [redis EXCEPT !.black = @ \ {ip}] ELSE redis

Whitelist(p) ==
  /\ proc[p].op = "Whitelist"
  /\ LET i == proc[p].i
         ip == proc[p].ip
     IN \/ /\ proc[p].at = "redis"
           /\ backendWhite' = [backendWhite EXCEPT ![i] = @ \cup {ip}]
           /\ Goto(p, "del")
           /\ UNCHANGED <<whitelist, blacklist, redis>>
        \/ /\ proc[p].at = "del"
           /\ DelBlack(ip)
           /\ Goto(p, "local")
           /\ UNCHANGED local
        \/ /\ proc[p].at = "local"
           /\ whitelist' = [whitelist EXCEPT ![i] = @ \cup {ip}]
           /\ blacklist' = [blacklist EXCEPT ![i] = @ \ {ip}]
           /\ Finish(p)
           /\ UNCHANGED <<backendWhite, redis>>
  /\ UNCHANGED <<now, hist>>

RemoveFromBlacklist(p) ==
  /\ proc[p].op = "RemoveFromBlacklist"
  /\ \/ /\ proc[p].at = "redis"
        /\ DelBlack(proc[p].ip)
        /\ Goto(p, "local")
        /\ UNCHANGED local
     \/ /\ proc[p].at = "local"
        /\ blacklist' = [blacklist EXCEPT ![proc[p].i] = @ \ {proc[p].ip}]
        /\ Finish(p)
        /\ UNCHANGED <<whitelist, backendWhite, redis>>
  /\ UNCHANGED <<now, hist>>

RemoveFromWhitelist(p) ==
  /\ proc[p].op = "RemoveFromWhitelist"
  /\ \/ /\ proc[p].at = "redis"
        /\ backendWhite' = [backendWhite EXCEPT ![proc[p].i] = @ \ {proc[p].ip}]
        /\ Goto(p, "local")
        /\ UNCHANGED <<whitelist, blacklist>>
     \/ /\ proc[p].at = "local"
        /\ whitelist' = [whitelist EXCEPT ![proc[p].i] = @ \ {proc[p].ip}]
        /\ Finish(p)
        /\ UNCHANGED <<backendWhite, blacklist>>
  /\ UNCHANGED <<now, redis, hist>>

----------------------------------------------------------------------------
\* Scan and Del of the keys of some addresses: counters, and then blocks.
DelEntries(ips) ==
  /\ redis' = [redis EXCEPT !.entries = [k \in Keys |-> IF k[1] \in ips THEN {} ELSE @[k]]]
  /\ granted' = [k \in Keys |-> IF k[1] \in ips THEN <<>> ELSE granted[k]]
DelBlocks(ips) ==
  redis' = [redis EXCEPT !.block = [k \in Keys |-> IF k[1] \in ips THEN 0 ELSE @[k]]]

\* Reset of one address scans for two patterns; an error ends the scan of one.
Reset(p) ==
  /\ proc[p].op = "Reset"
  /\ \/ /\ proc[p].at = "redis"
        /\ \/ DelEntries({proc[p].ip})
           \/ MayFail /\ UNCHANGED <<redis, granted>>
        /\ Goto(p, "blocks")
     \/ /\ proc[p].at = "blocks"
        /\ DelBlocks({proc[p].ip}) \/ (MayFail /\ UNCHANGED redis)
        /\ Finish(p)
        /\ UNCHANGED granted
  /\ UNCHANGED <<now, local, collided, banned, let>>

\* Unblock deletes the blocks only.
Unblock(p) ==
  /\ proc[p].op = "Unblock"
  /\ DelBlocks({proc[p].ip}) \/ (MayFail /\ UNCHANGED redis)
  /\ Finish(p)
  /\ UNCHANGED <<now, local, hist>>

\* Reset("") deletes every key with the prefix of the limiter, in batches; an error
\* ends it.
ResetAll(p) ==
  /\ proc[p].op = "ResetAll"
  /\ \/ \/ DelEntries(IPs) /\ UNCHANGED proc
        \/ DelBlocks(IPs) /\ UNCHANGED <<granted, proc>>
        \/ redis' = [redis EXCEPT !.black = {}] /\ UNCHANGED <<granted, proc>>
     \/ /\ MayFail \/ redis = [redis EXCEPT !.black = {}, !.entries = [k \in Keys |-> {}],
                                            !.block = [k \in Keys |-> 0]]
        /\ Finish(p)
        /\ UNCHANGED <<redis, granted>>
  /\ UNCHANGED <<now, local, collided, banned, let>>

\* Time passes; an Eval in progress ends before its timeout; Redis drops expired keys.
Tick ==
  /\ now < MaxNow
  /\ \A p \in Processes : proc[p].at = "eval" => now - proc[p].read < ReadTimeout
  /\ now' = now + 1
  /\ redis' = [redis EXCEPT !.entries =
                 [k \in Keys |-> IF redis.expires[k] <= now' THEN {} ELSE @[k]]]
  /\ granted' = [k \in Keys |-> SelectSeq(granted[k], LAMBDA t : t > now' - Window + ReadTimeout)]
  /\ UNCHANGED <<local, proc, collided, banned, let>>

Operations == {"Blacklist", "Whitelist", "RemoveFromBlacklist", "RemoveFromWhitelist",
               "Reset", "Unblock", "ResetAll"}

Process(p) ==
  \/ \E i \in Instances, ip \in IPs, ep \in Endpoints : AllowEndpoint(p, i, ip, ep)
  \/ CheckLists(p) \/ IsBlacklisted(p) \/ EvalRefuses(p) \/ EvalGrants(p) \/ EvalFails(p)
  \/ Fallback(p)
  \/ \E i \in Instances, ip \in Listed, op \in Operations : Begin(p, op, i, ip)
  \/ Blacklist(p) \/ Whitelist(p) \/ RemoveFromBlacklist(p) \/ RemoveFromWhitelist(p)
  \/ Reset(p) \/ Unblock(p) \/ ResetAll(p)

Next == Tick \/ \E p \in Processes : Process(p)

Spec == Init /\ [][Next]_vars

----------------------------------------------------------------------------
\* Type invariant of the instances, Redis and the calls in progress.
TypeOK ==
  /\ now \in 0..MaxNow
  /\ {whitelist, blacklist, backendWhite} \subseteq [Instances -> SUBSET IPs]
  /\ redis \in [black : SUBSET IPs, entries : [Keys -> SUBSET ((0..MaxNow) \X Randoms)],
                expires : [Keys -> Nat], block : [Keys -> 0..(MaxNow + BlockDuration)]]
  /\ \A k \in Keys : Cardinality(redis.entries[k]) <= Limit

\* In a minute, less the time an Eval may take, the instances together grant no more
\* requests of an address for an endpoint than the limit, unless two entries of a
\* second drew the same random number.
SharedLimit == ~collided => \A k \in Keys : Len(granted[k]) <= Limit

\* An address that was put on the shared blacklist by one instance is granted no
\* request by any instance, in either spelling, unless it is whitelisted there or
\* Redis does not answer, until it is taken off the list.
PermanentBlacklist == ~let

\* Claims of the comments that the code does not keep.

\* The script adds an entry for every request it grants, so that no more requests
\* are granted than the limit.
EveryGrantCounted == \A k \in Keys : Len(granted[k]) <= Limit
=============================================================================
