---------------------------- MODULE RateLimiter ----------------------------
(***************************************************************************)
(* The in-memory rate limiter (internal/app/ratelimit/ratelimit.go):       *)
(* visitors in locked shards, a sliding window of one minute, blocks of    *)
(* limited duration, white and black list as concurrent maps, the cleanup  *)
(* goroutine, and the administrators' operations.                          *)
(*                                                                         *)
(* Requests and administrators are processes.  A step is what happens      *)
(* under one shard lock, or one operation on a sync.Map.  Time is counted  *)
(* in ticks.  The metrics totalAllowed and totalBlocked, and a Redis       *)
(* backend (see RedisLimiter), are left out.                               *)
(***************************************************************************)
EXTENDS Integers, Sequences, FiniteSets

CONSTANTS
  Processes,   \* goroutines of requests and administrators
  IPs,         \* client addresses
  normalizeIP, \* function from IPs to IPs
  getShard,    \* function from IPs to 1..NumShards
  NumShards,
  Endpoints,   \* request paths, as getEndpointConfig tells them apart
  Configs,     \* the configuration of each endpoint: RequestsPerMinute, BlockDuration
  Whitelisted, \* config.Whitelist
  Window,      \* one minute, in ticks
  Second,      \* ticks of a second
  Ops,         \* the administrators' operations of a model
  MaxNow       \* bound: the last tick

VARIABLES
  now,            \* the clock
  whitelist, blacklist,
  visitors,       \* the visitor of each IP, or Absent
  totalVisitors,
  proc,           \* what each process is doing
  cleaner,        \* the cleanup goroutine
  stopped,        \* stopCh is closed
  granted,        \* history: requests granted in the last minute, since a reset
  until,          \* history: when the last block imposed since the last reset was to end
  raced           \* history: a reset of all shards met a visitor that came after it

vars == <<now, whitelist, blacklist, visitors, totalVisitors, proc, cleaner, stopped,
          granted, until, raced>>
lists == <<whitelist, blacklist>>
hist == <<granted, until, raced>>

Absent == [timestamps |-> <<>>, blocked |-> FALSE, blockUntil |-> -1]
Idle == [op |-> "none", at |-> "idle"]
Waiting == [at |-> "wait", started |-> 0, shard |-> 0]

Init ==
  /\ now = 0 /\ whitelist = Whitelisted /\ blacklist = {}
  /\ visitors = [ip \in IPs |-> Absent] /\ totalVisitors = 0
  /\ proc = [p \in Processes |-> Idle]
  /\ cleaner = Waiting /\ stopped = FALSE
  /\ granted = [ip \in IPs |-> <<>>] /\ until = [ip \in IPs |-> 0] /\ raced = FALSE

Goto(p, label) == proc' = [proc EXCEPT ![p].at = label]
Finish(p) == proc' = [proc EXCEPT ![p] = Idle]

Forgive(ips) ==
  /\ granted' = [ip \in IPs |-> IF ip \in ips THEN <<>> ELSE granted[ip]]
  /\ until' = [ip \in IPs |-> IF ip \in ips THEN 0 ELSE until[ip]]

Exists(ip) == visitors[ip] # Absent

\* Timestamps after the start of the window that ends at t.
Recent(ts, t) == ts > t - Window
\* time.Time.Unix drops the fraction of a second.
Unix(t) == t - (t % Second)
Prune(v, t) == [v EXCEPT !.timestamps = SelectSeq(v.timestamps, LAMBDA ts : Recent(ts, t))]
Expired(v, t) == t > v.blockUntil

----------------------------------------------------------------------------
\* AllowEndpoint: two looks at the whitelist, one at the blacklist, then the shard.
AllowEndpoint(p, ip, ep) ==
  /\ proc[p] = Idle
  /\ proc' = [proc EXCEPT ![p] = [op |-> "allow", at |-> "white", ip |-> ip, ep |-> ep]]
  /\ UNCHANGED <<now, lists, visitors, totalVisitors, cleaner, stopped, hist>>

CheckLists(p) ==
  /\ proc[p].op = "allow"
  /\ \/ /\ proc[p].at = "white"
        /\ IF proc[p].ip \in whitelist THEN Finish(p) ELSE Goto(p, "normal")
     \/ /\ proc[p].at = "normal"
        /\ IF normalizeIP[proc[p].ip] \in whitelist THEN Finish(p) ELSE Goto(p, "black")
     \/ /\ proc[p].at = "black"
        /\ IF proc[p].ip \in blacklist THEN Finish(p) ELSE Goto(p, "shard")
  /\ UNCHANGED <<now, lists, visitors, totalVisitors, cleaner, stopped, hist>>

\* Mutant: the limit itself is still granted.
OverLimitByOne(v, ep) == Len(v.timestamps) > Configs[ep].RequestsPerMinute
OverLimit(v, ep) == Len(v.timestamps) >= Configs[ep].RequestsPerMinute

AtShard(p) == proc[p].op = "allow" /\ proc[p].at = "shard"

CountVisitor == totalVisitors' = totalVisitors + 1

FirstVisit(p) ==
  /\ AtShard(p)
  /\ LET ip == proc[p].ip
     IN /\ ~Exists(ip)
        /\ visitors' = [visitors EXCEPT ![ip] = [timestamps |-> <<now>>, blocked |-> FALSE,
                                                 blockUntil |-> 0]]
        /\ granted' = [granted EXCEPT ![ip] = Append(@, now)]
  /\ CountVisitor
  /\ Finish(p)
  /\ UNCHANGED <<now, lists, cleaner, stopped, until, raced>>

StillBlocked(p) ==
  /\ AtShard(p)
  /\ LET v == visitors[proc[p].ip]
     IN Exists(proc[p].ip) /\ v.blocked /\ ~Expired(v, now)
  /\ Finish(p)
  /\ UNCHANGED <<now, lists, visitors, totalVisitors, cleaner, stopped, hist>>

\* The window is pruned; the request is added to it or the visitor is blocked.
Judge(p) ==
  /\ AtShard(p)
  /\ LET ip == proc[p].ip
         ep == proc[p].ep
         v == Prune([visitors[ip] EXCEPT !.blocked = FALSE], now)
     IN /\ Exists(ip)
        /\ visitors[ip].blocked => Expired(visitors[ip], now)
        /\ \/ /\ OverLimit(v, ep)
              /\ visitors' = [visitors EXCEPT ![ip] =
                   [v EXCEPT !.blocked = TRUE,
                             !.blockUntil = Unix(now + Configs[ep].BlockDuration)]]
              /\ until' = [until EXCEPT ![ip] = now + Configs[ep].BlockDuration]
              /\ UNCHANGED granted
           \/ /\ ~OverLimit(v, ep)
              /\ visitors' = [visitors EXCEPT ![ip] =
                                [v EXCEPT !.timestamps = Append(@, now)]]
              /\ granted' = [granted EXCEPT ![ip] = Append(@, now)]
              /\ UNCHANGED until
  /\ Finish(p)
  /\ UNCHANGED <<now, lists, totalVisitors, cleaner, stopped, raced>>

----------------------------------------------------------------------------
\* Blacklist and Whitelist store in one map, then delete from the other.
Begin(p, op, ip) ==
  /\ proc[p] = Idle /\ op \in Ops
  /\ proc' = [proc EXCEPT ![p] = [op |-> op, at |-> "first", ip |-> ip]]
  /\ UNCHANGED <<now, lists, visitors, totalVisitors, cleaner, stopped, hist>>

StoreFirst(p) ==
  /\ proc[p].at = "first" /\ proc[p].op \in {"Blacklist", "Whitelist"}
  /\ IF proc[p].op = "Blacklist"
     THEN blacklist' = blacklist \cup {proc[p].ip} /\ UNCHANGED whitelist
     ELSE whitelist' = whitelist \cup {proc[p].ip} /\ UNCHANGED blacklist
  /\ Goto(p, "second")
  /\ UNCHANGED <<now, visitors, totalVisitors, cleaner, stopped, hist>>

\* Mutant: Whitelist leaves the blacklist alone.
DeleteOtherNot(p) == UNCHANGED lists
DeleteOther(p) ==
  IF proc[p].op = "Blacklist"
  THEN whitelist' = whitelist \ {proc[p].ip} /\ UNCHANGED blacklist
  ELSE blacklist' = blacklist \ {proc[p].ip} /\ UNCHANGED whitelist

DeleteSecond(p) ==
  /\ proc[p].at = "second" /\ proc[p].op \in {"Blacklist", "Whitelist"}
  /\ DeleteOther(p)
  /\ Finish(p)
  /\ UNCHANGED <<now, visitors, totalVisitors, cleaner, stopped, hist>>

RemoveFromList(p) ==
  /\ proc[p].at = "first" /\ proc[p].op \in {"RemoveFromBlacklist", "RemoveFromWhitelist"}
  /\ IF proc[p].op = "RemoveFromBlacklist"
     THEN blacklist' = blacklist \ {proc[p].ip} /\ UNCHANGED whitelist
     ELSE whitelist' = whitelist \ {proc[p].ip} /\ UNCHANGED blacklist
  /\ Finish(p)
  /\ UNCHANGED <<now, visitors, totalVisitors, cleaner, stopped, hist>>

\* Reset of one IP, and Unblock, which keeps the visitor.
ResetOne(p) ==
  /\ proc[p].at = "first" /\ proc[p].op \in {"Reset", "Unblock"}
  /\ LET ip == proc[p].ip
     IN \/ /\ proc[p].op = "Reset"
           /\ visitors' = [visitors EXCEPT ![ip] = Absent]
           /\ totalVisitors' = IF Exists(ip) THEN totalVisitors - 1 ELSE totalVisitors
           /\ Forgive({ip})
        \/ /\ proc[p].op = "Unblock"
           /\ visitors' = IF ~Exists(ip) THEN visitors
                          ELSE [visitors EXCEPT ![ip].blocked = FALSE, ![ip].timestamps = <<>>]
           /\ IF Exists(ip) THEN Forgive({ip}) ELSE UNCHANGED <<granted, until>>
           /\ UNCHANGED totalVisitors
  /\ Finish(p)
  /\ UNCHANGED <<now, lists, cleaner, stopped, raced>>

\* Reset("") empties the shards one after the other and then zeroes the count.
ResetAll(p) ==
  /\ proc[p] = Idle /\ "ResetAll" \in Ops
  /\ proc' = [proc EXCEPT ![p] = [op |-> "ResetAll", at |-> "shard", shard |-> 1]]
  /\ UNCHANGED <<now, lists, visitors, totalVisitors, cleaner, stopped, hist>>

ResetShard(p) ==
  /\ proc[p].op = "ResetAll" /\ proc[p].shard <= NumShards
  /\ LET gone == {ip \in IPs : getShard[ip] = proc[p].shard}
     IN /\ visitors' = [ip \in IPs |-> IF ip \in gone THEN Absent ELSE visitors[ip]]
        /\ Forgive(gone)
  /\ proc' = [proc EXCEPT ![p].shard = @ + 1]
  /\ UNCHANGED <<now, lists, totalVisitors, cleaner, stopped, raced>>

ResetCount(p) ==
  /\ proc[p].op = "ResetAll" /\ proc[p].shard > NumShards
  /\ totalVisitors' = 0
  /\ raced' = (raced \/ \E ip \in IPs : Exists(ip))
  /\ Finish(p)
  /\ UNCHANGED <<now, lists, visitors, cleaner, stopped, granted, until>>

----------------------------------------------------------------------------
\* The cleanup goroutine takes the time once and then goes from shard to shard.
StartCleanup ==
  /\ cleaner.at = "wait"
  /\ cleaner' = [at |-> "shard", started |-> now, shard |-> 1]
  /\ UNCHANGED <<now, lists, visitors, totalVisitors, proc, stopped, hist>>

Unblocked(v, t) == IF v.blocked /\ Expired(v, t) THEN [v EXCEPT !.blocked = FALSE] ELSE v

\* Mutant: a visitor without recent requests is removed although it is blocked.
StaleEvenBlocked(v) == v.timestamps = <<>>
Stale(v) == v.timestamps = <<>> /\ ~v.blocked

CleanShard ==
  /\ cleaner.at = "shard" /\ cleaner.shard <= NumShards
  /\ LET here == {ip \in IPs : getShard[ip] = cleaner.shard /\ Exists(ip)}
         kept == [ip \in here |-> Prune(Unblocked(visitors[ip], cleaner.started), cleaner.started)]
         gone == {ip \in here : Stale(kept[ip])}
     IN /\ visitors' = [ip \in IPs |-> IF ip \in gone THEN Absent
                                       ELSE IF ip \in here THEN kept[ip] ELSE visitors[ip]]
        /\ totalVisitors' = totalVisitors - Cardinality(gone)
  /\ cleaner' = [cleaner EXCEPT !.shard = @ + 1]
  /\ UNCHANGED <<now, lists, proc, stopped, hist>>

EndCleanup ==
  /\ cleaner.at = "shard" /\ cleaner.shard > NumShards
  /\ cleaner' = Waiting
  /\ UNCHANGED <<now, lists, visitors, totalVisitors, proc, stopped, hist>>

Stop ==
  /\ ~stopped /\ "Stop" \in Ops
  /\ stopped' = TRUE
  /\ UNCHANGED <<now, lists, visitors, totalVisitors, proc, cleaner, hist>>

StopSeen == stopped

CleanerExits ==
  /\ cleaner.at = "wait" /\ StopSeen
  /\ cleaner' = [cleaner EXCEPT !.at = "done"]
  /\ UNCHANGED <<now, lists, visitors, totalVisitors, proc, stopped, hist>>

Tick ==
  /\ now < MaxNow
  /\ now' = now + 1
  /\ granted' = [ip \in IPs |-> SelectSeq(granted[ip], LAMBDA ts : ts > now' - Window)]
  /\ UNCHANGED <<lists, visitors, totalVisitors, proc, cleaner, stopped, until, raced>>

Process(p) ==
  \/ \E ip \in IPs, ep \in Endpoints : AllowEndpoint(p, ip, ep)
  \/ CheckLists(p) \/ FirstVisit(p) \/ StillBlocked(p) \/ Judge(p)
  \/ \E ip \in IPs, op \in {"Blacklist", "Whitelist", "RemoveFromBlacklist",
                            "RemoveFromWhitelist", "Reset", "Unblock"} : Begin(p, op, ip)
  \/ StoreFirst(p) \/ DeleteSecond(p) \/ RemoveFromList(p) \/ ResetOne(p)
  \/ ResetAll(p) \/ ResetShard(p) \/ ResetCount(p)

Cleaner == StartCleanup \/ CleanShard \/ EndCleanup \/ CleanerExits

Next == (\E p \in Processes : Process(p)) \/ Cleaner \/ Stop \/ Tick

Spec == Init /\ [][Next]_vars

\* The goroutine is scheduled, and its select does not pass over a closed stopCh for ever.
FairSpec == Spec /\ WF_vars(Cleaner) /\ SF_vars(CleanerExits)

----------------------------------------------------------------------------
Times == 0..MaxNow

\* Type invariant of the limiter; block ends are whole seconds.
TypeOK ==
  /\ now \in Times /\ whitelist \subseteq IPs /\ blacklist \subseteq IPs
  /\ visitors \in [IPs -> [timestamps : Seq(Times), blocked : BOOLEAN, blockUntil : Int]]
  /\ \A ip \in IPs : Exists(ip) => visitors[ip].blockUntil % Second = 0
  /\ totalVisitors \in Int /\ stopped \in BOOLEAN
  /\ cleaner.at \in {"wait", "shard", "done"} /\ cleaner.shard \in 0..(NumShards + 1)
  /\ \A p \in Processes : proc[p].at \in {"idle", "white", "normal", "black", "shard",
                                          "first", "second"}

MaxLimit == CHOOSE n \in {1} \cup {Configs[ep].RequestsPerMinute : ep \in Endpoints} :
              \A ep \in Endpoints : n >= Configs[ep].RequestsPerMinute /\ n >= 1

\* In no minute are more requests of an address granted than the largest limit, or
\* one, allows, however cleanups and other requests come in between (requests of
\* listed addresses aside, and counting anew after a reset or an unblock).
WindowKept ==
  \A ip \in IPs : Len(granted[ip]) <= MaxLimit

\* A visitor that was blocked is granted nothing until the block ends, to the
\* second: neither a cleanup nor another endpoint's limit lets it in earlier.
BlockHolds ==
  \A ip \in IPs : Len(granted'[ip]) > Len(granted[ip]) => now + Second > until[ip]
BlockKept == [][BlockHolds]_vars

Resetting == \E p \in Processes : proc[p].op = "ResetAll"

\* totalVisitors is the number of visitors whenever no Reset("") is under way and
\* none was overtaken by a new visitor.
VisitorsCounted ==
  ~Resetting /\ ~raced => totalVisitors = Cardinality({ip \in IPs : Exists(ip)})

ListOps == {"Blacklist", "Whitelist"}
Listing(ip) == \E p \in Processes : proc[p].op \in ListOps /\ proc[p].at = "second"
                                    /\ proc[p].ip = ip

\* However operations on the two lists overlap, no address is left on both.
ListsExclusive == \A ip \in IPs : ip \in whitelist \cap blacklist => Listing(ip)

\* After Stop the cleanup goroutine ends.
CleanerEnds == stopped ~> (cleaner.at = "done")
=============================================================================
