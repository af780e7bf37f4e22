------------------------------- MODULE GeoIp -------------------------------
(***************************************************************************)
(* The GeoIP service: lookups through a cache, an external service and a   *)
(* table of address ranges, and the decision by country.  An address is    *)
(* the pair of its first two octets, or Invalid for a string that is no    *)
(* address (external: what extractIP finds in the request's headers).      *)
(*                                                                         *)
(* Requests run concurrently; the cache is a sync.Map and the rules are    *)
(* under a lock, so each access is atomic.  The external service (ip-api)  *)
(* may fail or know nothing; an answer that is not trusted is replaced by  *)
(* the table's, which is an approximation.                                 *)
(***************************************************************************)
EXTENDS Naturals, FiniteSets, FiniteSetsExt, TLC

CONSTANTS
  Requests,        \* requests to the web application
  Queries,         \* requests to HandleLookup
  Addrs, Invalid,
  Accurate,        \* address -> its country according to the external service
  BlockedCountries, AllowedCountries,   \* of the configuration
  Countries,       \* that an administrator may block and unblock
  MaxChanges

VARIABLES
  rules,           \* country -> "allow" or "block"
  ipCache,         \* address -> country
  req,             \* request -> [at, ip, country, verdict]
  hits, misses, total,
  requestsBy, blockedBy,   \* country -> count
  changes,
  failed,          \* history: addresses for which the external service failed
  wrong            \* history: requests let through although the country of their
                   \* address, as the external service has it, was blocked

metrics == <<hits, misses, total, requestsBy, blockedBy>>
vars == <<rules, ipCache, req, metrics, changes, failed, wrong>>

All == Requests \cup Queries
Unknown == "XX"
Idle == [at |-> "new"]

\* NewService: an allow rule replaces a block rule of the same country.
WhitelistMode == AllowedCountries # {}
NewRules == [c \in BlockedCountries \cup AllowedCountries |->
               IF c \in AllowedCountries THEN "allow" ELSE "block"]

(***************************************************************************)
(* The table of ranges                                                     *)
(***************************************************************************)
isPrivateIP(ip) ==
  \/ ip[1] \in {10, 127} \/ (ip[1] = 172 /\ ip[2] \in 16 .. 31)
  \/ ip \in {<<192, 168>>, <<169, 254>>}

selectEuropeanCountry(o) ==
  CASE o < 50 -> "DE" [] o \in 50 .. 99 -> "FR" [] o \in 100 .. 149 -> "GB"
    [] o \in 150 .. 199 -> "NL" [] OTHER -> "EU"
selectAsianCountry(o) ==
  CASE o < 50 -> "CN" [] o \in 50 .. 99 -> "JP" [] o \in 100 .. 149 -> "KR"
    [] o \in 150 .. 199 -> "IN" [] OTHER -> "SG"
selectLatinCountry(o) ==
  CASE o < 100 -> "BR" [] o \in 100 .. 149 -> "MX" [] o \in 150 .. 199 -> "AR" [] OTHER -> "CO"

\* The cases of the switch, in their order: the octets that each tests for first.
Cases == << 3 .. 76, {99, 100}, {104}, {2}, 77 .. 95, 109 .. 115, 1 .. 2, 110 .. 126,
            163 .. 175, 202 .. 223, 41 .. 42, {105}, 177 .. 191, {200, 201},
            {1, 14, 27}, {101}, {5, 31, 37}, {46, 62, 78}, {176, 178} >>

ResultOf(k, o) ==
  CASE k \in 1 .. 3 -> "US" [] k = 4 -> "EU" [] k \in 5 .. 6 -> selectEuropeanCountry(o)
    [] k = 7 -> "CN" [] k \in 8 .. 10 -> selectAsianCountry(o) [] k \in 11 .. 12 -> "ZA"
    [] k \in 13 .. 14 -> selectLatinCountry(o) [] k \in 15 .. 16 -> "AU" [] OTHER -> "RU"

\* The first case that applies; IPv6 addresses have no case either.
determineCountry(ip) ==
  LET hit == {k \in DOMAIN Cases : ip[1] \in Cases[k]}
  IN IF hit = {} THEN Unknown ELSE ResultOf(Min(hit), ip[2])

lookupFallback(ip) == IF isPrivateIP(ip) THEN Unknown ELSE determineCountry(ip)

(***************************************************************************)
(* Requests                                                                *)
(***************************************************************************)
Init ==
  /\ rules = NewRules /\ ipCache = <<>>
  /\ req = [r \in All |-> Idle]
  /\ hits = 0 /\ misses = 0 /\ total = 0
  /\ requestsBy = <<>> /\ blockedBy = <<>>
  /\ changes = 0 /\ failed = {} /\ wrong = {}

Count(f, c) == (c :> (IF c \in DOMAIN f THEN f[c] + 1 ELSE 1)) @@ f

\* The key of the cache: the address as it was received.
CacheKey(ip) == ip

\* What follows a lookup: a query looks up again, in ShouldBlock.
Found(r, ip, c) ==
  req' = [req EXCEPT ![r] = [at |-> IF r \in Queries /\ req[r] = Idle THEN "again" ELSE "found",
                             ip |-> ip, country |-> c]]

\* Lookup up to the call of the external service.  A miss counts as a lookup, a hit not.
Lookup(r, ip) ==
  /\ req[r] = Idle \/ (req[r].at = "again" /\ req[r].ip = ip)
  /\ IF CacheKey(ip) \in DOMAIN ipCache
     THEN /\ hits' = hits + 1 /\ Found(r, ip, ipCache[CacheKey(ip)])
          /\ UNCHANGED <<misses, total, ipCache>>
     ELSE /\ misses' = misses + 1 /\ total' = total + 1
          /\ UNCHANGED hits
          /\ CASE ip = Invalid ->
                    req' = [req EXCEPT ![r] = [at |-> "done", ip |-> ip, verdict |-> "served"]]
                    /\ UNCHANGED ipCache
               [] ip # Invalid /\ isPrivateIP(ip) ->
                    Found(r, ip, Unknown) /\ ipCache' = (CacheKey(ip) :> Unknown) @@ ipCache
               [] OTHER ->
                    req' = [req EXCEPT ![r] = [at |-> IF req[r] = Idle /\ r \in Queries
                                                      THEN "query" ELSE "external", ip |-> ip]]
                    /\ UNCHANGED ipCache
  /\ UNCHANGED <<rules, requestsBy, blockedBy, changes, failed, wrong>>

\* An answer without a country, or with "XX", is not used.
Trusted(c) == c # Unknown

\* lookupExternal answers or fails; what is found is stored either way.
LookupExternal(r, ok) ==
  /\ req[r].at \in {"external", "query"}
  /\ LET ip == req[r].ip
         c == IF ok /\ Trusted(Accurate[ip]) THEN Accurate[ip] ELSE lookupFallback(ip) IN
     /\ ipCache' = (CacheKey(ip) :> c) @@ ipCache
     /\ req' = [req EXCEPT ![r] = [at |-> IF req[r].at = "query" THEN "again" ELSE "found",
                                   ip |-> ip, country |-> c]]
     /\ failed' = IF ok /\ Trusted(Accurate[ip]) THEN failed ELSE failed \cup {ip}
  /\ UNCHANGED <<rules, metrics, changes, wrong>>

\* The rule of the country, the whitelist, and private addresses.
Action(ip, c) ==
  CASE isPrivateIP(ip) -> "allow"
    [] c \in DOMAIN rules -> rules[c]
    [] OTHER -> IF WhitelistMode THEN "block" ELSE "allow"

\* ShouldBlock after its lookup: the count of the country, and the rule as it is now.
Decide(r) ==
  /\ req[r].at = "found"
  /\ LET c == req[r].country  ip == req[r].ip  a == Action(ip, c) IN
     /\ requestsBy' = Count(requestsBy, c)
     /\ req' = [req EXCEPT ![r] = [at |-> "decided", ip |-> ip, country |-> c,
                                   verdict |-> IF a = "block" THEN "blocked" ELSE "served"]]
     /\ wrong' = IF a = "allow" /\ ~isPrivateIP(ip) /\ Action(ip, Accurate[ip]) = "block"
                 THEN wrong \cup {r} ELSE wrong
  /\ UNCHANGED <<rules, ipCache, hits, misses, total, blockedBy, changes, failed>>

\* The count of blocked requests, and the answer of Middleware.
Finish(r) ==
  /\ req[r].at = "decided"
  /\ blockedBy' = IF req[r].verdict = "blocked" THEN Count(blockedBy, req[r].country) ELSE blockedBy
  /\ req' = [req EXCEPT ![r].at = "done"]
  /\ UNCHANGED <<rules, ipCache, hits, misses, total, requestsBy, changes, failed, wrong>>

(***************************************************************************)
(* Administration: HandleBlockedCountries                                  *)
(***************************************************************************)
Change(newRules) ==
  /\ changes < MaxChanges /\ changes' = changes + 1
  /\ rules' = newRules
  /\ UNCHANGED <<ipCache, req, metrics, failed, wrong>>

AddBlockedCountry(c) == Change((c :> "block") @@ rules)

\* Whatever rule the country has is deleted.
RemoveBlockedCountry(c) == Change([d \in DOMAIN rules \ {c} |-> rules[d]])

GetBlockedCountries == {c \in DOMAIN rules : rules[c] = "block"}

ClearCache ==
  /\ changes < MaxChanges /\ changes' = changes + 1
  /\ ipCache' = <<>>
  /\ UNCHANGED <<rules, req, metrics, failed, wrong>>

Next ==
  \/ \E r \in All :
       \/ \E ip \in Addrs \cup {Invalid} : Lookup(r, ip)
       \/ \E ok \in BOOLEAN : LookupExternal(r, ok)
       \/ Decide(r) \/ Finish(r)
  \/ \E c \in Countries : AddBlockedCountry(c) \/ RemoveBlockedCountry(c)
  \/ ClearCache

Spec == Init /\ [][Next]_vars

(***************************************************************************)
(* Properties                                                              *)
(***************************************************************************)
At(ls) == Cardinality({r \in All : req[r].at \in ls})
Sum(f) == MapThenSumSet(LAMBDA c : f[c], DOMAIN f)

\* Types of the variables.
TypeOK ==
  /\ \A c \in DOMAIN rules : rules[c] \in {"allow", "block"}
  /\ \A r \in All : req[r].at \in {"new", "external", "query", "again", "found", "decided", "done"}
  /\ Cardinality(DOMAIN ipCache) <= Cardinality(Addrs)

\* ShouldBlock, over the cache that nothing refreshes: a request from a country that is
\* blocked is let through only when the external service failed for its address, in this
\* or an earlier request, and was replaced by the table of ranges.
BlockedUnlessUnknown == \A r \in wrong : req[r].ip \in failed

\* The metrics: every decision is counted under one country, and the blocked ones of a
\* country are among them; every lookup is a hit or a miss.
DecisionsCounted ==
  /\ Sum(requestsBy) = At({"decided"}) + Cardinality({r \in All : req[r].at = "done" /\ req[r].ip # Invalid})
  /\ \A c \in DOMAIN blockedBy : blockedBy[c] <= requestsBy[c]
  /\ total = misses
  /\ hits + misses >= Cardinality({r \in All : req[r] # Idle})

(***************************************************************************)
(* Claims of the comments that the code does not keep                      *)
(***************************************************************************)

\* "Russian Federation" (geoip.go:368) and "Australia/Oceania" (geoip.go:362): earlier
\* cases of the switch take most of their octets.
RangesReached ==
  /\ \A f \in Cases[17] \cup Cases[18] \cup Cases[19] : determineCountry(<<f, 0>>) = "RU"
  /\ \A f \in Cases[15] \cup Cases[16] : determineCountry(<<f, 0>>) = "AU"

\* "RemoveBlockedCountry removes a country from the block list" (geoip.go:443): with a
\* list of allowed countries it also removes the rule that allows one.
RemovalUnblocks ==
  [][\A c \in Countries : RemoveBlockedCountry(c) =>
       (c \in DOMAIN rules /\ rules[c] = "allow" => c \in DOMAIN rules')]_vars
=============================================================================
