---------------------------- MODULE GatewayProofs ----------------------------
(***************************************************************************)
(* Theorems about Gateway, for any finite set of requests in flight and    *)
(* any number of requests served: what a stopped request gets, and that    *)
(* the counters kept in three places agree whenever the gateway is quiet.  *)
(* Then about two of its gates, which share no state with it: the          *)
(* allowlist (IpAllow) and the blocklist (ThreatIntel), in memory and in   *)
(* what they leave for the next start.                                     *)
(***************************************************************************)
EXTENDS Gateway, Sequences, FiniteSetTheorems, TLAPS

Requests == [at : Labels, path : Paths, sent : Codes, logged : Codes,
             tx : {"none", "open", "interrupted"}, verdict : {"none", "threat", "deny"},
             reached : BOOLEAN, panicked : BOOLEAN]

\* The labels of a request that no middleware below the gates has answered.
Early == {"none", "cors", "metrics", "allow", "rate", "geo", "threat", "begin",
          "phase1", "phase2"}
Blocking == {"blockLog", "blockDb", "blockAnswer"}

\* What holds of one request, wherever it is.
RequestOK(q) ==
  /\ q.at \in Early => q.sent = 0 /\ ~q.reached /\ ~q.panicked
  /\ q.verdict # "none" =>
       /\ ~q.reached /\ ~q.panicked
       /\ q.at \in Blocking \cup {"cleanup", "record", "end"}
       /\ q.sent = IF q.at \in Blocking THEN 0 ELSE Forbidden
  /\ q.at \notin {"record", "end"} => q.logged = q.sent
  /\ q.logged # 0 => q.logged = q.sent
  /\ q.tx # "none" => q.at \in InWaf

\* The labels between the two halves of Metrics.Middleware.
Counted == {"allow", "rate", "geo", "threat", "begin", "phase1", "phase2", "blockLog",
            "blockDb", "blockAnswer", "app", "response", "safe", "safeDb", "cleanup", "record"}

\* How many requests are at one of the labels.
Population(labels) == Cardinality({r \in Reqs : req[r].at \in labels})

CounterTypeOK ==
  /\ metric \in [requests : Nat, waf : Nat, threat : Nat]
  /\ stats \in [blocked : Nat, safe : Nat, flagged : Nat]
  /\ db \in [total : Nat, blocked : Nat]
  /\ active \in Nat /\ served \in 0..MaxServed

\* Two counters of one event differ by the requests between the two increments.
InFlight ==
  /\ active = Population(Counted)
  /\ metric.waf + metric.threat = stats.blocked + Population({"blockLog"})
  /\ db.blocked + Population({"blockDb"}) <= stats.blocked
  /\ db.total + Population({"safeDb"}) <= stats.safe

ServerOK == server \in {"up", "services", "save", "dbclose", "shutdown", "closed", "exited"}

Inv ==
  /\ req \in [Reqs -> Requests]
  /\ \A r \in Reqs : RequestOK(req[r])
  /\ ServerOK
  /\ CounterTypeOK
  /\ InFlight

----------------------------------------------------------------------------
\* Request r takes a step: only its record changes.
Steps(r, q) == req' = [req EXCEPT ![r] = q]

LEMMA PopulationType ==
  ASSUME NEW labels
  PROVE  /\ IsFiniteSet({r \in Reqs : req[r].at \in labels})
         /\ Population(labels) \in 0..Cardinality(Reqs)
<1> DEFINE P == {r \in Reqs : req[r].at \in labels}
<1>1. P \in SUBSET Reqs /\ IsFiniteSet(Reqs)
  BY Zenon, ReqsAssumption
<1> HIDE DEF P
<1>2. IsFiniteSet(P) /\ Cardinality(P) <= Cardinality(Reqs)
  BY Zenon, <1>1, FS_Subset
<1>3. Cardinality(P) \in Nat /\ Cardinality(Reqs) \in Nat
  BY Zenon, <1>1, <1>2, FS_CardinalityType
<1> QED
  BY <1>2, <1>3 DEF P, Population

\* A step changes the population of a set of labels by the request that steps.
LEMMA PopulationStep ==
  ASSUME req \in [Reqs -> Requests], NEW r \in Reqs, NEW q \in Requests, Steps(r, q),
         NEW labels
  PROVE  Population(labels)' = Population(labels)
           + (IF q.at \in labels THEN 1 ELSE 0)
           - (IF req[r].at \in labels THEN 1 ELSE 0)
<1> DEFINE P == {s \in Reqs : req[s].at \in labels}
           Q == {s \in Reqs : req'[s].at \in labels}
           n == Cardinality(P)
<1>1. IsFiniteSet(P) /\ n \in Nat
  <2>1. IsFiniteSet(P)
    BY Zenon, PopulationType
  <2> HIDE DEF P
  <2> QED
    BY Zenon, <2>1, FS_CardinalityType
<1>2. Population(labels) = n /\ Population(labels)' = Cardinality(Q)
  BY Zenon DEF Population
<1>3. req'[r] = q /\ \A s \in Reqs \ {r} : req'[s] = req[s]
  BY Zenon DEF Steps
<1>4. Q = IF q.at \in labels THEN P \cup {r} ELSE P \ {r}
  BY <1>3
<1>5. r \in P <=> req[r].at \in labels
  BY Zenon
<1> HIDE DEF P, Q
<1>6. /\ Cardinality(P \cup {r}) = IF r \in P THEN n ELSE n + 1
      /\ Cardinality(P \ {r}) = IF r \in P THEN n - 1 ELSE n
  BY Zenon, <1>1, FS_AddElement, FS_RemoveElement
<1> QED
  BY <1>1, <1>2, <1>4, <1>5, <1>6

----------------------------------------------------------------------------
Shift(r, q, labels) ==
  (IF q.at \in labels THEN 1 ELSE 0) - (IF req[r].at \in labels THEN 1 ELSE 0)

\* A step of one request keeps the invariant if the counters follow the request.
LEMMA RequestStep ==
  ASSUME Inv, NEW r \in Reqs, NEW q \in Requests, Steps(r, q), RequestOK(q),
         ServerOK', CounterTypeOK',
         active' = active + Shift(r, q, Counted),
         metric'.waf + metric'.threat + stats.blocked
           = metric.waf + metric.threat + stats'.blocked + Shift(r, q, {"blockLog"}),
         db'.blocked + Shift(r, q, {"blockDb"}) + stats.blocked <= db.blocked + stats'.blocked,
         db'.total + Shift(r, q, {"safeDb"}) + stats.safe <= db.total + stats'.safe
  PROVE  Inv'
<1>0. req \in [Reqs -> Requests] /\ \A s \in Reqs : RequestOK(req[s])
  BY Zenon DEF Inv
<1>1. req' \in [Reqs -> Requests] /\ req'[r] = q /\ \A s \in Reqs \ {r} : req'[s] = req[s]
  BY Zenon, <1>0 DEF Steps
<1>2. \A s \in Reqs : RequestOK(req[s])'
  <2> SUFFICES ASSUME NEW s \in Reqs PROVE RequestOK(req'[s])
    BY Zenon DEF RequestOK
  <2> QED
    BY Zenon, <1>0, <1>1
<1>3. \A labels : /\ Population(labels)' = Population(labels) + Shift(r, q, labels)
                  /\ Population(labels) \in Nat /\ Shift(r, q, labels) \in Int
  <2> SUFFICES ASSUME NEW labels
               PROVE  /\ Population(labels)' = Population(labels) + Shift(r, q, labels)
                      /\ Population(labels) \in Nat /\ Shift(r, q, labels) \in Int
    BY Zenon
  <2>1. Population(labels) \in 0..Cardinality(Reqs)
    BY Zenon, PopulationType
  <2>2. Population(labels)' = Population(labels)
           + (IF q.at \in labels THEN 1 ELSE 0)
           - (IF req[r].at \in labels THEN 1 ELSE 0)
    BY Zenon, <1>0, PopulationStep
  <2> QED
    BY <2>1, <2>2 DEF Shift
<1>4. InFlight'
  <2>1. active' = Population(Counted)'
    BY Zenon, <1>3 DEF Inv, InFlight
  <2>2. /\ metric.waf \in Nat /\ metric.threat \in Nat /\ stats.blocked \in Nat /\ stats.safe \in Nat
        /\ db.blocked \in Nat /\ db.total \in Nat
        /\ metric'.waf \in Nat /\ metric'.threat \in Nat /\ stats'.blocked \in Nat /\ stats'.safe \in Nat
        /\ db'.blocked \in Nat /\ db'.total \in Nat
    BY Zenon DEF Inv, CounterTypeOK
  <2>3. metric'.waf + metric'.threat = stats'.blocked + Population({"blockLog"})'
    <3>1. /\ Population({"blockLog"})' = Population({"blockLog"}) + Shift(r, q, {"blockLog"})
          /\ Population({"blockLog"}) \in Nat /\ Shift(r, q, {"blockLog"}) \in Int
      BY Zenon, <1>3
    <3>2. metric.waf + metric.threat = stats.blocked + Population({"blockLog"})
      BY Zenon DEF Inv, InFlight
    <3>3. metric'.waf + metric'.threat + stats.blocked
            = stats.blocked + Population({"blockLog"}) + stats'.blocked + Shift(r, q, {"blockLog"})
      BY Zenon, <2>2, <3>1, <3>2
    <3> QED
      BY <2>2, <3>1, <3>3
  <2>4. db'.blocked + Population({"blockDb"})' <= stats'.blocked
    <3>1. /\ Population({"blockDb"})' = Population({"blockDb"}) + Shift(r, q, {"blockDb"})
          /\ Population({"blockDb"}) \in Nat /\ Shift(r, q, {"blockDb"}) \in Int
      BY Zenon, <1>3
    <3>2. db.blocked + Population({"blockDb"}) <= stats.blocked
      BY Zenon DEF Inv, InFlight
    <3> QED
      BY <2>2, <3>1, <3>2
  <2>5. db'.total + Population({"safeDb"})' <= stats'.safe
    <3>1. /\ Population({"safeDb"})' = Population({"safeDb"}) + Shift(r, q, {"safeDb"})
          /\ Population({"safeDb"}) \in Nat /\ Shift(r, q, {"safeDb"}) \in Int
      BY Zenon, <1>3
    <3>2. db.total + Population({"safeDb"}) <= stats.safe
      BY Zenon DEF Inv, InFlight
    <3> QED
      BY <2>2, <3>1, <3>2
  <2> QED
    BY Zenon, <2>1, <2>3, <2>4, <2>5 DEF InFlight
<1> QED
  BY Zenon, <1>1, <1>2, <1>4 DEF Inv

\* The step of a request that no counter sees.
LEMMA QuietStep ==
  ASSUME Inv, NEW r \in Reqs, NEW q \in Requests, Steps(r, q), RequestOK(q),
         q.at \in Counted <=> req[r].at \in Counted,
         {q.at, req[r].at} \cap {"blockLog", "blockDb", "safeDb"} = {},
         UNCHANGED <<server, active, metric, db>>, served' \in 0..MaxServed,
         stats' \in [blocked : Nat, safe : Nat, flagged : Nat],
         stats'.blocked = stats.blocked, stats'.safe = stats.safe
  PROVE  Inv'
<1>1. ServerOK' /\ CounterTypeOK'
  BY Zenon DEF Inv, ServerOK, CounterTypeOK
<1>2. /\ Shift(r, q, Counted) = 0 /\ Shift(r, q, {"blockLog"}) = 0
      /\ Shift(r, q, {"blockDb"}) = 0 /\ Shift(r, q, {"safeDb"}) = 0
  <2>1. \A labels : (q.at \in labels <=> req[r].at \in labels) => Shift(r, q, labels) = 0
    BY DEF Shift
  <2> QED
    BY Zenon, <2>1
<1>3. /\ metric.waf \in Nat /\ metric.threat \in Nat /\ stats.blocked \in Nat /\ stats.safe \in Nat
      /\ db.blocked \in Nat /\ db.total \in Nat /\ active \in Nat
  BY Zenon DEF Inv, CounterTypeOK
<1> QED
  BY <1>1, <1>2, <1>3, RequestStep

LEMMA RequestFacts ==
  ASSUME Inv, NEW r \in Reqs
  PROVE  /\ req[r] \in Requests /\ RequestOK(req[r])
         /\ stats \in [blocked : Nat, safe : Nat, flagged : Nat] /\ served \in 0..MaxServed
  BY Zenon DEF Inv, CounterTypeOK

----------------------------------------------------------------------------
\* The middlewares above the WAF.
LEMMA AcceptInv ==
  ASSUME Inv, NEW r \in Reqs, Accept(r)
  PROVE  Inv'
<1>1. PICK path \in Paths : req' = [req EXCEPT ![r] = [NoReq EXCEPT !.at = "cors", !.path = path]]
  BY Zenon DEF Accept
<1> DEFINE q == [NoReq EXCEPT !.at = "cors", !.path = path]
<1>2. q \in Requests /\ RequestOK(q) /\ q.at = "cors"
  BY Zenon DEF NoReq, Requests, RequestOK, Labels, Codes, Early, Blocking, InWaf
<1>3. /\ req[r].at = "none" /\ UNCHANGED <<server, active, metric, stats, db>>
      /\ served < MaxServed /\ served' = served + 1
  BY Zenon DEF Accept
<1>4. served' \in 0..MaxServed
  BY <1>3, RequestFacts, ReqsAssumption
<1> HIDE DEF q
<1> QED
  BY Zenon, <1>1, <1>2, <1>3, <1>4, RequestFacts, QuietStep DEF Steps, Counted, q

\* A request that moves from label to label.
LEMMA Moved ==
  ASSUME NEW q \in Requests, NEW label \in Labels
  PROVE  LET m == [q EXCEPT !.at = label] IN
         /\ m \in Requests /\ m.at = label /\ m.sent = q.sent /\ m.logged = q.logged
         /\ m.tx = q.tx /\ m.verdict = q.verdict /\ m.reached = q.reached
         /\ m.panicked = q.panicked
  BY Zenon DEF Requests

\* A request that a gate lets through.
LEMMA LetThrough ==
  ASSUME NEW q \in Requests, RequestOK(q), q.at \in Early, NEW label \in Early,
         q.tx = "none" \/ label \in InWaf
  PROVE  LET m == [q EXCEPT !.at = label] IN
         m \in Requests /\ m.at = label /\ RequestOK(m)
<1> DEFINE m == [q EXCEPT !.at = label]
<1>1. label \in Labels
  BY Zenon DEF Early, Labels
<1>2. /\ m \in Requests /\ m.at = label /\ m.sent = q.sent /\ m.logged = q.logged
      /\ m.tx = q.tx /\ m.verdict = q.verdict /\ m.reached = q.reached
      /\ m.panicked = q.panicked
  BY Zenon, <1>1, Moved
<1> HIDE DEF m
<1>3. RequestOK(m)
  BY Zenon, <1>2 DEF RequestOK, Early, Blocking
<1> QED
  BY Zenon, <1>2, <1>3 DEF m

\* A request answered above the logging middleware.
LEMMA Refused ==
  ASSUME NEW q \in Requests, RequestOK(q), q.at \in Early, q.tx = "none",
         NEW label \in {"record", "end"}, NEW code \in Codes
  PROVE  LET m == [Refuse(q, code) EXCEPT !.at = label] IN
         m \in Requests /\ m.at = label /\ RequestOK(m)
<1> DEFINE m == [Refuse(q, code) EXCEPT !.at = label]
<1>1. m \in Requests
  BY Zenon DEF Refuse, Requests, Labels
<1>2. /\ m.at = label /\ m.sent = code /\ m.logged = q.logged
      /\ m.tx = q.tx /\ m.verdict = q.verdict /\ m.reached = q.reached
      /\ m.panicked = q.panicked
  BY Zenon DEF Refuse, Requests
<1> HIDE DEF m
<1>3. RequestOK(m)
  BY Zenon, <1>2 DEF RequestOK, Early, Blocking
<1> QED
  BY Zenon, <1>1, <1>2, <1>3 DEF m

LEMMA CorsInv ==
  ASSUME Inv, NEW r \in Reqs, Cors(r)
  PROVE  Inv'
<1>0. /\ req[r].at = "cors" /\ UNCHANGED <<server, active, metric, stats, db, served>>
      /\ req[r] \in Requests /\ RequestOK(req[r])
      /\ stats \in [blocked : Nat, safe : Nat, flagged : Nat] /\ served \in 0..MaxServed
  BY Zenon, RequestFacts DEF Cors, At
<1>1. CASE Moves(r, "metrics")
  <2> DEFINE q == [req[r] EXCEPT !.at = "metrics"]
  <2>1. Steps(r, q)
    BY Zenon, <1>1 DEF Moves, Steps
  <2>2. req[r].tx = "none" /\ req[r].at \in Early /\ "metrics" \in Early
    BY Zenon, <1>0 DEF RequestOK, InWaf, Early
  <2>3. q \in Requests /\ q.at = "metrics" /\ RequestOK(q)
    BY Zenon, <1>0, <2>2, LetThrough
  <2> HIDE DEF q
  <2> QED
    BY Zenon, <1>0, <2>1, <2>3, QuietStep DEF Counted
<1>2. CASE req' = [req EXCEPT ![r] = [Refuse(@, NoContent) EXCEPT !.at = "end"]]
  <2> DEFINE q == [Refuse(req[r], NoContent) EXCEPT !.at = "end"]
  <2>1. Steps(r, q)
    BY Zenon, <1>2 DEF Steps
  <2>2. req[r].tx = "none" /\ req[r].at \in Early /\ NoContent \in Codes
    BY Zenon, <1>0 DEF RequestOK, InWaf, Early, Codes
  <2>3. q \in Requests /\ q.at = "end" /\ RequestOK(q)
    BY Zenon, <1>0, <2>2, Refused
  <2> HIDE DEF q
  <2> QED
    BY Zenon, <1>0, <2>1, <2>3, QuietStep DEF Counted
<1> QED
  BY Zenon, <1>1, <1>2 DEF Cors

LEMMA GateInv ==
  ASSUME Inv, NEW r \in Reqs, NEW label \in {"allow", "rate", "geo"},
         NEW next \in {"rate", "geo", "threat"}, NEW code \in Codes, Gate(r, label, next, code)
  PROVE  Inv'
<1>0. /\ req[r].at = label /\ UNCHANGED <<server, active, metric, stats, db, served>>
      /\ req[r] \in Requests /\ RequestOK(req[r])
      /\ stats \in [blocked : Nat, safe : Nat, flagged : Nat] /\ served \in 0..MaxServed
  BY Zenon, RequestFacts DEF Gate, At
<1>1. CASE Moves(r, next)
  <2> DEFINE q == [req[r] EXCEPT !.at = next]
  <2>1. Steps(r, q)
    BY Zenon, <1>1 DEF Moves, Steps
  <2>2. req[r].tx = "none" /\ req[r].at \in Early /\ next \in Early
    BY Zenon, <1>0 DEF RequestOK, InWaf, Early
  <2>3. q \in Requests /\ q.at = next /\ RequestOK(q)
    BY Zenon, <1>0, <2>2, LetThrough
  <2> HIDE DEF q
  <2> QED
    BY Zenon, <1>0, <2>1, <2>3, QuietStep DEF Counted
<1>2. CASE req' = [req EXCEPT ![r] = [Refuse(@, code) EXCEPT !.at = "record"]]
  <2> DEFINE q == [Refuse(req[r], code) EXCEPT !.at = "record"]
  <2>1. Steps(r, q)
    BY Zenon, <1>2 DEF Steps
  <2>2. req[r].tx = "none" /\ req[r].at \in Early
    BY Zenon, <1>0 DEF RequestOK, InWaf, Early
  <2>3. q \in Requests /\ q.at = "record" /\ RequestOK(q)
    BY Zenon, <1>0, <2>2, Refused
  <2> HIDE DEF q
  <2> QED
    BY Zenon, <1>0, <2>1, <2>3, QuietStep DEF Counted
<1> QED
  BY Zenon, <1>1, <1>2 DEF Gate

LEMMA EnterMetricsInv ==
  ASSUME Inv, NEW r \in Reqs, EnterMetrics(r)
  PROVE  Inv'
<1>0. /\ req[r].at = "metrics" /\ active' = active + 1
      /\ UNCHANGED <<server, metric, stats, db, served>>
      /\ req[r] \in Requests /\ RequestOK(req[r])
  BY Zenon, RequestFacts DEF EnterMetrics, At
<1> DEFINE q == [req[r] EXCEPT !.at = "allow"]
<1>1. Steps(r, q)
  BY Zenon DEF EnterMetrics, Moves, Steps
<1>2. req[r].tx = "none" /\ req[r].at \in Early /\ "allow" \in Early
  BY Zenon, <1>0 DEF RequestOK, InWaf, Early
<1>3. q \in Requests /\ q.at = "allow" /\ RequestOK(q)
  BY Zenon, <1>0, <1>2, LetThrough
<1> HIDE DEF q
<1>4. /\ Shift(r, q, Counted) = 1 /\ Shift(r, q, {"blockLog"}) = 0
      /\ Shift(r, q, {"blockDb"}) = 0 /\ Shift(r, q, {"safeDb"}) = 0
  BY <1>0, <1>3 DEF Shift, Counted
<1>5. ServerOK' /\ CounterTypeOK'
  BY <1>0 DEF Inv, ServerOK, CounterTypeOK
<1>6. /\ metric.waf \in Nat /\ metric.threat \in Nat /\ stats.blocked \in Nat /\ stats.safe \in Nat
      /\ db.blocked \in Nat /\ db.total \in Nat
  BY Zenon DEF Inv, CounterTypeOK
<1> QED
  BY <1>0, <1>1, <1>3, <1>4, <1>5, <1>6, RequestStep

----------------------------------------------------------------------------
\* A request stopped by the threat list or by a rule, counted in Prometheus and on
\* its way to the log.
LEMMA StoppedInv ==
  ASSUME Inv, NEW r \in Reqs, req[r].at \in {"threat", "phase1", "phase2"},
         NEW tx \in {"none", "interrupted"}, NEW verdict \in {"threat", "deny"},
         Steps(r, [req[r] EXCEPT !.tx = tx, !.verdict = verdict, !.at = "blockLog"]),
         \/ metric' = [metric EXCEPT !.threat = @ + 1]
         \/ metric' = [metric EXCEPT !.waf = @ + 1],
         UNCHANGED <<server, active, stats, db, served>>
  PROVE  Inv'
<1> DEFINE q == [req[r] EXCEPT !.tx = tx, !.verdict = verdict, !.at = "blockLog"]
<1>0. req[r] \in Requests /\ RequestOK(req[r])
  BY Zenon, RequestFacts
<1>1. /\ q \in Requests /\ q.at = "blockLog" /\ q.sent = req[r].sent /\ q.logged = req[r].logged
      /\ q.tx = tx /\ q.verdict = verdict /\ q.reached = req[r].reached
      /\ q.panicked = req[r].panicked
  BY Zenon, <1>0 DEF Requests, Labels
<1> HIDE DEF q
<1>2. RequestOK(q)
  BY Zenon, <1>0, <1>1 DEF RequestOK, Early, Blocking, InWaf
<1>3. /\ Shift(r, q, Counted) = 0 /\ Shift(r, q, {"blockLog"}) = 1
      /\ Shift(r, q, {"blockDb"}) = 0 /\ Shift(r, q, {"safeDb"}) = 0
  BY <1>1 DEF Shift, Counted
<1>4. /\ metric.waf \in Nat /\ metric.threat \in Nat /\ stats.blocked \in Nat /\ stats.safe \in Nat
      /\ db.blocked \in Nat /\ db.total \in Nat /\ active \in Nat
  BY Zenon DEF Inv, CounterTypeOK
<1>5. metric' \in [requests : Nat, waf : Nat, threat : Nat]
  BY DEF Inv, CounterTypeOK
<1>6. metric'.waf + metric'.threat = metric.waf + metric.threat + 1
  BY <1>4 DEF Inv, CounterTypeOK
<1>7. ServerOK' /\ CounterTypeOK'
  BY Zenon, <1>5 DEF Inv, ServerOK, CounterTypeOK
<1>8. metric'.waf + metric'.threat + stats.blocked
        = metric.waf + metric.threat + stats'.blocked + Shift(r, q, {"blockLog"})
  BY <1>3, <1>4, <1>6
<1> QED
  BY <1>1, <1>2, <1>3, <1>4, <1>7, <1>8, RequestStep DEF q

LEMMA CheckThreatInv ==
  ASSUME Inv, NEW r \in Reqs, CheckThreat(r)
  PROVE  Inv'
<1>0. /\ req[r].at = "threat" /\ UNCHANGED <<server, active, stats, db, served>>
      /\ req[r] \in Requests /\ RequestOK(req[r])
      /\ stats \in [blocked : Nat, safe : Nat, flagged : Nat] /\ served \in 0..MaxServed
  BY Zenon, RequestFacts DEF CheckThreat, At
<1>1. req[r].tx = "none" /\ req[r].sent = 0 /\ req[r].logged = 0 /\ req[r].verdict = "none"
  BY Zenon, <1>0 DEF RequestOK, InWaf, Early, Blocking
<1>2. CASE /\ req' = [req EXCEPT ![r].verdict = "threat", ![r].at = "blockLog"]
           /\ metric' = [metric EXCEPT !.threat = @ + 1]
  <2>1. Steps(r, [req[r] EXCEPT !.tx = "none", !.verdict = "threat", !.at = "blockLog"])
    BY <1>0, <1>1, <1>2 DEF Steps, Inv, Requests
  <2> QED
    BY Zenon, <1>0, <1>2, <2>1, StoppedInv
<1>3. CASE Moves(r, IF req[r].path = "ws" THEN "app" ELSE "begin") /\ UNCHANGED metric
  <2> DEFINE label == IF req[r].path = "ws" THEN "app" ELSE "begin"
             q == [req[r] EXCEPT !.at = label]
  <2>1. Steps(r, q)
    BY Zenon, <1>3 DEF Moves, Steps
  <2>2. label \in {"app", "begin"} /\ label \in Labels
    BY Zenon DEF Labels
  <2> HIDE DEF label
  <2>3. /\ q \in Requests /\ q.at = label /\ q.sent = 0 /\ q.logged = 0
        /\ q.tx = "none" /\ q.verdict = "none" /\ q.reached = req[r].reached
        /\ q.panicked = req[r].panicked
    BY Zenon, <1>0, <1>1, <2>2, Moved
  <2> HIDE DEF q
  <2>4. RequestOK(q)
    BY Zenon, <1>0, <2>2, <2>3 DEF RequestOK, Early, Blocking
  <2> QED
    BY Zenon, <1>0, <1>3, <2>1, <2>2, <2>3, <2>4, QuietStep DEF Counted
<1> QED
  BY Zenon, <1>2, <1>3 DEF CheckThreat

LEMMA BeginTransactionInv ==
  ASSUME Inv, NEW r \in Reqs, BeginTransaction(r)
  PROVE  Inv'
<1>0. /\ req[r].at = "begin" /\ UNCHANGED <<server, active, metric, stats, db, served>>
      /\ req[r] \in Requests /\ RequestOK(req[r])
      /\ stats \in [blocked : Nat, safe : Nat, flagged : Nat] /\ served \in 0..MaxServed
  BY Zenon, RequestFacts DEF BeginTransaction, At
<1> DEFINE q == [req[r] EXCEPT !.tx = "open", !.at = "phase1"]
<1>1. Steps(r, q)
  BY Zenon, <1>0 DEF BeginTransaction, Steps, Inv
<1>2. /\ q \in Requests /\ q.at = "phase1" /\ q.sent = req[r].sent /\ q.logged = req[r].logged
      /\ q.verdict = req[r].verdict /\ q.reached = req[r].reached
      /\ q.panicked = req[r].panicked
  BY Zenon, <1>0 DEF Requests, Labels
<1> HIDE DEF q
<1>3. RequestOK(q)
  BY Zenon, <1>0, <1>2 DEF RequestOK, Early, Blocking, InWaf
<1> QED
  BY Zenon, <1>0, <1>1, <1>2, <1>3, QuietStep DEF Counted

LEMMA RequestPhaseInv ==
  ASSUME Inv, NEW r \in Reqs, NEW label \in {"phase1", "phase2"}, NEW next \in {"phase2", "app"},
         RequestPhase(r, label, next)
  PROVE  Inv'
<1>0. /\ req[r].at = label /\ UNCHANGED <<server, active, stats, db, served>>
      /\ req[r] \in Requests /\ RequestOK(req[r])
      /\ stats \in [blocked : Nat, safe : Nat, flagged : Nat] /\ served \in 0..MaxServed
  BY Zenon, RequestFacts DEF RequestPhase, At
<1>1. /\ req[r].sent = 0 /\ req[r].logged = 0 /\ req[r].verdict = "none"
      /\ ~req[r].reached /\ ~req[r].panicked
  BY Zenon, <1>0 DEF RequestOK, Early, Blocking
<1>2. CASE Moves(r, next) /\ UNCHANGED metric
  <2> DEFINE q == [req[r] EXCEPT !.at = next]
  <2>1. Steps(r, q)
    BY Zenon, <1>2 DEF Moves, Steps
  <2>2. next \in Labels
    BY Zenon DEF Labels
  <2>3. /\ q \in Requests /\ q.at = next /\ q.sent = 0 /\ q.logged = 0
        /\ q.verdict = "none" /\ q.reached = req[r].reached /\ q.panicked = req[r].panicked
    BY Zenon, <1>0, <1>1, <2>2, Moved
  <2> HIDE DEF q
  <2>4. RequestOK(q)
    BY Zenon, <1>1, <2>3 DEF RequestOK, Early, InWaf
  <2> QED
    BY Zenon, <1>0, <1>2, <2>1, <2>3, <2>4, QuietStep DEF Counted
<1>3. CASE /\ req' = [req EXCEPT ![r].tx = "interrupted", ![r].verdict = "deny",
                                 ![r].at = IF Interrupts(label) THEN "blockLog" ELSE next]
           /\ metric' = [metric EXCEPT !.waf = IF Interrupts(label) THEN @ + 1 ELSE @]
  <2>0. Interrupts(label)
    BY Zenon DEF Interrupts
  <2>1. Steps(r, [req[r] EXCEPT !.tx = "interrupted", !.verdict = "deny", !.at = "blockLog"])
    BY Zenon, <1>0, <1>3, <2>0 DEF Steps, Inv
  <2>2. metric' = [metric EXCEPT !.waf = @ + 1]
    BY Zenon, <1>3, <2>0
  <2> QED
    BY Zenon, <1>0, <2>1, <2>2, StoppedInv
<1>4. CASE req' = [req EXCEPT ![r].panicked = TRUE, ![r].at = PanicTo] /\ UNCHANGED metric
  <2> DEFINE q == [req[r] EXCEPT !.panicked = TRUE, !.at = "cleanup"]
  <2>1. Steps(r, q)
    BY Zenon, <1>0, <1>4 DEF Steps, PanicTo, Inv
  <2>2. /\ q \in Requests /\ q.at = "cleanup" /\ q.sent = 0 /\ q.logged = 0
        /\ q.verdict = "none" /\ q.reached = req[r].reached
    BY Zenon, <1>0, <1>1 DEF Requests, Labels
  <2> HIDE DEF q
  <2>3. RequestOK(q)
    BY Zenon, <1>1, <2>2 DEF RequestOK, Early, InWaf
  <2> QED
    BY Zenon, <1>0, <1>4, <2>1, <2>2, <2>3, QuietStep DEF Counted
<1> QED
  BY Zenon, <1>2, <1>3, <1>4 DEF RequestPhase

----------------------------------------------------------------------------
\* The three steps of a block: the log of the store, the row of PostgreSQL, the answer.
LEMMA LogBlockedInv ==
  ASSUME Inv, NEW r \in Reqs, LogBlocked(r)
  PROVE  Inv'
<1>0. /\ req[r].at = "blockLog" /\ UNCHANGED <<server, active, metric, db, served>>
      /\ req[r] \in Requests /\ RequestOK(req[r])
      /\ stats \in [blocked : Nat, safe : Nat, flagged : Nat] /\ served \in 0..MaxServed
  BY Zenon, RequestFacts DEF LogBlocked, At
<1> DEFINE q == [req[r] EXCEPT !.at = "blockDb"]
<1>1. Steps(r, q)
  BY Zenon DEF LogBlocked, Moves, Steps
<1>2. /\ q \in Requests /\ q.at = "blockDb" /\ q.sent = req[r].sent /\ q.logged = req[r].logged
      /\ q.tx = req[r].tx /\ q.verdict = req[r].verdict /\ q.reached = req[r].reached
      /\ q.panicked = req[r].panicked
  <2>1. "blockDb" \in Labels
    BY Zenon DEF Labels
  <2> QED
    BY Zenon, <1>0, <2>1, Moved
<1> HIDE DEF q
<1>3. RequestOK(q)
  BY Zenon, <1>0, <1>2 DEF RequestOK, Early, Blocking, InWaf
<1>4. /\ Shift(r, q, Counted) = 0 /\ Shift(r, q, {"blockLog"}) = -1
      /\ Shift(r, q, {"blockDb"}) = 1 /\ Shift(r, q, {"safeDb"}) = 0
  BY <1>0, <1>2 DEF Shift, Counted
<1>5. /\ stats' \in [blocked : Nat, safe : Nat, flagged : Nat]
      /\ stats'.blocked = stats.blocked + 1 /\ stats'.safe = stats.safe
  BY <1>0 DEF LogBlocked, Blocked
<1>6. /\ metric.waf \in Nat /\ metric.threat \in Nat /\ stats.blocked \in Nat /\ stats.safe \in Nat
      /\ db.blocked \in Nat /\ db.total \in Nat /\ active \in Nat
  BY Zenon DEF Inv, CounterTypeOK
<1>7. ServerOK' /\ CounterTypeOK'
  BY Zenon, <1>0, <1>5 DEF Inv, ServerOK, CounterTypeOK
<1>8. metric'.waf + metric'.threat + stats.blocked
        = metric.waf + metric.threat + stats'.blocked + Shift(r, q, {"blockLog"})
  BY <1>0, <1>4, <1>5, <1>6
<1> QED
  BY <1>0, <1>1, <1>2, <1>3, <1>4, <1>5, <1>6, <1>7, <1>8, RequestStep

LEMMA CountBlockedDbInv ==
  ASSUME Inv, NEW r \in Reqs, CountBlockedDb(r)
  PROVE  Inv'
<1>0. /\ req[r].at = "blockDb" /\ UNCHANGED <<server, active, metric, stats, served>>
      /\ req[r] \in Requests /\ RequestOK(req[r])
  BY Zenon, RequestFacts DEF CountBlockedDb, At
<1> DEFINE q == [req[r] EXCEPT !.at = "blockAnswer"]
<1>1. Steps(r, q)
  BY Zenon DEF CountBlockedDb, Moves, Steps
<1>2. /\ q \in Requests /\ q.at = "blockAnswer" /\ q.sent = req[r].sent /\ q.logged = req[r].logged
      /\ q.tx = req[r].tx /\ q.verdict = req[r].verdict /\ q.reached = req[r].reached
      /\ q.panicked = req[r].panicked
  <2>1. "blockAnswer" \in Labels
    BY Zenon DEF Labels
  <2> QED
    BY Zenon, <1>0, <2>1, Moved
<1> HIDE DEF q
<1>3. RequestOK(q)
  BY Zenon, <1>0, <1>2 DEF RequestOK, Early, Blocking, InWaf
<1>4. /\ Shift(r, q, Counted) = 0 /\ Shift(r, q, {"blockLog"}) = 0
      /\ Shift(r, q, {"blockDb"}) = -1 /\ Shift(r, q, {"safeDb"}) = 0
  BY <1>0, <1>2 DEF Shift, Counted
<1>5. /\ db' \in [total : Nat, blocked : Nat]
      /\ db'.blocked <= db.blocked + 1 /\ db'.total = db.total
  BY DEF CountBlockedDb, Inv, CounterTypeOK
<1>6. /\ metric.waf \in Nat /\ metric.threat \in Nat /\ stats.blocked \in Nat /\ stats.safe \in Nat
      /\ db.blocked \in Nat /\ db.total \in Nat /\ db'.blocked \in Nat /\ active \in Nat
  BY Zenon, <1>5 DEF Inv, CounterTypeOK
<1>7. ServerOK' /\ CounterTypeOK'
  BY Zenon, <1>0, <1>5 DEF Inv, ServerOK, CounterTypeOK
<1> QED
  BY <1>0, <1>1, <1>2, <1>3, <1>4, <1>5, <1>6, <1>7, RequestStep

\* A status written below the logging middleware is sent and logged alike.
LEMMA AnswerFields ==
  ASSUME NEW q \in Requests, q.logged = q.sent, NEW code \in Codes
  PROVE  LET m == Answer(q, code) IN
         /\ m \in Requests /\ m.at = q.at /\ m.path = q.path /\ m.tx = q.tx
         /\ m.verdict = q.verdict /\ m.reached = q.reached /\ m.panicked = q.panicked
         /\ m.logged = m.sent /\ m.sent = IF q.sent = 0 THEN code ELSE q.sent
  BY Zenon DEF Answer, Recorded, Requests

LEMMA AnswerBlockedInv ==
  ASSUME Inv, NEW r \in Reqs, AnswerBlocked(r)
  PROVE  Inv'
<1>0. /\ req[r].at = "blockAnswer" /\ UNCHANGED <<server, active, metric, stats, db, served>>
      /\ req[r] \in Requests /\ RequestOK(req[r])
      /\ stats \in [blocked : Nat, safe : Nat, flagged : Nat] /\ served \in 0..MaxServed
  BY Zenon, RequestFacts DEF AnswerBlocked, At
<1> DEFINE m == Answer(req[r], Forbidden)
           q == [m EXCEPT !.at = "cleanup"]
<1>1. Steps(r, q)
  BY Zenon DEF AnswerBlocked, Steps
<1>2. req[r].logged = req[r].sent /\ Forbidden \in Codes
  BY Zenon, <1>0 DEF RequestOK, Codes
<1>3. /\ m \in Requests /\ m.tx = req[r].tx
      /\ m.verdict = req[r].verdict /\ m.reached = req[r].reached /\ m.panicked = req[r].panicked
      /\ m.logged = m.sent /\ m.sent = IF req[r].sent = 0 THEN Forbidden ELSE req[r].sent
  BY Zenon, <1>0, <1>2, AnswerFields
<1> HIDE DEF m
<1>4. /\ q \in Requests /\ q.at = "cleanup" /\ q.sent = m.sent /\ q.logged = m.logged
      /\ q.tx = m.tx /\ q.verdict = m.verdict /\ q.reached = m.reached
      /\ q.panicked = m.panicked
  BY Zenon, <1>3, Moved DEF Labels
<1> HIDE DEF q
<1>5. RequestOK(q)
  BY Zenon, <1>0, <1>3, <1>4 DEF RequestOK, Early, Blocking, InWaf
<1> QED
  BY Zenon, <1>0, <1>1, <1>4, <1>5, QuietStep DEF Counted

----------------------------------------------------------------------------
\* The application and what follows it.
LEMMA AppWritesInv ==
  ASSUME Inv, NEW r \in Reqs, AppWrites(r)
  PROVE  Inv'
<1>0. /\ req[r].at = "app" /\ UNCHANGED <<server, active, metric, stats, db, served>>
      /\ req[r] \in Requests /\ RequestOK(req[r])
      /\ stats \in [blocked : Nat, safe : Nat, flagged : Nat] /\ served \in 0..MaxServed
  BY Zenon, RequestFacts DEF AppWrites, At
<1>1. PICK code \in {OK, NotFound} :
        req' = [req EXCEPT ![r] = [Answer(@, code) EXCEPT !.reached = TRUE]]
  BY Zenon DEF AppWrites
<1> DEFINE m == Answer(req[r], code)
           q == [m EXCEPT !.reached = TRUE]
<1>2. Steps(r, q)
  BY Zenon, <1>1 DEF Steps
<1>3. req[r].logged = req[r].sent /\ code \in Codes /\ req[r].verdict = "none"
  BY Zenon, <1>0 DEF RequestOK, Codes, Blocking
<1>4. /\ m \in Requests /\ m.at = "app" /\ m.verdict = req[r].verdict /\ m.logged = m.sent
  BY Zenon, <1>0, <1>3, AnswerFields
<1> HIDE DEF m
<1>5. /\ q \in Requests /\ q.at = "app" /\ q.logged = q.sent /\ q.verdict = "none"
  BY Zenon, <1>3, <1>4 DEF Requests
<1> HIDE DEF q
<1>6. RequestOK(q)
  BY Zenon, <1>5 DEF RequestOK, Early, InWaf
<1> QED
  BY Zenon, <1>0, <1>2, <1>5, <1>6, QuietStep DEF Counted

LEMMA AppReturnsInv ==
  ASSUME Inv, NEW r \in Reqs, AppReturns(r)
  PROVE  Inv'
<1>0. /\ req[r].at = "app" /\ UNCHANGED <<server, active, metric, stats, db, served>>
      /\ req[r] \in Requests /\ RequestOK(req[r])
      /\ stats \in [blocked : Nat, safe : Nat, flagged : Nat] /\ served \in 0..MaxServed
  BY Zenon, RequestFacts DEF AppReturns, At
<1> DEFINE label == IF req[r].path = "ws" THEN "cleanup" ELSE "response"
           m == Answer(req[r], OK)
           q == [m EXCEPT !.reached = TRUE, !.at = label]
<1>2. Steps(r, q)
  BY Zenon DEF AppReturns, Steps
<1>3. req[r].logged = req[r].sent /\ OK \in Codes /\ req[r].verdict = "none"
  BY Zenon, <1>0 DEF RequestOK, Codes, Blocking
<1>4. /\ m \in Requests /\ m.at = "app" /\ m.verdict = req[r].verdict /\ m.logged = m.sent
  BY Zenon, <1>0, <1>3, AnswerFields
<1>a. label \in {"cleanup", "response"}
  BY Zenon
<1> HIDE DEF m, label
<1>5. /\ q \in Requests /\ q.at = label /\ q.logged = q.sent /\ q.verdict = "none"
  BY Zenon, <1>3, <1>4, <1>a DEF Requests, Labels
<1> HIDE DEF q
<1>6. RequestOK(q)
  BY Zenon, <1>5, <1>a DEF RequestOK, Early, InWaf
<1> QED
  BY Zenon, <1>0, <1>2, <1>5, <1>6, <1>a, QuietStep DEF Counted

LEMMA AppPanicsInv ==
  ASSUME Inv, NEW r \in Reqs, AppPanics(r)
  PROVE  Inv'
<1>0. /\ req[r].at = "app" /\ UNCHANGED <<server, active, metric, stats, db, served>>
      /\ req[r] \in Requests /\ RequestOK(req[r])
      /\ stats \in [blocked : Nat, safe : Nat, flagged : Nat] /\ served \in 0..MaxServed
  BY Zenon, RequestFacts DEF AppPanics, At
<1> DEFINE q == [req[r] EXCEPT !.reached = TRUE, !.panicked = TRUE, !.at = "cleanup"]
<1>1. Steps(r, q)
  BY Zenon, <1>0 DEF AppPanics, Steps, PanicTo, Inv
<1>2. req[r].logged = req[r].sent /\ req[r].verdict = "none"
  BY Zenon, <1>0 DEF RequestOK, Blocking
<1>3. /\ q \in Requests /\ q.at = "cleanup" /\ q.logged = q.sent /\ q.verdict = "none"
  BY Zenon, <1>0, <1>2 DEF Requests, Labels
<1> HIDE DEF q
<1>4. RequestOK(q)
  BY Zenon, <1>3 DEF RequestOK, Early, InWaf
<1> QED
  BY Zenon, <1>0, <1>1, <1>3, <1>4, QuietStep DEF Counted

LEMMA ResponseHeadersInv ==
  ASSUME Inv, NEW r \in Reqs, ResponseHeaders(r)
  PROVE  Inv'
<1>0. /\ req[r].at = "response" /\ UNCHANGED <<server, active, metric, stats, db, served>>
      /\ req[r] \in Requests /\ RequestOK(req[r])
      /\ stats \in [blocked : Nat, safe : Nat, flagged : Nat] /\ served \in 0..MaxServed
  BY Zenon, RequestFacts DEF ResponseHeaders, At
<1>1. PICK tx \in {"open", "interrupted"} :
        req' = [req EXCEPT ![r].tx = tx, ![r].at = IF tx = "open" THEN "safe" ELSE "cleanup"]
  BY Zenon DEF ResponseHeaders
<1> DEFINE label == IF tx = "open" THEN "safe" ELSE "cleanup"
           q == [req[r] EXCEPT !.tx = tx, !.at = label]
<1>2. Steps(r, q)
  BY Zenon, <1>0, <1>1 DEF Steps, Inv
<1>3. req[r].logged = req[r].sent /\ req[r].verdict = "none" /\ label \in {"safe", "cleanup"}
  BY Zenon, <1>0 DEF RequestOK, Blocking
<1> HIDE DEF label
<1>4. /\ q \in Requests /\ q.at = label /\ q.logged = q.sent /\ q.verdict = "none"
  BY Zenon, <1>0, <1>3 DEF Requests, Labels
<1> HIDE DEF q
<1>5. RequestOK(q)
  BY Zenon, <1>3, <1>4 DEF RequestOK, Early, InWaf
<1> QED
  BY Zenon, <1>0, <1>2, <1>3, <1>4, <1>5, QuietStep DEF Counted

LEMMA LogSafeInv ==
  ASSUME Inv, NEW r \in Reqs, LogSafe(r)
  PROVE  Inv'
<1>0. /\ req[r].at = "safe" /\ UNCHANGED <<server, active, metric, db, served>>
      /\ req[r] \in Requests /\ RequestOK(req[r])
      /\ stats \in [blocked : Nat, safe : Nat, flagged : Nat] /\ served \in 0..MaxServed
  BY Zenon, RequestFacts DEF LogSafe, At
<1> DEFINE q == [req[r] EXCEPT !.at = "safeDb"]
<1>1. Steps(r, q)
  BY Zenon DEF LogSafe, Moves, Steps
<1>2. /\ q \in Requests /\ q.at = "safeDb" /\ q.sent = req[r].sent /\ q.logged = req[r].logged
      /\ q.verdict = req[r].verdict
  <2>1. "safeDb" \in Labels
    BY Zenon DEF Labels
  <2> QED
    BY Zenon, <1>0, <2>1, Moved
<1> HIDE DEF q
<1>3. RequestOK(q)
  BY Zenon, <1>0, <1>2 DEF RequestOK, Early, Blocking, InWaf
<1>4. /\ Shift(r, q, Counted) = 0 /\ Shift(r, q, {"blockLog"}) = 0
      /\ Shift(r, q, {"blockDb"}) = 0 /\ Shift(r, q, {"safeDb"}) = 1
  BY <1>0, <1>2 DEF Shift, Counted
<1>5. /\ stats' \in [blocked : Nat, safe : Nat, flagged : Nat]
      /\ stats'.blocked = stats.blocked /\ stats'.safe = stats.safe + 1
  BY <1>0 DEF LogSafe
<1>6. /\ metric.waf \in Nat /\ metric.threat \in Nat /\ stats.blocked \in Nat /\ stats.safe \in Nat
      /\ db.blocked \in Nat /\ db.total \in Nat /\ active \in Nat
  BY Zenon DEF Inv, CounterTypeOK
<1>7. ServerOK' /\ CounterTypeOK'
  BY Zenon, <1>0, <1>5 DEF Inv, ServerOK, CounterTypeOK
<1> QED
  BY <1>0, <1>1, <1>2, <1>3, <1>4, <1>5, <1>6, <1>7, RequestStep

LEMMA CountTotalDbInv ==
  ASSUME Inv, NEW r \in Reqs, CountTotalDb(r)
  PROVE  Inv'
<1>0. /\ req[r].at = "safeDb" /\ UNCHANGED <<server, active, metric, stats, served>>
      /\ req[r] \in Requests /\ RequestOK(req[r])
  BY Zenon, RequestFacts DEF CountTotalDb, At
<1> DEFINE q == [req[r] EXCEPT !.at = "cleanup"]
<1>1. Steps(r, q)
  BY Zenon DEF CountTotalDb, Moves, Steps
<1>2. /\ q \in Requests /\ q.at = "cleanup" /\ q.sent = req[r].sent /\ q.logged = req[r].logged
      /\ q.verdict = req[r].verdict
  <2>1. "cleanup" \in Labels
    BY Zenon DEF Labels
  <2> QED
    BY Zenon, <1>0, <2>1, Moved
<1> HIDE DEF q
<1>3. RequestOK(q)
  BY Zenon, <1>0, <1>2 DEF RequestOK, Early, Blocking, InWaf
<1>4. /\ Shift(r, q, Counted) = 0 /\ Shift(r, q, {"blockLog"}) = 0
      /\ Shift(r, q, {"blockDb"}) = 0 /\ Shift(r, q, {"safeDb"}) = -1
  BY <1>0, <1>2 DEF Shift, Counted
<1>5. /\ db' \in [total : Nat, blocked : Nat]
      /\ db'.total <= db.total + 1 /\ db'.blocked = db.blocked
  BY DEF CountTotalDb, Inv, CounterTypeOK
<1>6. /\ metric.waf \in Nat /\ metric.threat \in Nat /\ stats.blocked \in Nat /\ stats.safe \in Nat
      /\ db.blocked \in Nat /\ db.total \in Nat /\ db'.total \in Nat /\ active \in Nat
  BY Zenon, <1>5 DEF Inv, CounterTypeOK
<1>7. ServerOK' /\ CounterTypeOK'
  BY Zenon, <1>0, <1>5 DEF Inv, ServerOK, CounterTypeOK
<1> QED
  BY <1>0, <1>1, <1>2, <1>3, <1>4, <1>5, <1>6, <1>7, RequestStep

LEMMA CleanUpInv ==
  ASSUME Inv, NEW r \in Reqs, CleanUp(r)
  PROVE  Inv'
<1>0. /\ req[r].at = "cleanup" /\ UNCHANGED <<server, active, metric, db, served>>
      /\ req[r] \in Requests /\ RequestOK(req[r])
      /\ stats \in [blocked : Nat, safe : Nat, flagged : Nat] /\ served \in 0..MaxServed
  BY Zenon, RequestFacts DEF CleanUp, At
<1>1. /\ stats' \in [blocked : Nat, safe : Nat, flagged : Nat]
      /\ stats'.blocked = stats.blocked /\ stats'.safe = stats.safe
  BY <1>0 DEF CleanUp
<1> DEFINE c == [req[r] EXCEPT !.tx = "none", !.at = "record"]
           m == Answer(c, ServerError)
           q == IF c.panicked THEN m ELSE c
<1>2. Steps(r, q)
  BY Zenon DEF CleanUp, ClosedTx, Steps
<1>3. /\ c \in Requests /\ c.at = "record" /\ c.sent = req[r].sent /\ c.logged = req[r].logged
      /\ c.tx = "none" /\ c.verdict = req[r].verdict /\ c.reached = req[r].reached
      /\ c.panicked = req[r].panicked
  BY Zenon, <1>0 DEF Requests, Labels
<1> HIDE DEF c
<1>4. c.logged = c.sent /\ ServerError \in Codes
  BY Zenon, <1>0, <1>3 DEF RequestOK, Codes
<1>5. RequestOK(c)
  BY Zenon, <1>0, <1>3, <1>4 DEF RequestOK, Early, Blocking
<1>6. /\ m \in Requests /\ m.at = c.at /\ m.tx = c.tx /\ m.verdict = c.verdict
      /\ m.reached = c.reached /\ m.panicked = c.panicked /\ m.logged = m.sent
  BY Zenon, <1>3, <1>4, AnswerFields
<1> HIDE DEF m
<1>7. c.panicked => RequestOK(m)
  BY Zenon, <1>3, <1>5, <1>6 DEF RequestOK, Early
<1>8. q \in Requests /\ RequestOK(q) /\ q.at = "record"
  BY Zenon, <1>3, <1>5, <1>6, <1>7
<1> HIDE DEF q
<1> QED
  BY Zenon, <1>0, <1>1, <1>2, <1>8, QuietStep DEF Counted

LEMMA RecordInv ==
  ASSUME Inv, NEW r \in Reqs, Record(r)
  PROVE  Inv'
<1>0. /\ req[r].at = "record" /\ active' = active - 1 /\ UNCHANGED <<server, stats, db, served>>
      /\ req[r] \in Requests /\ RequestOK(req[r])
  BY Zenon, RequestFacts DEF Record, Left, At
<1> DEFINE q == [req[r] EXCEPT !.at = "end"]
<1>1. Steps(r, q)
  BY Zenon DEF Record, Moves, Steps
<1>2. /\ q \in Requests /\ q.at = "end" /\ q.sent = req[r].sent /\ q.logged = req[r].logged
      /\ q.tx = req[r].tx /\ q.verdict = req[r].verdict /\ q.reached = req[r].reached
      /\ q.panicked = req[r].panicked
  <2>1. "end" \in Labels
    BY Zenon DEF Labels
  <2> QED
    BY Zenon, <1>0, <2>1, Moved
<1> HIDE DEF q
<1>3. RequestOK(q)
  BY Zenon, <1>0, <1>2 DEF RequestOK, Early, Blocking, InWaf
<1>4. /\ Shift(r, q, Counted) = -1 /\ Shift(r, q, {"blockLog"}) = 0
      /\ Shift(r, q, {"blockDb"}) = 0 /\ Shift(r, q, {"safeDb"}) = 0
  BY <1>0, <1>2 DEF Shift, Counted
<1>5. active' \in Nat
  <2>1. r \in {s \in Reqs : req[s].at \in Counted}
    BY Zenon, <1>0 DEF Counted
  <2> DEFINE P == {s \in Reqs : req[s].at \in Counted}
  <2>2. IsFiniteSet(P)
    BY Zenon, PopulationType
  <2>3. active = Cardinality(P)
    BY Zenon DEF Inv, InFlight, Population
  <2> HIDE DEF P
  <2>4. Cardinality(P) \in Nat /\ Cardinality(P) # 0
    BY Zenon, <2>1, <2>2, FS_EmptySet, FS_CardinalityType DEF P
  <2> QED
    BY <1>0, <2>3, <2>4
<1>6. /\ metric.waf \in Nat /\ metric.threat \in Nat /\ stats.blocked \in Nat /\ stats.safe \in Nat
      /\ db.blocked \in Nat /\ db.total \in Nat /\ active \in Nat
  BY Zenon DEF Inv, CounterTypeOK
<1>7. /\ metric' \in [requests : Nat, waf : Nat, threat : Nat]
      /\ metric'.waf = metric.waf /\ metric'.threat = metric.threat
  BY DEF Record, Inv, CounterTypeOK
<1>8. ServerOK' /\ CounterTypeOK'
  BY Zenon, <1>0, <1>5, <1>7 DEF Inv, ServerOK, CounterTypeOK
<1> QED
  BY <1>0, <1>1, <1>2, <1>3, <1>4, <1>6, <1>7, <1>8, RequestStep

LEMMA FinishInv ==
  ASSUME Inv, NEW r \in Reqs, Finish(r)
  PROVE  Inv'
<1>0. /\ req[r].at = "end" /\ UNCHANGED <<server, active, metric, stats, db, served>>
      /\ stats \in [blocked : Nat, safe : Nat, flagged : Nat] /\ served \in 0..MaxServed
  BY Zenon, RequestFacts DEF Finish, At
<1>1. Steps(r, NoReq)
  BY Zenon DEF Finish, Steps
<1>2. NoReq \in Requests /\ RequestOK(NoReq) /\ NoReq.at = "none"
  BY Zenon DEF NoReq, Requests, RequestOK, Labels, Paths, Codes, Early, Blocking
<1> QED
  BY Zenon, <1>0, <1>1, <1>2, QuietStep DEF Counted

----------------------------------------------------------------------------
LEMMA InitInv == Init => Inv
<1> SUFFICES ASSUME Init PROVE Inv
  BY Zenon
<1>1. NoReq \in Requests /\ RequestOK(NoReq) /\ NoReq.at = "none"
  BY Zenon DEF NoReq, Requests, RequestOK, Labels, Paths, Codes, Early, Blocking
<1>2. req \in [Reqs -> Requests] /\ \A r \in Reqs : req[r] = NoReq
  BY Zenon, <1>1 DEF Init
<1>3. \A labels : "none" \notin labels => Population(labels) = 0
  <2> SUFFICES ASSUME NEW labels, "none" \notin labels PROVE Population(labels) = 0
    BY Zenon
  <2>1. {r \in Reqs : req[r].at \in labels} = {}
    BY Zenon, <1>1, <1>2
  <2> QED
    BY Zenon, <2>1, FS_EmptySet DEF Population
<1>4. /\ Population(Counted) = 0 /\ Population({"blockLog"}) = 0
      /\ Population({"blockDb"}) = 0 /\ Population({"safeDb"}) = 0
  <2>1. /\ "none" \notin Counted /\ "none" \notin {"blockLog"}
        /\ "none" \notin {"blockDb"} /\ "none" \notin {"safeDb"}
    BY Zenon DEF Counted
  <2> QED
    BY Zenon, <1>3, <2>1
<1>5. /\ active = 0 /\ served = 0 /\ server = "up"
      /\ metric = [requests |-> 0, waf |-> 0, threat |-> 0]
      /\ stats = [blocked |-> 0, safe |-> 0, flagged |-> 0] /\ db = [total |-> 0, blocked |-> 0]
  BY Zenon DEF Init
<1>6. CounterTypeOK /\ ServerOK
  BY <1>5, ReqsAssumption DEF CounterTypeOK, ServerOK
<1>7. InFlight
  BY <1>4, <1>5 DEF InFlight
<1> QED
  BY Zenon, <1>1, <1>2, <1>6, <1>7 DEF Inv

\* The shutdown does not touch the requests or the counters.
LEMMA FrameInv ==
  ASSUME Inv, UNCHANGED <<req, active, metric, stats, db, served>>, ServerOK'
  PROVE  Inv'
  BY Zenon DEF Inv, RequestOK, CounterTypeOK, InFlight, Population

LEMMA StepInv == Inv /\ [Next]_vars => Inv'
<1> SUFFICES ASSUME Inv, [Next]_vars PROVE Inv'
  BY Zenon
<1>1. ASSUME NEW r \in Reqs, Step(r)
      PROVE  Inv'
  <2>1. CASE IpAllowlist(r) \/ RateLimit(r) \/ GeoIP(r)
    <3>1. Forbidden \in Codes /\ TooMany \in Codes
      BY Zenon DEF Codes
    <3> QED
      BY Zenon, <2>1, <3>1, GateInv DEF IpAllowlist, RateLimit, GeoIP
  <2>2. CASE RequestHeaders(r) \/ RequestBody(r)
    BY Zenon, <2>2, RequestPhaseInv DEF RequestHeaders, RequestBody
  <2> QED
    BY Zenon, <1>1, <2>1, <2>2, CorsInv, EnterMetricsInv, CheckThreatInv, BeginTransactionInv,
       LogBlockedInv, CountBlockedDbInv, AnswerBlockedInv, AppReturnsInv, AppPanicsInv,
       ResponseHeadersInv, LogSafeInv, CountTotalDbInv, CleanUpInv, RecordInv, FinishInv DEF Step
<1>2. CASE ShutdownStep
  <2>1. ServerOK'
    BY <1>2 DEF ShutdownStep, ShutdownOrder, ServerOK
  <2> QED
    BY Zenon, <1>2, <2>1, FrameInv DEF ShutdownStep
<1>3. CASE MainReturns
  BY Zenon, <1>3, FrameInv DEF MainReturns, ServerOK
<1>4. CASE UNCHANGED vars
  BY Zenon, <1>4, FrameInv DEF vars, Inv, ServerOK
<1> QED
  BY Zenon, <1>1, <1>2, <1>3, <1>4, AcceptInv, AppWritesInv DEF Next

LEMMA Invariance == Spec => []Inv
  BY InitInv, StepInv, PTL DEF Spec

\* However the goroutines of the requests interleave, with each other and with the
\* shutdown, a request that a rule or the threat list stopped does not reach the
\* application and its client gets 403.
THEOREM StoppedCorrect == Spec => []StoppedNotServed
<1>1. Inv => StoppedNotServed
  <2> SUFFICES ASSUME Inv, NEW r \in Reqs, req[r].verdict # "none"
               PROVE  /\ ~req[r].reached
                      /\ req[r].sent \in {0, Forbidden}
                      /\ req[r].at \in {"record", "end"} => req[r].sent = Forbidden
    BY Zenon DEF StoppedNotServed
  <2> QED
    BY Zenon DEF Inv, RequestOK, Blocking
<1> QED
  BY <1>1, Invariance, PTL

\* For any number of requests in flight: every request has a well-formed state and
\* leaves no open transaction, the access log gets the status that was sent, and the
\* counters of Prometheus, of the store and of PostgreSQL agree.
THEOREM AccountedCorrect == Spec => []RequestsAccounted
<1>1. Inv => RequestsAccounted
  <2> SUFFICES ASSUME Inv PROVE RequestsAccounted
    BY Zenon
  <2>1. active \in 0..Cardinality(Reqs)
    BY Zenon, PopulationType DEF Inv, InFlight
  <2>2. TypeOK
    BY Zenon, <2>1 DEF Inv, TypeOK, ServerOK, CounterTypeOK, Requests
  <2>3. TransactionsClosed /\ LoggedIsSent
    BY Zenon DEF Inv, RequestOK, TransactionsClosed, LoggedIsSent
  <2>4. \A labels : Population(labels) \in Nat
    <3> SUFFICES ASSUME NEW labels PROVE Population(labels) \in Nat
      BY Zenon
    <3>1. Population(labels) \in 0..Cardinality(Reqs)
      BY Zenon, PopulationType
    <3> QED
      BY <3>1
  <2>5. db.blocked <= stats.blocked /\ db.total <= stats.safe
    <3>1. Population({"blockDb"}) \in Nat /\ Population({"safeDb"}) \in Nat
      BY Zenon, <2>4
    <3>2. stats.blocked \in Nat /\ stats.safe \in Nat /\ db.blocked \in Nat /\ db.total \in Nat
      BY Zenon DEF Inv, CounterTypeOK
    <3> QED
      BY <3>1, <3>2 DEF Inv, InFlight
  <2>6. ASSUME \A r \in Reqs : req[r].at = "none"
        PROVE  metric.waf + metric.threat = stats.blocked /\ active = 0
    <3>1. {r \in Reqs : req[r].at \in Counted} = {} /\ {r \in Reqs : req[r].at \in {"blockLog"}} = {}
      BY Zenon, <2>6 DEF Counted
    <3>2. Population(Counted) = 0 /\ Population({"blockLog"}) = 0
      BY Zenon, <3>1, FS_EmptySet DEF Population
    <3>3. stats.blocked \in Nat
      BY Zenon DEF Inv, CounterTypeOK
    <3> QED
      BY <3>2, <3>3 DEF Inv, InFlight
  <2> QED
    BY Zenon, <2>2, <2>3, <2>5, <2>6 DEF RequestsAccounted, CountersAgree
<1> QED
  BY <1>1, Invariance, PTL

\* At every moment the gauge of active requests is the number of requests inside
\* Metrics.Middleware, and two counters of the same block or the same safe request
\* differ by exactly, or at most, the requests between the two increments.
THEOREM CountersExact == Spec => []InFlight
<1>1. Inv => InFlight
  BY Zenon DEF Inv
<1> QED
  BY <1>1, Invariance, PTL

----------------------------------------------------------------------------
(***************************************************************************)
(* The allowlist: what is in the store.                                    *)
(***************************************************************************)
CONSTANTS
  IPs, Ranges, Covers, Loopback, AllowLocalhost, MaxEntries

VARIABLES
  enabled, entries, cidrs, keyOf, off, allowed, saving, raced, unsaved, missed

Allow == INSTANCE IpAllow WITH store <- allowed

\* An entry that is in use is known under its own address.
Known ==
  /\ keyOf \in Seq(Allow!Keys)
  /\ \A k \in DOMAIN entries : entries[k] \in DOMAIN keyOf /\ keyOf[entries[k]] = k

\* What is being saved is listed, and what is listed and not being saved is stored.
\* StoreFollows alone is not inductive: it says nothing while a save is under way.
Follows ==
  ~raced => /\ saving \subseteq Allow!Listed
            /\ ~unsaved => allowed = Allow!Listed \ saving

IInv == Known /\ Follows

LEMMA AllowInit == Allow!Init => IInv
  BY DEF Allow!Init, IInv, Known, Follows, Allow!Listed

\* Taking out the entry of its own address takes out no other entry.
LEMMA ListedWithout ==
  ASSUME Known, NEW id \in Allow!Listed, NEW rest, rest = Allow!Without(entries, keyOf[id])
  PROVE  {rest[k] : k \in DOMAIN rest} = Allow!Listed \ {id}
<1>1. DOMAIN rest = DOMAIN entries \ {keyOf[id]} /\ \A k \in DOMAIN rest : rest[k] = entries[k]
  BY DEF Allow!Without
<1>2. PICK own \in DOMAIN entries : entries[own] = id
  BY DEF Allow!Listed
<1>3. own = keyOf[id]
  BY <1>2 DEF Known
<1>4. \A k \in DOMAIN entries : entries[k] = id => k = own
  BY <1>2 DEF Known
<1>5. {rest[k] : k \in DOMAIN rest} = {entries[k] : k \in DOMAIN entries \ {own}}
  BY <1>1, <1>3
<1> QED
  BY <1>2, <1>4, <1>5 DEF Allow!Listed

LEMMA AddStep ==
  ASSUME IInv, NEW k \in Allow!Keys, Allow!Add(k)
  PROVE  IInv'
<1> DEFINE id == Len(keyOf) + 1
<1>1. keyOf' = Append(keyOf, k) /\ entries' = Allow!With(entries, k, id)
      /\ saving' = saving \cup {id} /\ UNCHANGED <<allowed, raced, unsaved>> /\ k \notin DOMAIN entries
  BY DEF Allow!Add
<1>2. DOMAIN keyOf = 1 .. Len(keyOf) /\ Len(keyOf) \in Nat /\ keyOf' \in Seq(Allow!Keys)
      /\ DOMAIN keyOf' = 1 .. id /\ keyOf'[id] = k /\ \A i \in DOMAIN keyOf : keyOf'[i] = keyOf[i]
  BY <1>1 DEF IInv, Known
<1>3. DOMAIN entries' = DOMAIN entries \cup {k} /\ entries'[k] = id
      /\ \A x \in DOMAIN entries : entries'[x] = entries[x]
  BY <1>1 DEF Allow!With
<1>4. id \notin DOMAIN keyOf /\ id \in DOMAIN keyOf' /\ DOMAIN keyOf \subseteq DOMAIN keyOf'
  BY <1>2
<1> HIDE DEF id
<1>5. Known'
  BY <1>2, <1>3, <1>4 DEF IInv, Known
<1>6. Allow!Listed' = Allow!Listed \cup {id} /\ id \notin Allow!Listed
  BY <1>3, <1>4 DEF IInv, Known, Allow!Listed
<1> QED
  BY <1>1, <1>5, <1>6 DEF IInv, Follows

LEMMA FailSaveStep ==
  ASSUME IInv, NEW id \in saving, Allow!FailSave(id)
  PROVE  IInv'
<1>1. keyOf' = keyOf /\ entries' = Allow!Without(entries, keyOf[id]) /\ saving' = saving \ {id}
      /\ UNCHANGED <<allowed, unsaved>> /\ (~raced' => ~raced /\ id \in Allow!Listed)
  BY DEF Allow!FailSave
<1>2. Known'
  BY <1>1 DEF IInv, Known, Allow!Without
<1>3. ~raced' => Allow!Listed' = Allow!Listed \ {id}
  BY <1>1, ListedWithout DEF IInv, Allow!Listed
<1> QED
  BY <1>1, <1>2, <1>3 DEF IInv, Follows

LEMMA RemoveEntryStep ==
  ASSUME IInv, NEW arg, Allow!RemoveEntry(arg)
  PROVE  IInv'
<1>1. keyOf' = keyOf /\ saving' = saving
  BY DEF Allow!RemoveEntry
<1>2. CASE arg \notin Allow!Listed
  <2>1. UNCHANGED <<entries, allowed, raced, unsaved>>
    BY <1>2 DEF Allow!RemoveEntry
  <2> QED
    BY <1>1, <2>1 DEF IInv, Known, Follows, Allow!Listed
<1>3. CASE arg \in Allow!Listed
  <2>1. entries' = Allow!Without(entries, keyOf[arg]) /\ (~raced' => ~raced /\ arg \notin saving)
        /\ (~unsaved' => ~unsaved /\ allowed' = allowed \ {arg})
    BY <1>3 DEF Allow!RemoveEntry, Allow!DeleteFromStore
  <2>2. Known'
    BY <1>1, <2>1 DEF IInv, Known, Allow!Without
  <2>3. Allow!Listed' = Allow!Listed \ {arg}
    BY <1>3, <2>1, ListedWithout DEF IInv, Allow!Listed
  <2> QED
    BY <1>1, <2>1, <2>2, <2>3 DEF IInv, Follows
<1> QED
  BY <1>2, <1>3

LEMMA AllowStep ==
  ASSUME IInv, [Allow!Next]_(Allow!vars)
  PROVE  IInv'
<1>1. CASE \E ip \in IPs \cup {Allow!Absent}, cidr \in Ranges \cup {Allow!Absent} : Allow!HandleAdd(ip, cidr)
  BY <1>1, AddStep DEF Allow!HandleAdd, Allow!Keys
<1>2. ASSUME NEW id \in saving, Allow!SaveEntry(id)
      PROVE  IInv'
  <2>1. Known' /\ Allow!Listed' = Allow!Listed
    BY <1>2 DEF Allow!SaveEntry, IInv, Known, Allow!Listed
  <2> QED
    BY <1>2, <2>1 DEF Allow!SaveEntry, IInv, Follows
<1>3. CASE \E id \in saving : Allow!FailSave(id)
  BY <1>3, FailSaveStep
<1>4. CASE \E id \in Allow!EntryIds \cup {Allow!Absent}, k \in Allow!Keys \cup {Allow!Absent} : Allow!HandleRemove(id, k)
  BY <1>4, RemoveEntryStep DEF Allow!HandleRemove
<1>5. ASSUME NEW id \in Allow!EntryIds, NEW on \in BOOLEAN, Allow!SetEnabled(id, on)
      PROVE  IInv'
  <2>1. Known' /\ Allow!Listed' = Allow!Listed
    BY <1>5 DEF Allow!SetEnabled, IInv, Known, Allow!Listed
  <2>2. id \in Allow!Listed /\ saving' = saving /\ (~raced' => ~raced /\ id \notin saving)
    BY <1>5, Zenon DEF Allow!SetEnabled
  <2>3. ~unsaved' => ~unsaved /\ allowed' = allowed \cup {id}
    BY <1>5, Zenon DEF Allow!SetEnabled
  <2> QED
    BY <2>1, <2>2, <2>3 DEF IInv, Follows
<1>6. CASE Allow!SetConfig
  BY <1>6 DEF Allow!SetConfig, IInv, Known, Follows, Allow!Listed
<1>7. CASE UNCHANGED Allow!vars
  BY <1>7 DEF Allow!vars, IInv, Known, Follows, Allow!Listed
<1> QED
  BY <1>1, <1>2, <1>3, <1>4, <1>5, <1>6, <1>7 DEF Allow!Next

\* AddIP, AddCIDR, RemoveEntry and SetEnabled: once no save is under way, and unless the
\* store failed to follow or two operations met, the store holds the entries of the list.
THEOREM AllowCorrect == Allow!Spec => []Allow!StoreFollows
<1>1. IInv => Allow!StoreFollows
  BY DEF IInv, Follows, Allow!StoreFollows
<1> QED
  BY <1>1, AllowInit, AllowStep, PTL DEF Allow!Spec

----------------------------------------------------------------------------
(***************************************************************************)
(* ThreatIntel: the blocklist in memory and on disk.  Until two saves have *)
(* overlapped, the temporary file belongs to the one save that runs, which *)
(* renames it only when it holds the copy that the save took; and from     *)
(* Stop on every save took a copy with what was blocked then.              *)
(***************************************************************************)
CONSTANTS
  Feeds, None, Torn

VARIABLES
  blockedIPs, cidrBlocks, refresh, done, writer, blocklist, newList, custom, atStop, overlap, failed

Threat == INSTANCE ThreatIntel WITH saver <- writer, file <- blocklist, tmp <- newList

Entries == IPs \cup Ranges

\* The feeds name addresses and ranges, and no blocklist stands for a file that is
\* missing or does not parse.
FeedsOK ==
  /\ Feeds \in Seq(Seq(Entries))
  /\ None # Torn /\ None \notin SUBSET Entries /\ Torn \notin SUBSET Entries

WriterType == [at : {"idle", "open", "write", "rename"}, data : SUBSET Entries,
               fd : {"none", "tmp", "file", "gone"}]

ListTypes ==
  /\ blockedIPs \in SUBSET Entries
  /\ refresh.left \in Seq(Seq(Entries)) /\ refresh = [at |-> refresh.at, left |-> refresh.left]
  /\ writer \in [Threat!SaveCallers -> WriterType]
  /\ blocklist \in {None, Torn} \cup SUBSET Entries /\ newList \in {None, Torn} \cup SUBSET Entries
  /\ done \in BOOLEAN /\ overlap \in BOOLEAN /\ (writer["stop"].at # "idle" => done)

\* What administrators blocked is in memory, and stays there whatever the feeds say.
ListInv == atStop \subseteq custom /\ custom \subseteq blockedIPs

OneWriter == \A s, t \in Threat!SaveCallers : Threat!Saving(s) /\ Threat!Saving(t) => s = t

DiskInv ==
  ~overlap =>
    /\ OneWriter
    /\ blocklist # Torn
    /\ \A s \in Threat!SaveCallers :
         /\ writer[s].at = "write" => writer[s].fd = "tmp"
         /\ writer[s].at = "rename" => newList = writer[s].data
         /\ done /\ Threat!Saving(s) => atStop \subseteq writer[s].data
    /\ done /\ ~Threat!Saving("stop") => atStop \subseteq Threat!Loaded

TInv == ListTypes /\ ListInv /\ DiskInv

LEMMA ThreatInit == ASSUME FeedsOK, Threat!Init PROVE TInv
<1>1. /\ \A s \in Threat!SaveCallers : writer[s] = Threat!NotSaving
      /\ writer = [s \in Threat!SaveCallers |-> Threat!NotSaving]
      /\ Threat!NotSaving \in WriterType /\ Threat!NotSaving.at = "idle"
  BY DEF Threat!Init, Threat!NotSaving, WriterType
<1>2. ListTypes /\ ListInv
  <2>1. refresh = [at |-> "wait", left |-> <<>>] /\ blockedIPs = {} /\ blocklist = None /\ newList = None
        /\ done = FALSE /\ overlap = FALSE /\ custom = {} /\ atStop = {}
    BY DEF Threat!Init
  <2>2. refresh.left \in Seq(Seq(Entries)) /\ refresh = [at |-> refresh.at, left |-> refresh.left]
    BY <2>1
  <2> QED
    BY <1>1, <2>1, <2>2 DEF ListTypes, ListInv, Threat!SaveCallers
<1>3. DiskInv
  BY <1>1 DEF FeedsOK, Threat!Init, DiskInv, OneWriter, Threat!Saving
<1> QED
  BY <1>2, <1>3 DEF TInv

\* A step that leaves the disk and its writers alone.
LEMMA MemoryStep ==
  ASSUME TInv, UNCHANGED <<writer, blocklist, newList, overlap, done>>, atStop' \subseteq atStop,
         ListInv', blockedIPs' \in SUBSET Entries,
         refresh'.left \in Seq(Seq(Entries)), refresh' = [at |-> refresh'.at, left |-> refresh'.left]
  PROVE  TInv'
<1>1. ListTypes'
  BY DEF TInv, ListTypes
<1>2. DiskInv'
  BY DEF TInv, DiskInv, OneWriter, Threat!Saving, Threat!Loaded
<1> QED
  BY <1>1, <1>2 DEF TInv

LEMMA FeedsInv == ASSUME FeedsOK, TInv, Threat!BeginRefresh \/ Threat!FetchFeed PROVE TInv'
<1>1. CASE Threat!BeginRefresh
  BY <1>1, MemoryStep DEF Threat!BeginRefresh, Threat!Start, TInv, ListTypes, ListInv, FeedsOK
<1>2. CASE Threat!FetchFeed
  <2> DEFINE feed == Head(refresh.left)
  <2>1. feed \in Seq(Entries) /\ Tail(refresh.left) \in Seq(Seq(Entries))
    <3> DEFINE S == Seq(Entries)
               left == refresh.left
    <3>1. left \in Seq(S) /\ left # <<>>
      BY <1>2 DEF Threat!FetchFeed, TInv, ListTypes
    <3> HIDE DEF S, left
    <3>2. Head(left) \in S /\ Tail(left) \in Seq(S)
      BY <3>1
    <3> QED
      BY <3>2 DEF S, left
  <2>2. PICK n \in 0..Len(feed) :
          blockedIPs' = IF n = 0 THEN blockedIPs ELSE blockedIPs \cup Threat!Named(SubSeq(feed, 1, n))
    BY Zenon, <1>2 DEF Threat!FetchFeed, Threat!Merge
  <2>3. n # 0 => Threat!Named(SubSeq(feed, 1, n)) \subseteq Entries
    <3> HIDE DEF feed
    <3>1. SubSeq(feed, 1, n) \in Seq(Entries)
      BY <2>1
    <3> QED
      BY <3>1 DEF Threat!Named
  <2>4. /\ refresh' = [refresh EXCEPT !.left = Tail(@)]
        /\ UNCHANGED <<done, writer, blocklist, newList, custom, atStop, overlap>>
    BY <1>2 DEF Threat!FetchFeed
  <2>5. blockedIPs \subseteq blockedIPs' /\ blockedIPs' \in SUBSET Entries
    BY <2>2, <2>3 DEF TInv, ListTypes
  <2>6. refresh' = [at |-> refresh.at, left |-> Tail(refresh.left)]
    BY <2>4 DEF TInv, ListTypes
  <2>7. ListInv'
    BY <2>4, <2>5 DEF TInv, ListInv
  <2> QED
    BY <2>1, <2>4, <2>5, <2>6, <2>7, MemoryStep
<1> QED
  BY <1>1, <1>2

LEMMA BlockInv ==
  ASSUME TInv, NEW ip \in IPs, Threat!BlockIP(ip) \/ Threat!UnblockIP(ip) PROVE TInv'
<1>1. /\ UNCHANGED <<refresh, writer, blocklist, newList, overlap, done>> /\ atStop' \subseteq atStop
      /\ ListInv' /\ blockedIPs' \in SUBSET Entries
  BY DEF TInv, ListTypes, ListInv, Entries, Threat!BlockIP, Threat!UnblockIP
<1> QED
  BY <1>1, MemoryStep DEF TInv, ListTypes

\* saveToDisk takes its copy; the other caller's save, if it runs, is an overlap.
LEMMA BeginSaveInv ==
  ASSUME FeedsOK, TInv, NEW s \in Threat!SaveCallers, ~Threat!Saving(s), Threat!BeginSave(s),
         UNCHANGED <<blockedIPs, blocklist, newList, custom>>, done' \in BOOLEAN,
         refresh'.left \in Seq(Seq(Entries)), refresh' = [at |-> refresh'.at, left |-> refresh'.left],
         \/ s = "stop" /\ done' /\ atStop' = custom
         \/ s = "refresher" /\ UNCHANGED <<done, atStop>>
  PROVE  TInv'
<1> DEFINE w == [at |-> "open", data |-> blockedIPs, fd |-> "none"]
<1>1. w \in WriterType /\ w.at = "open" /\ w.data = blockedIPs
  BY DEF TInv, ListTypes, WriterType
<1>2. /\ writer' = [writer EXCEPT ![s] = w]
      /\ overlap' = (overlap \/ \E t \in Threat!SaveCallers \ {s} : Threat!Saving(t))
  BY DEF Threat!BeginSave
<1> HIDE DEF w
<1>3. /\ writer' \in [Threat!SaveCallers -> WriterType] /\ writer'[s] = w
      /\ \A t \in Threat!SaveCallers : t # s => writer'[t] = writer[t]
  BY <1>1, <1>2 DEF TInv, ListTypes
<1>4. ListTypes' /\ ListInv'
  BY <1>2, <1>3 DEF TInv, ListTypes, ListInv, Threat!SaveCallers
<1>5. DiskInv'
  <2> SUFFICES ASSUME ~overlap' PROVE DiskInv'
    BY DEF DiskInv
  <2>1. ~overlap /\ \A t \in Threat!SaveCallers : t # s => ~Threat!Saving(t)
    BY <1>2 DEF TInv, ListTypes
  <2>2. \A t \in Threat!SaveCallers : t # s => writer'[t].at = "idle"
    BY <1>3, <2>1 DEF Threat!Saving
  <2>3. atStop' \subseteq blockedIPs
    BY <1>4 DEF ListInv
  <2>4. done' /\ s # "stop" => atStop' \subseteq Threat!Loaded'
    BY <2>1 DEF TInv, DiskInv, Threat!Loaded, Threat!SaveCallers
  <2>5. Threat!Saving(s)'
    BY <1>1, <1>3 DEF Threat!Saving
  <2> QED
    BY <1>1, <1>3, <2>1, <2>2, <2>3, <2>4, <2>5 DEF TInv, DiskInv, OneWriter, Threat!Saving
<1> QED
  BY <1>4, <1>5 DEF TInv

LEMMA SaveStartsInv ==
  ASSUME FeedsOK, TInv, Threat!SaveRefresh \/ Threat!Stop
  PROVE  TInv'
<1>0. "stop" \in Threat!SaveCallers /\ "refresher" \in Threat!SaveCallers
  BY DEF Threat!SaveCallers
<1>1. CASE Threat!SaveRefresh
  <2>1. refresh' = [at |-> "save", left |-> refresh.left]
    BY <1>1 DEF Threat!SaveRefresh, TInv, ListTypes
  <2> QED
    BY <1>0, <1>1, <2>1, BeginSaveInv DEF Threat!SaveRefresh, Threat!memory, TInv, ListTypes
<1>2. CASE Threat!Stop
  BY <1>0, <1>2, BeginSaveInv DEF Threat!Stop, Threat!Saving, Threat!StopSaves, Threat!memory, TInv, ListTypes
<1> QED
  BY <1>1, <1>2

\* A step of a save.
LEMMA SaveMovesInv ==
  ASSUME FeedsOK, TInv, NEW s \in Threat!SaveCallers,
         Threat!Open(s) \/ Threat!Write(s) \/ Threat!FailWrite(s) \/ Threat!Rename(s)
  PROVE  TInv'
<1>0. writer[s] \in WriterType
  BY DEF TInv, ListTypes
<1>1. CASE Threat!Open(s)
  <2> DEFINE w == [writer[s] EXCEPT !.at = "write", !.fd = "tmp"]
  <2>1. w \in WriterType /\ w.at = "write" /\ w.fd = "tmp" /\ w.data = writer[s].data
    BY <1>0 DEF WriterType
  <2>2. /\ writer[s].at = "open" /\ writer' = [writer EXCEPT ![s] = w] /\ newList' = Torn
        /\ UNCHANGED <<blockedIPs, refresh, done, blocklist, custom, atStop, overlap>>
    BY <1>1 DEF Threat!Open, Threat!Target, Threat!memory, Threat!hist
  <2> HIDE DEF w
  <2>3. /\ writer' \in [Threat!SaveCallers -> WriterType] /\ writer'[s] = w
        /\ \A t \in Threat!SaveCallers : t # s => writer'[t] = writer[t]
    BY <2>1, <2>2 DEF TInv, ListTypes
  <2>4. ListTypes' /\ ListInv'
    BY <2>2, <2>3 DEF TInv, ListTypes, ListInv, Threat!SaveCallers
  <2>5. DiskInv'
    BY <2>1, <2>2, <2>3 DEF TInv, DiskInv, OneWriter, Threat!Saving, Threat!Loaded
  <2> QED
    BY <2>4, <2>5 DEF TInv
<1>2. CASE Threat!Write(s)
  <2> DEFINE w == [writer[s] EXCEPT !.at = "rename"]
  <2>1. w \in WriterType /\ w.at = "rename" /\ w.data = writer[s].data
    BY <1>0 DEF WriterType
  <2>2. /\ writer[s].at = "write" /\ writer' = [writer EXCEPT ![s] = w]
        /\ newList' = IF writer[s].fd = "tmp" THEN writer[s].data ELSE newList
        /\ blocklist' = IF writer[s].fd = "file" THEN writer[s].data ELSE blocklist
        /\ UNCHANGED <<blockedIPs, refresh, done, custom, atStop, overlap>>
    BY <1>2 DEF Threat!Write, Threat!memory, Threat!hist
  <2> HIDE DEF w
  <2>3. /\ writer' \in [Threat!SaveCallers -> WriterType] /\ writer'[s] = w
        /\ \A t \in Threat!SaveCallers : t # s => writer'[t] = writer[t]
    BY <2>1, <2>2 DEF TInv, ListTypes
  <2>4. writer[s].data \in SUBSET Entries
    BY <1>0 DEF WriterType
  <2>5. ListTypes' /\ ListInv'
    BY <2>2, <2>3, <2>4 DEF TInv, ListTypes, ListInv, Threat!SaveCallers
  <2>6. DiskInv'
    <3> SUFFICES ASSUME ~overlap PROVE DiskInv'
      BY <2>2 DEF DiskInv
    <3>1. newList' = w.data /\ blocklist' = blocklist
      BY <2>1, <2>2 DEF TInv, DiskInv
    <3> QED
      BY <2>1, <2>2, <2>3, <3>1 DEF TInv, DiskInv, OneWriter, Threat!Saving, Threat!Loaded
  <2> QED
    BY <2>5, <2>6 DEF TInv
<1>3. CASE Threat!FailWrite(s)
  <2>1. Threat!NotSaving \in WriterType /\ Threat!NotSaving.at = "idle"
    BY DEF Threat!NotSaving, WriterType
  <2>2. /\ writer[s].at # "idle" /\ writer' = [writer EXCEPT ![s] = Threat!NotSaving]
        /\ atStop' = IF s = "stop" THEN {} ELSE atStop
        /\ UNCHANGED <<blockedIPs, refresh, done, blocklist, newList, custom, overlap>>
    BY <1>3 DEF Threat!FailWrite, Threat!memory
  <2>3. /\ writer' \in [Threat!SaveCallers -> WriterType] /\ writer'[s].at = "idle"
        /\ \A t \in Threat!SaveCallers : t # s => writer'[t] = writer[t]
    BY <2>1, <2>2 DEF TInv, ListTypes
  <2>4. ListTypes' /\ ListInv'
    BY <2>2, <2>3 DEF TInv, ListTypes, ListInv, Threat!SaveCallers
  <2>5. DiskInv'
    BY <2>2, <2>3 DEF TInv, DiskInv, OneWriter, Threat!Saving, Threat!Loaded, Threat!SaveCallers
  <2> QED
    BY <2>4, <2>5 DEF TInv
<1>4. CASE Threat!Rename(s)
  <2>1. Threat!NotSaving \in WriterType /\ Threat!NotSaving.at = "idle"
    BY DEF Threat!NotSaving, WriterType
  <2>2. /\ writer[s].at = "rename"
        /\ IF newList = None THEN UNCHANGED <<blocklist, newList>>
                             ELSE blocklist' = newList /\ newList' = None
        /\ UNCHANGED <<blockedIPs, refresh, done, custom, atStop, overlap>>
    BY <1>4 DEF Threat!Rename, Threat!memory, Threat!hist
  <2>3. /\ writer' \in [Threat!SaveCallers -> WriterType] /\ writer'[s].at = "idle"
        /\ \A t \in Threat!SaveCallers : t # s => writer'[t].at = writer[t].at
    <3> DEFINE moved(f) == CASE f = "tmp" -> "file" [] f = "file" -> "gone" [] OTHER -> f
               w(t) == IF t = s THEN Threat!NotSaving
                       ELSE IF newList = None THEN writer[t]
                       ELSE [writer[t] EXCEPT !.fd = moved(@)]
    <3>1. writer' = [t \in Threat!SaveCallers |-> w(t)]
      BY <1>4 DEF Threat!Rename
    <3>2. ASSUME NEW t \in Threat!SaveCallers
          PROVE  w(t) \in WriterType /\ w(s).at = "idle" /\ (t # s => w(t).at = writer[t].at)
      <4>1. writer[t] \in WriterType
        BY DEF TInv, ListTypes
      <4> QED
        BY <2>1, <4>1 DEF WriterType
    <3> HIDE DEF w
    <3> QED
      BY <3>1, <3>2
  <2>4. ListTypes' /\ ListInv'
    BY <2>2, <2>3 DEF TInv, ListTypes, ListInv, Threat!SaveCallers
  <2>5. DiskInv'
    <3> SUFFICES ASSUME ~overlap PROVE DiskInv'
      BY <2>2 DEF DiskInv
    <3>1. \A t \in Threat!SaveCallers : writer'[t].at = "idle"
      BY <2>2, <2>3 DEF TInv, DiskInv, OneWriter, Threat!Saving
    <3>2. newList = writer[s].data /\ writer[s].data \in SUBSET Entries
      BY <1>0, <2>2 DEF TInv, DiskInv, WriterType
    <3>3. blocklist' = writer[s].data /\ blocklist' # None /\ blocklist' # Torn
      BY <2>2, <3>2 DEF FeedsOK
    <3>4. done => atStop \subseteq writer[s].data
      BY <2>2 DEF TInv, DiskInv, Threat!Saving
    <3> QED
      BY <2>2, <3>1, <3>3, <3>4 DEF DiskInv, OneWriter, Threat!Saving, Threat!Loaded
  <2> QED
    BY <2>4, <2>5 DEF TInv
<1> QED
  BY <1>1, <1>2, <1>3, <1>4

\* loadFromDisk after the end of the program.
LEMMA ThreatRestartInv == ASSUME FeedsOK, TInv, Threat!Restart PROVE TInv'
<1>1. /\ Threat!NotSaving \in WriterType /\ Threat!NotSaving.at = "idle"
      /\ Threat!Loaded \in SUBSET Entries
  BY DEF Threat!NotSaving, WriterType, Threat!Loaded, TInv, ListTypes
<1>2. /\ blockedIPs' = Threat!Loaded /\ refresh' = [at |-> "wait", left |-> <<>>] /\ done' = FALSE
      /\ writer' = [s \in Threat!SaveCallers |-> Threat!NotSaving]
      /\ custom' = custom \cap Threat!Loaded /\ atStop' = {}
      /\ UNCHANGED <<blocklist, newList, overlap>>
  BY DEF Threat!Restart
<1>3. /\ writer' \in [Threat!SaveCallers -> WriterType]
      /\ \A s \in Threat!SaveCallers : writer'[s].at = "idle"
  BY <1>1, <1>2
<1>4. refresh'.left \in Seq(Seq(Entries)) /\ refresh' = [at |-> refresh'.at, left |-> refresh'.left]
  BY <1>2
<1>5. ListTypes' /\ ListInv'
  BY <1>1, <1>2, <1>3, <1>4 DEF TInv, ListTypes, ListInv, Threat!SaveCallers
<1>6. DiskInv'
  BY <1>2, <1>3 DEF TInv, DiskInv, OneWriter, Threat!Saving
<1> QED
  BY <1>5, <1>6 DEF TInv

LEMMA ThreatStep == ASSUME FeedsOK, TInv, [Threat!Next]_(Threat!vars) PROVE TInv'
<1>1. CASE Threat!EndRefresh
  <2>1. refresh' = [at |-> IF done THEN "end" ELSE "wait", left |-> refresh.left]
    BY <1>1 DEF Threat!EndRefresh, TInv, ListTypes
  <2> QED
    BY <1>1, <2>1, MemoryStep DEF Threat!EndRefresh, Threat!memory, Threat!hist, TInv, ListTypes, ListInv
<1>2. CASE UNCHANGED Threat!vars
  BY <1>2, MemoryStep DEF Threat!vars, TInv, ListTypes, ListInv
<1> QED
  BY Zenon, <1>1, <1>2, FeedsInv, BlockInv, SaveStartsInv, SaveMovesInv, ThreatRestartInv DEF Threat!Next

LEMMA ThreatCorrect == ASSUME FeedsOK PROVE Threat!Spec => []TInv
  BY ThreatInit, ThreatStep, PTL DEF Threat!Spec

\* BlockIP, RefreshFeeds and loadFromDisk, for any feeds: an address that an administrator
\* blocked is found by CheckIP whatever refreshes and failures come after, and after a
\* restart if it had been saved.
THEOREM CustomCorrect == ASSUME FeedsOK PROVE Threat!Spec => []Threat!CustomBlocked
<1>1. TInv => Threat!CustomBlocked
  BY DEF TInv, ListInv, Threat!CustomBlocked, Threat!CheckIP
<1> QED
  BY <1>1, ThreatCorrect, PTL

\* saveToDisk: unless two saves overlapped, the file that a restart reads can be parsed at
\* every point of a save, and also after one that failed.
THEOREM FileCorrect == ASSUME FeedsOK PROVE Threat!Spec => []Threat!FileWhole
<1>1. TInv => Threat!FileWhole
  BY DEF TInv, DiskInv, Threat!FileWhole
<1> QED
  BY <1>1, ThreatCorrect, PTL

\* Stop: when its save is over without an error and no save overlapped, what
\* administrators had blocked is on disk, also after a later save by the refresher.
THEOREM StopCorrect == ASSUME FeedsOK PROVE Threat!Spec => []Threat!StopPersists
<1>1. TInv => Threat!StopPersists
  BY DEF TInv, DiskInv, Threat!StopPersists
<1> QED
  BY <1>1, ThreatCorrect, PTL
==============================================================================
