------------------------------ MODULE Gateway -------------------------------
(***************************************************************************)
(* The gateway of cmd/obsidian/main.go: the stack of middlewares a request *)
(* goes through, the WAF middleware with its deferred clean-up, the        *)
(* counters of the store, of Prometheus and of PostgreSQL, and the         *)
(* shutdown.                                                               *)
(*                                                                         *)
(* Every request runs in its own goroutine; at is where it is.  What a     *)
(* gate decides (IP allowlist, rate limit, GeoIP, threat list, rules) is a *)
(* free choice here: each has a module of its own.  The application may    *)
(* set a status, return or panic.                                          *)
(***************************************************************************)
EXTENDS Integers, FiniteSets

CONSTANTS
  Reqs,       \* requests in flight at the same time
  MaxServed   \* bound: requests accepted

ASSUME ReqsAssumption == IsFiniteSet(Reqs) /\ MaxServed \in Nat

VARIABLES
  req,      \* the requests in flight
  server,   \* "up", the step of the shutdown goroutine, "closed", "exited"
  active,   \* the gauge ActiveRequests
  metric,   \* Prometheus: requests recorded, blocks by rules, blocks by the threat list
  stats,    \* the counters of the store
  db,       \* the counters of PostgreSQL
  served    \* bound: requests accepted so far

vars == <<req, server, active, metric, stats, db, served>>

OK == 200
NotFound == 404
Forbidden == 403
TooMany == 429
ServerError == 500
NoContent == 204

Paths == {"ws", "static", "api"}
NoReq == [at |-> "none", path |-> "api", sent |-> 0, logged |-> 0, tx |-> "none",
          verdict |-> "none", reached |-> FALSE, panicked |-> FALSE]

Init ==
  /\ req = [r \in Reqs |-> NoReq]
  /\ server = "up" /\ active = 0
  /\ metric = [requests |-> 0, waf |-> 0, threat |-> 0]
  /\ stats = [blocked |-> 0, safe |-> 0, flagged |-> 0]
  /\ db = [total |-> 0, blocked |-> 0]
  /\ served = 0

Running == server # "exited"
At(r, label) == Running /\ req[r].at = label
Moves(r, label) == req' = [req EXCEPT ![r].at = label]

\* statusRecorder.WriteHeader: the first status is the one that was sent.
Recorded(old, code) == IF old = 0 THEN code ELSE old

\* A status written below the logging middleware; the server sends the first one.
Answer(q, code) ==
  [q EXCEPT !.sent = IF @ = 0 THEN code ELSE @, !.logged = Recorded(@, code)]
\* A status written by a middleware above it.
Refuse(q, code) == [q EXCEPT !.sent = code]

----------------------------------------------------------------------------
\* The server accepts a request, which gets its id and its security headers.
Accept(r) ==
  /\ server \notin {"closed", "exited"} /\ req[r].at = "none" /\ served < MaxServed
  /\ served' = served + 1
  /\ \E path \in Paths : req' = [req EXCEPT ![r] = [NoReq EXCEPT !.at = "cors", !.path = path]]
  /\ UNCHANGED <<server, active, metric, stats, db>>

\* corsMiddleware: OPTIONS is answered here.
Cors(r) ==
  /\ At(r, "cors")
  /\ \/ Moves(r, "metrics")
     \/ req' = [req EXCEPT ![r] = [Refuse(@, NoContent) EXCEPT !.at = "end"]]
  /\ UNCHANGED <<server, active, metric, stats, db, served>>

\* Metrics.Middleware up to the next handler.
EnterMetrics(r) ==
  /\ At(r, "metrics")
  /\ active' = active + 1
  /\ Moves(r, "allow")
  /\ UNCHANGED <<server, metric, stats, db, served>>

\* A gate lets the request through or answers it itself.
Gate(r, label, next, code) ==
  /\ At(r, label)
  /\ \/ Moves(r, next)
     \/ req' = [req EXCEPT ![r] = [Refuse(@, code) EXCEPT !.at = "record"]]
  /\ UNCHANGED <<server, active, metric, stats, db, served>>

IpAllowlist(r) == Gate(r, "allow", "rate", Forbidden)
RateLimit(r) == Gate(r, "rate", "geo", TooMany)
GeoIP(r) == Gate(r, "geo", "threat", Forbidden)

\* threatIntel.CheckIP; a hit is counted in Prometheus before it is logged.
CheckThreat(r) ==
  /\ At(r, "threat")
  /\ \/ /\ req' = [req EXCEPT ![r].verdict = "threat", ![r].at = "blockLog"]
        /\ metric' = [metric EXCEPT !.threat = @ + 1]
     \/ /\ Moves(r, IF req[r].path = "ws" THEN "app" ELSE "begin")
        /\ UNCHANGED metric
  /\ UNCHANGED <<server, active, stats, db, served>>

\* Where a panic takes the request: to the deferred functions.
PanicTo == "cleanup"

BeginTransaction(r) ==
  /\ At(r, "begin")
  /\ req' = [req EXCEPT ![r].tx = "open", ![r].at = "phase1"]
  /\ UNCHANGED <<server, active, metric, stats, db, served>>

\* Mutant: an interruption of the second phase is not looked at.
InterruptsFirstOnly(label) == label = "phase1"
\* The phases whose interruption stops the request.
Interrupts(label) == label \in {"phase1", "phase2"}

\* ProcessRequestHeaders, ProcessRequestBody: pass, interrupt or panic.
RequestPhase(r, label, next) ==
  /\ At(r, label)
  /\ \/ Moves(r, next) /\ UNCHANGED metric
     \/ /\ req' = [req EXCEPT ![r].tx = "interrupted", ![r].verdict = "deny",
                              ![r].at = IF Interrupts(label) THEN "blockLog" ELSE next]
        /\ metric' = [metric EXCEPT !.waf = IF Interrupts(label) THEN @ + 1 ELSE @]
     \/ req' = [req EXCEPT ![r].panicked = TRUE, ![r].at = PanicTo] /\ UNCHANGED metric
  /\ UNCHANGED <<server, active, stats, db, served>>

RequestHeaders(r) == RequestPhase(r, "phase1", "phase2")
RequestBody(r) == RequestPhase(r, "phase2", "app")

Blocked(st) == [st EXCEPT !.blocked = @ + 1]

\* AddLog of a blocked request: under the lock of the store.
LogBlocked(r) ==
  /\ At(r, "blockLog")
  /\ stats' = Blocked(stats)
  /\ Moves(r, "blockDb")
  /\ UNCHANGED <<server, active, metric, db, served>>

DbOpen == server \in {"up", "services", "save", "dbclose"}

\* Mutant: a closed database is waited for.
DbWaitedFor == FALSE
\* A failing statement returns.
DbMayFail == TRUE

\* IncrementDBStat: a failure is ignored.
CountBlockedDb(r) ==
  /\ At(r, "blockDb")
  /\ \/ DbOpen /\ db' = [db EXCEPT !.blocked = @ + 1]
     \/ DbMayFail /\ UNCHANGED db
  /\ Moves(r, "blockAnswer")
  /\ UNCHANGED <<server, active, metric, stats, served>>

\* The end of processInterruption and of the block by the threat list.
AnswerBlocked(r) ==
  /\ At(r, "blockAnswer")
  /\ req' = [req EXCEPT ![r] = [Answer(@, Forbidden) EXCEPT !.at = "cleanup"]]
  /\ UNCHANGED <<server, active, metric, stats, db, served>>

----------------------------------------------------------------------------
\* next.ServeHTTP: the router and the handlers.
AppWrites(r) ==
  /\ At(r, "app") /\ req[r].sent = 0
  /\ \E code \in {OK, NotFound} :
       req' = [req EXCEPT ![r] = [Answer(@, code) EXCEPT !.reached = TRUE]]
  /\ UNCHANGED <<server, active, metric, stats, db, served>>

AppReturns(r) ==
  /\ At(r, "app")
  /\ req' = [req EXCEPT ![r] = [Answer(@, OK) EXCEPT
       !.reached = TRUE, !.at = IF req[r].path = "ws" THEN "cleanup" ELSE "response"]]
  /\ UNCHANGED <<server, active, metric, stats, db, served>>

AppPanics(r) ==
  /\ At(r, "app")
  /\ req' = [req EXCEPT ![r].reached = TRUE, ![r].panicked = TRUE, ![r].at = PanicTo]
  /\ UNCHANGED <<server, active, metric, stats, db, served>>

\* ProcessResponseHeaders: the response was sent, an interruption changes nothing.
ResponseHeaders(r) ==
  /\ At(r, "response")
  /\ \E tx \in {"open", "interrupted"} :
       req' = [req EXCEPT ![r].tx = tx, ![r].at = IF tx = "open" THEN "safe" ELSE "cleanup"]
  /\ UNCHANGED <<server, active, metric, stats, db, served>>

\* AddSafeLog, or IncrementSafeRequest for a static asset.
LogSafe(r) ==
  /\ At(r, "safe")
  /\ stats' = [stats EXCEPT !.safe = @ + 1]
  /\ Moves(r, "safeDb")
  /\ UNCHANGED <<server, active, metric, db, served>>

CountTotalDb(r) ==
  /\ At(r, "safeDb")
  /\ \/ DbOpen /\ db' = [db EXCEPT !.total = @ + 1]
     \/ DbMayFail /\ UNCHANGED db
  /\ Moves(r, "cleanup")
  /\ UNCHANGED <<server, active, metric, stats, served>>

\* Mutant: without the defer a panic leaves the transaction open.
ClosedUnlessPanic(q) == IF q.panicked THEN q.tx ELSE "none"
\* tx.Close in the deferred function.
ClosedTx(q) == "none"

\* The deferred functions: ProcessLogging, which may write an audit entry to the
\* store, Close, and then the recovery of a panic.
CleanUp(r) ==
  /\ At(r, "cleanup")
  /\ \/ UNCHANGED stats
     \/ req[r].tx # "none" /\ stats' = [stats EXCEPT !.flagged = @ + 1]
  /\ LET q == [req[r] EXCEPT !.tx = ClosedTx(req[r]), !.at = "record"]
     IN req' = [req EXCEPT ![r] = IF q.panicked THEN Answer(q, ServerError) ELSE q]
  /\ UNCHANGED <<server, active, metric, db, served>>

Left(n) == n - 1

\* The logging middleware and the rest of Metrics.Middleware.
Record(r) ==
  /\ At(r, "record")
  /\ active' = Left(active)
  /\ metric' = [metric EXCEPT !.requests = IF req[r].path = "ws" THEN @ ELSE @ + 1]
  /\ Moves(r, "end")
  /\ UNCHANGED <<server, stats, db, served>>

Finish(r) ==
  /\ At(r, "end")
  /\ req' = [req EXCEPT ![r] = NoReq]
  /\ UNCHANGED <<server, active, metric, stats, db, served>>

----------------------------------------------------------------------------
\* The shutdown goroutine: signal, Stop of the services, Save, Close of the
\* database, and Shutdown, which closes the listener.
ShutdownOrder == [up |-> "services", services |-> "save", save |-> "dbclose",
                  dbclose |-> "shutdown", shutdown |-> "closed"]
ShutdownStep ==
  /\ server \in DOMAIN ShutdownOrder
  /\ server' = ShutdownOrder[server]
  /\ UNCHANGED <<req, active, metric, stats, db, served>>

\* ListenAndServe returns as soon as the listener is closed, and main with it.
MainReturns ==
  /\ server = "closed"
  /\ server' = "exited"
  /\ UNCHANGED <<req, active, metric, stats, db, served>>

Step(r) ==
  \/ Cors(r) \/ EnterMetrics(r) \/ IpAllowlist(r) \/ RateLimit(r) \/ GeoIP(r)
  \/ CheckThreat(r) \/ BeginTransaction(r) \/ RequestHeaders(r) \/ RequestBody(r)
  \/ LogBlocked(r) \/ CountBlockedDb(r) \/ AnswerBlocked(r)
  \/ AppReturns(r) \/ AppPanics(r) \/ ResponseHeaders(r)
  \/ LogSafe(r) \/ CountTotalDb(r) \/ CleanUp(r) \/ Record(r) \/ Finish(r)

Next ==
  \/ \E r \in Reqs : Accept(r) \/ AppWrites(r) \/ Step(r)
  \/ ShutdownStep \/ MainReturns

\* The runtime schedules every goroutine and the handlers of the application return.
Fairness == \A r \in Reqs : WF_vars(Step(r))
Spec == Init /\ [][Next]_vars
FairSpec == Spec /\ Fairness

----------------------------------------------------------------------------
Labels == {"none", "cors", "metrics", "allow", "rate", "geo", "threat", "begin", "phase1",
           "phase2", "blockLog", "blockDb", "blockAnswer", "app", "response", "safe", "safeDb",
           "cleanup", "record", "end"}
Codes == {0, OK, NotFound, Forbidden, TooMany, ServerError, NoContent}

\* Type invariant.
TypeOK ==
  /\ req \in [Reqs -> [at : Labels, path : Paths, sent : Codes, logged : Codes,
                       tx : {"none", "open", "interrupted"}, verdict : {"none", "threat", "deny"},
                       reached : BOOLEAN, panicked : BOOLEAN]]
  /\ server \in {"up", "services", "save", "dbclose", "shutdown", "closed", "exited"}
  /\ active \in 0..Cardinality(Reqs) /\ served \in 0..MaxServed

InWaf == {"phase1", "phase2", "blockLog", "blockDb", "blockAnswer", "app", "response", "safe",
          "safeDb", "cleanup"}

\* A request that left the WAF middleware, by an answer, a return or a panic,
\* leaves no open transaction behind.
TransactionsClosed == \A r \in Reqs : req[r].tx # "none" => req[r].at \in InWaf

\* A request a rule or the threat list stopped never reaches the application,
\* and what its client gets is 403.
StoppedNotServed ==
  \A r \in Reqs : req[r].verdict # "none" =>
    /\ ~req[r].reached
    /\ req[r].sent \in {0, Forbidden}
    /\ req[r].at \in {"record", "end"} => req[r].sent = Forbidden

\* The status the access log gets is the one the client got.
LoggedIsSent ==
  \A r \in Reqs : req[r].logged # 0 => req[r].logged = req[r].sent

\* With no request in flight the counters agree: the blocks Prometheus counted
\* are the blocks of the store, PostgreSQL never counted one the store did not,
\* and the gauge of active requests is back at zero.
CountersAgree ==
  /\ db.blocked <= stats.blocked /\ db.total <= stats.safe
  /\ (\A r \in Reqs : req[r].at = "none") =>
       /\ metric.waf + metric.threat = stats.blocked
       /\ active = 0

\* Nothing a request leaves behind is wrong: no open transaction, no status in the log
\* that was not sent, no counter that disagrees with another.
RequestsAccounted == TypeOK /\ TransactionsClosed /\ LoggedIsSent /\ CountersAgree

\* Every request that was accepted is answered, as long as the process runs.
Answered ==
  \A r \in Reqs : (req[r].at # "none") ~> (req[r].at = "none" \/ server = "exited")

\* Claims of the comments that the code does not keep.

\* The shutdown drains the connections: the process does not exit while a request is served.
Drained == server = "exited" => \A r \in Reqs : req[r].at = "none"
=============================================================================
