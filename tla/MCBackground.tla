--------------------------- MODULE MCBackground ----------------------------
(***************************************************************************)
(* Small instances of what runs before and beside the requests and has to  *)
(* end: the start of the program, the limiter's cleanup, the worker of the *)
(* alerts, and reloads and rotations of secrets.  They share no state, so  *)
(* a behaviour is of one instance: part says which one, and the variables  *)
(* that the instance does not have keep the value Unused.                  *)
(***************************************************************************)
EXTENDS Integers, Sequences, FiniteSets

CONSTANTS Processes

VARIABLES
  part,
  now, stopped, proc,                                                 \* RateLimiter, Alerts
  whitelist, blacklist, visitors, totalVisitors, cleaner, granted, until, raced,  \* RateLimiter
  webhooks, states, alertChan, raised, due, handled, sends,           \* Alerts
  secrets, reloading, reloadCount, calls, key, tokens, events, generated, answers, started,  \* Secrets
  conf, reachable, downs, flaky, starts, pc, pg, redis, failed, manager, limiter, engine, backend,
  at, drawn, tables, accounts, disabled, changed, printed, overlap    \* Startup

stopVars == <<now, stopped, proc>>
rateVars == <<whitelist, blacklist, visitors, totalVisitors, cleaner, granted, until, raced>>
alertVars == <<webhooks, states, alertChan, raised, due, handled, sends>>
secretVars == <<secrets, reloading, reloadCount, calls, key, tokens, events, generated, answers,
                started>>
startVars == <<conf, reachable, downs, flaky, starts, pc, pg, redis, failed, manager, limiter,
               engine, backend, at, drawn, tables, accounts, disabled, changed, printed, overlap>>
vars == <<part, stopVars, rateVars, alertVars, secretVars, startVars>>

Unused == "unused"
NoStop == now = Unused /\ stopped = Unused /\ proc = Unused
NoRate == /\ whitelist = Unused /\ blacklist = Unused /\ visitors = Unused
          /\ totalVisitors = Unused /\ cleaner = Unused /\ granted = Unused
          /\ until = Unused /\ raced = Unused
NoAlerts == /\ webhooks = Unused /\ states = Unused /\ alertChan = Unused /\ raised = Unused
            /\ due = Unused /\ handled = Unused /\ sends = Unused
NoSecrets == /\ secrets = Unused /\ reloading = Unused /\ reloadCount = Unused
             /\ calls = Unused /\ key = Unused /\ tokens = Unused /\ events = Unused
             /\ generated = Unused /\ answers = Unused /\ started = Unused
NoStart == /\ conf = Unused /\ reachable = Unused /\ downs = Unused /\ flaky = Unused
           /\ starts = Unused /\ pc = Unused /\ pg = Unused /\ redis = Unused /\ failed = Unused
           /\ manager = Unused /\ limiter = Unused /\ engine = Unused /\ backend = Unused
           /\ at = Unused /\ drawn = Unused /\ tables = Unused /\ accounts = Unused
           /\ disabled = Unused /\ changed = Unused /\ printed = Unused /\ overlap = Unused

\* Two shards that a cleanup and a Reset("") walk through, and Stop.
Reset == INSTANCE RateLimiter WITH
  Processes <- {"p"}, IPs <- {"a", "b"}, normalizeIP <- [a |-> "a", b |-> "b"], getShard <- [a |-> 1, b |-> 2],
  NumShards <- 2, Endpoints <- {"none"},
  Configs <- [none |-> [RequestsPerMinute |-> 0, BlockDuration |-> 2]], Whitelisted <- {},
  Window <- 1, Second <- 2, Ops <- {"ResetAll", "Stop"}, MaxNow <- 1

Severity == [a1 |-> "high", a2 |-> "low", a3 |-> "odd"]
Type == [a1 |-> "waf", a2 |-> "system", a3 |-> "system"]

\* Three alerts, each raised once, and Stop.
Queue == INSTANCE Alerts WITH
  AlertIds <- {"a1", "a2", "a3"}, Webhooks <- {"slack"},
  MinSeverity <- [slack |-> "medium"], Types <- [slack |-> {}], Enabled <- {"slack"},
  Immediate <- {}, BufferSize <- 2, RetryAttempts <- 1, MaxPerMinute <- 1, MaxPerHour <- 2,
  Minute <- 1, Hour <- 2, Again <- FALSE, MaxNow <- 0

\* The token secret and one more, both set in the environment.
Secret == INSTANCE Secrets WITH
  Callers <- Processes, Types <- {"jwt", "db"}, Env <- [jwt |-> 1, db |-> 2],
  MaxRotations <- 2, MaxReloads <- 2

\* A process that starts, crashes and starts again against servers that go down.
Startup == INSTANCE Startup WITH
  Instances <- {"i"}, DefaultUsers <- <<"admin", "viewer">>, NMigrations <- 2, MaxStarts <- 2,
  MaxDowns <- 1, MaxChanges <- 0

Init ==
  \/ part = "reset" /\ Reset!Init /\ NoAlerts /\ NoSecrets /\ NoStart
  \/ part = "queue" /\ Queue!Init /\ NoRate /\ NoSecrets /\ NoStart
  \/ part = "secret" /\ Secret!Init /\ NoStop /\ NoRate /\ NoAlerts /\ NoStart
  \/ part = "start" /\ Startup!Init /\ NoStop /\ NoRate /\ NoAlerts /\ NoSecrets

\* Only the variables of an instance change.
OfReset(A) == part = "reset" /\ A /\ UNCHANGED <<part, alertVars, secretVars, startVars>>
OfQueue(A) == part = "queue" /\ A /\ UNCHANGED <<part, rateVars, secretVars, startVars>>
OfSecret(A) == part = "secret" /\ A /\ UNCHANGED <<part, stopVars, rateVars, alertVars, startVars>>
OfStart(A) == part = "start" /\ A /\ UNCHANGED <<part, stopVars, rateVars, alertVars, secretVars>>

Next ==
  \/ OfReset(Reset!Next)
  \/ OfQueue(Queue!Next)
  \/ OfSecret(Secret!Next)
  \/ OfStart(Startup!Next)

\* The fairness of RateLimiter, Alerts, Secrets and Startup: a goroutine is scheduled, its
\* select does not pass over a closed stopCh for ever, a handler runs to its end, and so
\* does a step of main, whose connections and pings have timeouts.
FairSpec ==
  /\ Init /\ [][Next]_vars
  /\ WF_vars(OfReset(Reset!Cleaner)) /\ SF_vars(OfReset(Reset!CleanerExits))
  /\ WF_vars(OfQueue(Queue!Worker)) /\ SF_vars(OfQueue(Queue!SeeStop))
  /\ \A c \in Processes : WF_vars(OfSecret(Secret!Steps(c)))
  /\ WF_vars(OfStart(Startup!Step("i")))

\* Type invariant of each instance.
BackgroundTypeOK ==
  CASE part = "reset" -> Reset!TypeOK
    [] part = "queue" -> Queue!TypeOK
    [] part = "secret" -> Secret!TypeOK
    [] part = "start" -> Startup!TypeOK

\* What runs before and beside the requests ends: main gets to serving, unless it crashes,
\* whatever servers are down (see StartsServing in Startup), the goroutine of the cleanup after
\* RateLimiter.Stop, the worker of the alerts (so that AlertService.Stop returns, if no
\* alert is raised for ever), and ReloadAll, so that the next is not refused for ever.
BackgroundEnds ==
  /\ (part = "reset" /\ stopped) ~> (part = "reset" /\ cleaner.at = "done")
  /\ (part = "queue" /\ stopped) ~> (part = "queue" /\ proc["worker"].at = "done")
  /\ (part = "secret" /\ reloading) ~> (part = "secret" /\ ~reloading)
  /\ (part = "start" /\ pc["i"] = "primary") ~> (part = "start" /\ pc["i"] \in {"serving", "off"})

\* Nothing is lost or done twice on the way: what was accepted before AlertService.Stop
\* has been processed when the worker ends, SetSecret numbers versions without a gap
\* and tells of each change once, and one ReloadAll runs at a time (see DrainedAtStop
\* in Alerts, and VersionsExact and OneReload in Secrets).
BackgroundExact ==
  /\ BackgroundTypeOK
  /\ part = "queue" => Queue!DrainedAtStop
  /\ part = "secret" => Secret!VersionsExact /\ Secret!OneReload
=============================================================================
