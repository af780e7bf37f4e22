------------------------------- MODULE Alerts -------------------------------
(***************************************************************************)
(* The alert service (internal/app/alerts/alerts.go): a bounded queue that *)
(* Send never waits for, one worker that hands each alert to the webhooks  *)
(* that want it, retries, throttling by minute and hour, webhooks that are *)
(* added and removed meanwhile, and the draining of the queue at Stop.     *)
(*                                                                         *)
(* Alerts are identities; payload formats and the metrics by type are left *)
(* out.  Callers of SendImmediate go through the same steps as the worker. *)
(***************************************************************************)
EXTENDS Integers, Sequences, FiniteSets

CONSTANTS
  AlertIds, Severity, Type,        \* the alerts, their severity and type
  Webhooks, MinSeverity, Types,    \* webhook names and their filters (Types: {} is all)
  Enabled,                         \* the enabled webhooks
  Immediate,                       \* callers of SendImmediate
  BufferSize, RetryAttempts, MaxPerMinute, MaxPerHour,
  Minute, Hour,                    \* in ticks
  Again,                           \* an alert may be raised again once it is processed
  MaxNow                           \* bound: the last tick

VARIABLES
  now,
  webhooks,  \* the registered webhooks
  states,    \* throttling state of each webhook
  alertChan, \* the queue
  stopped,   \* stopCh is closed
  proc,      \* the worker and the callers of SendImmediate
  raised,    \* the alerts that were raised so far
  due,       \* history: alerts accepted before Stop was called
  handled,   \* history: alerts that were processed
  sends      \* history: successful sends since each webhook's minute began

vars == <<now, webhooks, states, alertChan, stopped, proc, raised, due, handled, sends>>
hist == <<due, handled, sends>>

Procs == {"worker"} \cup Immediate
Levels == [s \in {"info", "low", "medium", "high", "critical"} |->
  CASE s = "info" -> 0 [] s = "low" -> 1 [] s = "medium" -> 2 [] s = "high" -> 3
    [] s = "critical" -> 4]
FreshState == [minuteCount |-> 0, hourCount |-> 0, lastMinute |-> -Hour, lastHour |-> -Hour]
Idle == [at |-> "idle"]

Init ==
  /\ now = 0 /\ webhooks = Webhooks /\ states = [w \in Webhooks |-> FreshState]
  /\ alertChan = <<>> /\ stopped = FALSE
  /\ proc = [p \in Procs |-> Idle]
  /\ raised = {} /\ due = {} /\ handled = {} /\ sends = [w \in Webhooks |-> 0]

\* severityAllowed: a severity without a level filters nothing.
severityAllowed(s, min) ==
  {s, min} \subseteq DOMAIN Levels => Levels[s] >= Levels[min]
typeAllowed(t, types) == types = {} \/ t \in types
Wants(w, a) ==
  /\ w \in Enabled
  /\ severityAllowed(Severity[a], MinSeverity[w]) /\ typeAllowed(Type[a], Types[w])

----------------------------------------------------------------------------
HasRoom == Len(alertChan) < BufferSize

\* Send: the alert is queued if there is room, and refused otherwise.
Send(a) ==
  /\ a \notin raised
  /\ raised' = raised \cup {a}
  /\ \/ /\ HasRoom
        /\ alertChan' = Append(alertChan, a)
        /\ due' = IF stopped THEN due ELSE due \cup {a}
     \/ /\ ~HasRoom
        /\ UNCHANGED <<alertChan, due>>
  /\ UNCHANGED <<now, webhooks, states, stopped, proc, handled, sends>>

Process(p, a, then) ==
  proc' = [proc EXCEPT ![p] = [at |-> "pick", alert |-> a, todo |-> webhooks, then |-> then]]

Receive ==
  /\ proc["worker"].at = "idle" /\ alertChan # <<>>
  /\ Process("worker", Head(alertChan), "idle")
  /\ alertChan' = Tail(alertChan)
  /\ UNCHANGED <<now, webhooks, states, stopped, raised, hist>>

\* Mutant: the rest of the queue is dropped.
DrainsNothing == FALSE
\* The worker has seen stopCh: it takes what is queued and ends when nothing is.
Drains == alertChan # <<>>

StopSeen == stopped

SeeStop ==
  /\ proc["worker"].at = "idle" /\ StopSeen
  /\ proc' = [proc EXCEPT !["worker"] = [at |-> "drain"]]
  /\ UNCHANGED <<now, webhooks, states, alertChan, stopped, raised, hist>>

Drain ==
  /\ proc["worker"].at = "drain"
  /\ \/ /\ Drains
        /\ Process("worker", Head(alertChan), "drain")
        /\ alertChan' = Tail(alertChan)
     \/ /\ ~Drains
        /\ proc' = [proc EXCEPT !["worker"] = [at |-> "done"]]
        /\ UNCHANGED alertChan
  /\ UNCHANGED <<now, webhooks, states, stopped, raised, hist>>

SendImmediate(p, a) ==
  /\ p \in Immediate /\ proc[p] = Idle /\ a \notin raised
  /\ raised' = raised \cup {a}
  /\ Process(p, a, "idle")
  /\ UNCHANGED <<now, webhooks, states, alertChan, stopped, hist>>

----------------------------------------------------------------------------
\* processAlert: the webhooks are copied first and then taken in the order of a map.
Pick(p) ==
  /\ proc[p].at = "pick"
  /\ \/ \E w \in proc[p].todo :
          proc' = [proc EXCEPT ![p] = IF Wants(w, @.alert)
             THEN [at |-> "check", alert |-> @.alert, todo |-> @.todo \ {w}, then |-> @.then,
                   wh |-> w, attempt |-> 0]
             ELSE [@ EXCEPT !.todo = @ \ {w}]]
        /\ UNCHANGED <<handled, raised>>
     \/ /\ proc[p].todo = {}
        /\ proc' = [proc EXCEPT ![p] = [at |-> proc[p].then]]
        /\ handled' = handled \cup {proc[p].alert}
        /\ raised' = IF Again THEN raised \ {proc[p].alert} ELSE raised
  /\ UNCHANGED <<now, webhooks, states, alertChan, stopped, due, sends>>

MinuteOver(st) == now - st.lastMinute >= Minute
HourOver(st) == now - st.lastHour >= Hour
Refreshed(st) ==
  [minuteCount |-> IF MinuteOver(st) THEN 0 ELSE st.minuteCount,
   lastMinute  |-> IF MinuteOver(st) THEN now ELSE st.lastMinute,
   hourCount   |-> IF HourOver(st) THEN 0 ELSE st.hourCount,
   lastHour    |-> IF HourOver(st) THEN now ELSE st.lastHour]
UnderLimit(st) == st.minuteCount < MaxPerMinute /\ st.hourCount < MaxPerHour

\* checkRateLimit: a webhook without a state is not throttled.
CheckRateLimit(p) ==
  /\ proc[p].at = "check"
  /\ LET w == proc[p].wh
     IN IF w \notin DOMAIN states
        THEN /\ proc' = [proc EXCEPT ![p].at = "send"]
             /\ UNCHANGED <<states, sends>>
        ELSE /\ states' = [states EXCEPT ![w] = Refreshed(@)]
             /\ sends' = IF MinuteOver(states[w])
                         THEN [sends EXCEPT ![w] = 0] ELSE sends
             /\ proc' = [proc EXCEPT ![p].at =
                           IF UnderLimit(Refreshed(states[w])) THEN "send" ELSE "pick"]
  /\ UNCHANGED <<now, webhooks, alertChan, stopped, raised, due, handled>>

\* sendToWebhook: an attempt succeeds, or it fails and is repeated.
Attempt(p) ==
  /\ proc[p].at = "send"
  /\ \/ proc' = [proc EXCEPT ![p].at = "count"]
     \/ proc' = [proc EXCEPT ![p].attempt = @ + 1,
                             ![p].at = IF proc[p].attempt < RetryAttempts THEN "send" ELSE "pick"]
  /\ UNCHANGED <<now, webhooks, states, alertChan, stopped, raised, hist>>

\* incrementRateLimitCounters
Count(w) ==
  states' = IF w \notin DOMAIN states THEN states
            ELSE [states EXCEPT ![w].minuteCount = @ + 1, ![w].hourCount = @ + 1]

CountSend(p) ==
  /\ proc[p].at = "count"
  /\ Count(proc[p].wh)
  /\ sends' = IF proc[p].wh \notin DOMAIN states THEN sends
              ELSE [sends EXCEPT ![proc[p].wh] = @ + 1]
  /\ proc' = [proc EXCEPT ![p].at = "pick"]
  /\ UNCHANGED <<now, webhooks, alertChan, stopped, raised, due, handled>>

----------------------------------------------------------------------------
\* AddWebhook replaces the throttling state of a webhook of that name.
AddWebhook(w) ==
  /\ webhooks' = webhooks \cup {w}
  /\ states' = [x \in DOMAIN states \cup {w} |-> IF x = w THEN FreshState ELSE states[x]]
  /\ sends' = [sends EXCEPT ![w] = 0]
  /\ UNCHANGED <<now, alertChan, stopped, proc, raised, due, handled>>

RemoveWebhook(w) ==
  /\ w \in webhooks
  /\ webhooks' = webhooks \ {w}
  /\ states' = [x \in DOMAIN states \ {w} |-> states[x]]
  /\ UNCHANGED <<now, alertChan, stopped, proc, raised, hist>>

Stop ==
  /\ ~stopped
  /\ stopped' = TRUE
  /\ UNCHANGED <<now, webhooks, states, alertChan, proc, raised, hist>>

Tick ==
  /\ now < MaxNow
  /\ now' = now + 1
  /\ UNCHANGED <<webhooks, states, alertChan, stopped, proc, raised, hist>>

Step(p) == Pick(p) \/ CheckRateLimit(p) \/ Attempt(p) \/ CountSend(p)
Worker == Receive \/ SeeStop \/ Drain \/ Step("worker")

Next ==
  \/ Worker \/ Stop \/ Tick
  \/ \E a \in AlertIds : Send(a)
  \/ \E p \in Immediate : Step(p) \/ \E a \in AlertIds : SendImmediate(p, a)
  \/ \E w \in Webhooks : AddWebhook(w) \/ RemoveWebhook(w)

Spec == Init /\ [][Next]_vars

\* The worker is scheduled, and its select does not pass over a closed stopCh for ever.
FairSpec == Spec /\ WF_vars(Worker) /\ SF_vars(SeeStop)

----------------------------------------------------------------------------
\* Type invariant of the service.
TypeOK ==
  /\ webhooks \subseteq Webhooks /\ DOMAIN states = webhooks
  /\ alertChan \in Seq(AlertIds) /\ Len(alertChan) <= BufferSize
  /\ \A w \in webhooks : states[w].minuteCount <= states[w].hourCount
  /\ \A p \in Procs : proc[p].at \in {"idle", "pick", "check", "send", "count", "drain", "done"}
  /\ raised \subseteq AlertIds

\* Within a minute of a webhook's counter no more alerts are sent to it than its
\* limit, and one more for each sender that had passed the check already.
Throttled == \A w \in Webhooks : sends[w] <= MaxPerMinute + Cardinality(Procs) - 1

\* When the worker has ended, every alert that Send accepted before Stop was called
\* has been through processAlert.
DrainedAtStop == proc["worker"].at = "done" => due \subseteq handled

\* Stop returns: the worker ends after stopCh is closed.
StopReturns == stopped ~> (proc["worker"].at = "done")
=============================================================================
