---------------------------- MODULE Transaction ----------------------------
(***************************************************************************)
(* The life of one pooled Transaction object (internal/corazawaf:          *)
(* transaction.go, waf.go): newTransaction, the calls a connector makes    *)
(* for the five phases, the request and response body buffers with their   *)
(* limits, the audit decision, Close, and reuse of the object by a later   *)
(* transaction.                                                            *)
(*                                                                         *)
(* A call either returns at once or enters Rules.Eval (RuleGroup) and      *)
(* returns when the evaluation ends; call says which, ret is what it       *)
(* returned.  Bodies are counted in bytes; the request and the response    *)
(* share the operators below, s being "req" or "res".                      *)
(***************************************************************************)
EXTENDS RuleGroup

CONSTANTS
  Chunks,      \* the sizes of the slices and readers a connector offers
  Statuses,    \* the status codes an upstream response has
  MaxOffered,  \* bound: bytes offered per body
  MaxLogging   \* bound: ProcessLogging calls per transaction

VARIABLES
  open,            \* the object is out of the pool
  call,            \* "none", or the kind of call that is inside Rules.Eval
  ret,             \* what the last call returned: interruption, bytes, error?
  bodyLen,         \* requestBodyBuffer.length, responseBodyBuffer.length
  dataError,       \* INBOUND_DATA_ERROR, OUTBOUND_DATA_ERROR
  bodyError,       \* REQBODY_ERROR, RES_BODY_ERROR
  mimeListed,      \* the response content type is in ResponseBodyMimeTypes
  responseStatus,  \* RESPONSE_STATUS, 0 before it is known
  auditWrites,     \* what ProcessLogging wrote to the audit log
  evals,           \* history: evaluations begun, by phase
  offered,         \* history: bytes the connector offered
  inspected,       \* history: bytes handed to a body processor
  writeFailed      \* history: a write of the body returned an error

bodyVars == <<bodyLen, dataError, bodyError, mimeListed, responseStatus>>
histVars == <<evals, offered, inspected, writeFailed>>
txVars == <<open, call, ret, auditWrites, bodyVars, histVars>>
vars == <<evalVars, txVars>>

Sides == {"req", "res"}
LimitActions == {"Reject", "ProcessPartial"}

\* WAF.Validate, plus what newTransaction copies into a fresh transaction.
ASSUME LimitsAssumption ==
  \A w \in DOMAIN Wafs :
     /\ Wafs[w].conf.RequestBodyLimit > 0 /\ Wafs[w].conf.ResponseBodyLimit > 0
     /\ ~Wafs[w].conf.ForceRequestBodyVariable /\ ~Wafs[w].conf.ForceResponseBodyVariable
     /\ Wafs[w].conf.reqbodyProcessor = "none" /\ Wafs[w].conf.resBodyProcessor = "none"
     /\ Wafs[w].RequestBodyLimitAction \in LimitActions
     /\ Wafs[w].ResponseBodyLimitAction \in LimitActions
     /\ Wafs[w].memLimit \in Nat \ {0}
     /\ Wafs[w].memLimit <= Wafs[w].conf.RequestBodyLimit
     /\ Wafs[w].relevant \subseteq Nat

ASSUME BoundsAssumption ==
  /\ Chunks \subseteq Nat /\ Statuses \subseteq Nat
  /\ MaxOffered \in Nat /\ MaxLogging \in Nat

Init ==
  /\ EvalInit
  /\ open = TRUE
  /\ call = "none" /\ ret = [it |-> Nil, n |-> 0, err |-> "none"]
  /\ bodyLen = [s \in Sides |-> 0]
  /\ dataError = [s \in Sides |-> FALSE]
  /\ bodyError = [s \in Sides |-> FALSE]
  /\ mimeListed = FALSE /\ responseStatus = 0
  /\ auditWrites = <<>>
  /\ evals = [p \in Phases |-> 0]
  /\ offered = [s \in Sides |-> 0]
  /\ inspected = [s \in Sides |-> 0]
  /\ writeFailed = [s \in Sides |-> FALSE]

Idle == open /\ call = "none"
EngineOff == conf.RuleEngine = "Off"

Access(s) == IF s = "req" THEN conf.RequestBodyAccess ELSE conf.ResponseBodyAccess
Limit(s) == IF s = "req" THEN conf.RequestBodyLimit ELSE conf.ResponseBodyLimit
LimitAction(s) == IF s = "req" THEN Waf.RequestBodyLimitAction
                  ELSE Waf.ResponseBodyLimitAction
HeadersPhase(s) == IF s = "req" THEN 1 ELSE 3

Return(it, n, err) == /\ ret' = [it |-> it, n |-> n, err |-> err]
                      /\ call' = "none"

EnterEval(phase, kind) ==
  /\ BeginEval(phase)
  /\ call' = kind
  /\ evals' = [evals EXCEPT ![phase] = @ + 1]

----------------------------------------------------------------------------
\* Feeding headers: only the content types change how a body is handled.
AddRequestHeader ==
  /\ Idle
  /\ conf' = [conf EXCEPT !.reqbodyProcessor = "known"]
  /\ UNCHANGED <<waf, lastPhase, interruption, Skip, SkipAfter, AllowType,
                 ruleRemoveByID, audit, matchedRules, cur, link, origin, jumps>>
  /\ UNCHANGED txVars

AddResponseHeader(listed) ==
  /\ Idle
  /\ mimeListed' = listed
  /\ UNCHANGED <<evalVars, open, call, ret, auditWrites, bodyLen, dataError,
                 bodyError, responseStatus, histVars>>

\* Mutant: headers are processed after an interruption.
NotDueIfRepeated(phase) == lastPhase >= phase

NotDue(phase) == lastPhase >= phase \/ interruption # Nil

\* A Process*Headers call for the given phase.
ProcessHeaders(phase) ==
  /\ Idle
  /\ \/ /\ EngineOff
        /\ Return(Nil, 0, "none")
        /\ UNCHANGED <<evalVars, evals>>
     \/ /\ ~EngineOff /\ NotDue(phase)
        /\ Return(interruption, 0, "none")
        /\ UNCHANGED <<evalVars, evals>>
     \/ /\ ~EngineOff /\ ~NotDue(phase)
        /\ EnterEval(phase, "phase")
        /\ ret' = [it |-> Nil, n |-> 0, err |-> "none"]
  /\ UNCHANGED <<open, auditWrites, bodyLen, dataError, bodyError, mimeListed,
                 offered, inspected, writeFailed>>

ProcessRequestHeaders ==
  /\ ProcessHeaders(1)
  /\ UNCHANGED responseStatus

ProcessResponseHeaders(code) ==
  /\ ProcessHeaders(3)
  /\ responseStatus' = IF call' = "phase" THEN code ELSE responseStatus

----------------------------------------------------------------------------
IsResponseBodyProcessable == conf.ForceResponseBodyVariable \/ mimeListed

\* What the body processor does with a body of len bytes: whether it is read at
\* all, whether it leaves an error variable set, whether the call returns an
\* error.  ForceRequestBodyVariable stands in URLENCODED for a missing processor.
RequestBodyOutcomes(len) ==
  IF ~conf.RequestBodyAccess \/ len = 0
    THEN {[read |-> FALSE, failed |-> FALSE, err |-> "none"]}
  ELSE CASE conf.reqbodyProcessor = "unknown" ->
              {[read |-> FALSE, failed |-> TRUE, err |-> "none"]}
         [] conf.reqbodyProcessor = "known" \/ conf.ForceRequestBodyVariable ->
              {[read |-> TRUE, failed |-> f, err |-> "none"] : f \in BOOLEAN}
         [] OTHER -> {[read |-> FALSE, failed |-> FALSE, err |-> "none"]}

ResponseBodyOutcomes ==
  IF ~conf.ResponseBodyAccess \/ ~IsResponseBodyProcessable
    THEN {[read |-> FALSE, failed |-> FALSE, err |-> "none"]}
  ELSE CASE conf.resBodyProcessor = "unknown" ->
              {[read |-> FALSE, failed |-> TRUE, err |-> "processor"]}
         [] conf.resBodyProcessor = "known" ->
              {[read |-> TRUE, failed |-> f, err |-> "none"] : f \in BOOLEAN}
         [] OTHER -> {[read |-> TRUE, failed |-> FALSE, err |-> "none"]}

\* ProcessRequestBody and ProcessResponseBody on a buffer of len bytes, called by
\* a connector or by the write that reached the limit (n bytes written).
ProcessBody(s, len, n) ==
  \/ /\ EngineOff \/ interruption # Nil \/ lastPhase # HeadersPhase(s)
     /\ Return(IF EngineOff THEN Nil ELSE interruption, n, "none")
     /\ UNCHANGED <<evalVars, bodyError, evals, inspected>>
  \/ /\ ~EngineOff /\ interruption = Nil /\ lastPhase = HeadersPhase(s)
     /\ \E o \in IF s = "req" THEN RequestBodyOutcomes(len) ELSE ResponseBodyOutcomes :
           /\ bodyError' = [bodyError EXCEPT ![s] = @ \/ o.failed]
           /\ inspected' = [inspected EXCEPT ![s] = IF o.read THEN len ELSE @]
           /\ ret' = [it |-> Nil, n |-> n, err |-> o.err]
     /\ EnterEval(HeadersPhase(s) + 1, "phase")

ProcessRequestBody ==
  /\ Idle
  /\ ProcessBody("req", bodyLen["req"], 0)
  /\ UNCHANGED <<open, auditWrites, bodyLen, dataError, mimeListed,
                 responseStatus, offered, writeFailed>>

ProcessResponseBody ==
  /\ Idle
  /\ ProcessBody("res", bodyLen["res"], 0)
  /\ UNCHANGED <<open, auditWrites, bodyLen, dataError, mimeListed,
                 responseStatus, offered, writeFailed>>
----------------------------------------------------------------------------
\* The buffers are made with the limits of the WAF, not of the transaction.
BufferLimit(s) == IF s = "req" THEN Waf.conf.RequestBodyLimit
                  ELSE Waf.conf.ResponseBodyLimit
MemoryLimit(s) == IF s = "req" THEN Waf.memLimit ELSE Waf.conf.ResponseBodyLimit

\* BodyBuffer.Write of n bytes: refused beyond the limit of the buffer; beyond the
\* memory limit the bytes go to a temporary file, which can fail before or after
\* the length is updated.
BufferWrites(s, n) ==
  IF n = 0 THEN {[len |-> bodyLen[s], err |-> "none"]}
  ELSE IF bodyLen[s] + n > BufferLimit(s) THEN {[len |-> bodyLen[s], err |-> "limit"]}
  ELSE {[len |-> bodyLen[s] + n, err |-> "none"]} \cup
       (IF bodyLen[s] + n > MemoryLimit(s)
        THEN {[len |-> l, err |-> "io"] : l \in {bodyLen[s], bodyLen[s] + n}}
        ELSE {})

\* io.CopyN of n bytes into the buffer, chunk after chunk, from a reader that may
\* break before it has delivered all it was asked for.
BufferCopies(s, n, breaks) ==
  IF bodyLen[s] + n > BufferLimit(s)
  THEN {[len |-> l, err |-> "limit"] : l \in bodyLen[s]..BufferLimit(s)}
  ELSE {[len |-> bodyLen[s] + n, err |-> IF breaks THEN "io" ELSE "none"]} \cup
       (IF bodyLen[s] + n > MemoryLimit(s)
        THEN {[len |-> l, err |-> "io"] : l \in bodyLen[s]..(bodyLen[s] + n)}
        ELSE {})

\* Connectors write a body after its headers were processed.
WriteOrder(s) == EngineOff \/ lastPhase >= HeadersPhase(s)

Ignored(s) == EngineOff \/ ~Access(s)
LimitReached(s) == ~Ignored(s) /\ Limit(s) = bodyLen[s]
Room(s) == Limit(s) - bodyLen[s]

IgnoreBody(s) ==
  /\ Ignored(s) \/ LimitReached(s)
  /\ Return(IF ~Ignored(s) /\ LimitAction(s) = "Reject" THEN interruption ELSE Nil, 0, "none")
  /\ UNCHANGED <<evalVars, dataError, bodyError, evals, inspected>>

\* setAndReturnBodyLimitInterruption, whatever the engine mode and whatever
\* interruption there already was.
LimitVerdict(s) == [action |-> "deny", status |-> IF s = "req" THEN 413 ELSE 500, rule |-> 0]

\* Mutant: the verdict is returned but not kept in the transaction.
InterruptLost(it) == UNCHANGED interruption
Interrupt(it) == interruption' = it

RejectBody(s) ==
  /\ dataError' = [dataError EXCEPT ![s] = TRUE]
  /\ Interrupt(LimitVerdict(s))
  /\ Return(LimitVerdict(s), 0, "none")
  /\ UNCHANGED <<waf, conf, lastPhase, Skip, SkipAfter, AllowType, ruleRemoveByID,
                 audit, matchedRules, cur, link, origin, jumps>>
  /\ UNCHANGED <<bodyError, evals, inspected>>

Offer(s, n) ==
  /\ Idle /\ WriteOrder(s)
  /\ offered[s] + n <= MaxOffered
  /\ offered' = [offered EXCEPT ![s] = @ + n]
  /\ UNCHANGED <<open, auditWrites, mimeListed, responseStatus>>

NoteFailure(s) ==
  writeFailed' = [writeFailed EXCEPT ![s] = @ \/ ret'.err \in {"io", "limit"}]

Accepting(s) == ~Ignored(s) /\ ~LimitReached(s)

\* A slice that reaches the limit is cut to the room there is and the body processed.
FillBody(s) ==
  \E b \in BufferWrites(s, Room(s)) :
     /\ dataError' = [dataError EXCEPT ![s] = TRUE]
     /\ bodyLen' = [bodyLen EXCEPT ![s] = b.len]
     /\ \/ /\ b.err # "none"
           /\ Return(Nil, 0, b.err)
           /\ UNCHANGED <<evalVars, bodyError, evals, inspected>>
        \/ b.err = "none" /\ ProcessBody(s, b.len, Room(s))

AppendBody(s, n) ==
  \E b \in BufferWrites(s, n) :
     /\ bodyLen' = [bodyLen EXCEPT ![s] = b.len]
     /\ IF b.err = "none" THEN Return(interruption, n, "none") ELSE Return(Nil, 0, b.err)
     /\ UNCHANGED <<evalVars, dataError, bodyError, evals, inspected>>

\* WriteRequestBody and WriteResponseBody of a slice of n bytes.
WriteBody(s, n) ==
  /\ Offer(s, n)
  /\ \/ IgnoreBody(s) /\ UNCHANGED bodyLen
     \/ /\ Accepting(s) /\ n >= Room(s) /\ LimitAction(s) = "Reject"
        /\ RejectBody(s)
        /\ UNCHANGED bodyLen
     \/ /\ Accepting(s) /\ n >= Room(s) /\ LimitAction(s) = "ProcessPartial"
        /\ FillBody(s)
     \/ /\ Accepting(s) /\ n < Room(s)
        /\ AppendBody(s, n)
  /\ NoteFailure(s)

WriteRequestBody(n) == WriteBody("req", n)
WriteResponseBody(n) == WriteBody("res", n)

\* Copying from a reader with n bytes, at most as many as there is room for.
CopyBody(s, n, sized, breaks) ==
  LET k == IF n < Room(s) THEN n ELSE Room(s)
  IN \E b \in BufferCopies(s, k, breaks /\ n < Room(s)) :
     /\ bodyLen' = [bodyLen EXCEPT ![s] = b.len]
     /\ \/ /\ b.err # "none"
           /\ dataError' = [dataError EXCEPT ![s] = @ \/ (sized /\ n >= Room(s))]
           /\ Return(Nil, b.len - bodyLen[s], b.err)
           /\ UNCHANGED <<evalVars, bodyError, evals, inspected>>
        \/ /\ b.err = "none" /\ b.len < Limit(s)
           /\ Return(interruption, k, "none")
           /\ UNCHANGED <<evalVars, dataError, bodyError, evals, inspected>>
        \/ /\ b.err = "none" /\ b.len = Limit(s) /\ LimitAction(s) = "Reject"
           /\ RejectBody(s)
        \/ /\ b.err = "none" /\ b.len = Limit(s) /\ LimitAction(s) = "ProcessPartial"
           /\ dataError' = [dataError EXCEPT ![s] = TRUE]
           /\ ProcessBody(s, b.len, k)

\* ReadRequestBodyFrom and ReadResponseBodyFrom: a reader that knows its length
\* (sized) is judged by it, another is read up to the limit.
RefusedBySize(s, n, sized) == sized /\ n >= Room(s) /\ LimitAction(s) = "Reject"

ReadBodyFrom(s, n, sized, breaks) ==
  /\ Offer(s, n)
  /\ \/ IgnoreBody(s) /\ UNCHANGED bodyLen
     \/ /\ Accepting(s) /\ RefusedBySize(s, n, sized)
        /\ RejectBody(s)
        /\ UNCHANGED bodyLen
     \/ /\ Accepting(s) /\ ~RefusedBySize(s, n, sized)
        /\ CopyBody(s, n, sized, breaks)
  /\ NoteFailure(s)

ReadRequestBodyFrom(n, sized, breaks) == ReadBodyFrom("req", n, sized, breaks)
ReadResponseBodyFrom(n, sized, breaks) == ReadBodyFrom("res", n, sized, breaks)

----------------------------------------------------------------------------
\* The second half of ProcessLogging.
AuditStatus == IF interruption # Nil THEN interruption.status ELSE responseStatus

Audited ==
  \/ conf.AuditEngine = "On"
  \/ /\ conf.AuditEngine = "RelevantOnly" /\ audit
     /\ Waf.relevant = {} \/ AuditStatus \in Waf.relevant

WriteAudit ==
  auditWrites' = IF Audited
                 THEN Append(auditWrites, [status |-> AuditStatus, verdict |-> interruption])
                 ELSE auditWrites

ProcessLogging ==
  /\ Idle
  /\ evals[Logging] < MaxLogging /\ Len(auditWrites) < MaxLogging
  /\ \/ /\ EngineOff
        /\ WriteAudit
        /\ UNCHANGED <<evalVars, call, evals>>
     \/ /\ ~EngineOff
        /\ EnterEval(Logging, "log")
        /\ UNCHANGED auditWrites
  /\ UNCHANGED <<open, ret, bodyVars, offered, inspected, writeFailed>>

\* One step of the evaluation a call is in.
Evaluating ==
  /\ call # "none"
  /\ EvalStep
  /\ UNCHANGED txVars

\* The evaluation ends and the call returns.
ReturnFromEval ==
  /\ call # "none"
  /\ EndEval
  /\ \/ /\ call = "phase"
        /\ ret' = [ret EXCEPT !.it = interruption]
        /\ UNCHANGED auditWrites
     \/ /\ call = "log"
        /\ WriteAudit
        /\ UNCHANGED ret
  /\ call' = "none"
  /\ UNCHANGED <<open, bodyVars, histVars>>

----------------------------------------------------------------------------
\* Close empties the collections and the buffers and gives the object back.
Close ==
  /\ Idle
  /\ open' = FALSE
  /\ bodyLen' = [s \in Sides |-> 0]
  /\ dataError' = [s \in Sides |-> FALSE]
  /\ bodyError' = [s \in Sides |-> FALSE]
  /\ mimeListed' = FALSE /\ responseStatus' = 0
  /\ conf' = [conf EXCEPT !.reqbodyProcessor = "none", !.resBodyProcessor = "none"]
  /\ UNCHANGED <<waf, lastPhase, interruption, Skip, SkipAfter, AllowType, ruleRemoveByID,
                 audit, matchedRules, cur, link, origin, jumps>>
  /\ UNCHANGED <<call, ret, auditWrites, histVars>>

\* Mutant: the rules excluded by the previous transaction stay excluded.
ClearExclusionsNot == UNCHANGED ruleRemoveByID
ClearExclusions == ruleRemoveByID' = {}

\* newTransaction on an object that comes back from the pool: every field is set
\* again except ForceResponseBodyVariable.
newTransaction ==
  /\ ~open
  /\ open' = TRUE
  /\ conf' = [Waf.conf EXCEPT !.ForceResponseBodyVariable = conf.ForceResponseBodyVariable,
                              !.reqbodyProcessor = conf.reqbodyProcessor,
                              !.resBodyProcessor = conf.resBodyProcessor]
  /\ matchedRules' = <<>> /\ interruption' = Nil /\ ClearExclusions
  /\ SkipAfter' = NoMark /\ Skip' = 0 /\ AllowType' = "unset"
  /\ lastPhase' = 0 /\ audit' = FALSE
  /\ origin' = [skip |-> 0, skipAfter |-> 0, allow |-> 0] /\ jumps' = {}
  /\ ret' = [it |-> Nil, n |-> 0, err |-> "none"] /\ auditWrites' = <<>>
  /\ evals' = [p \in Phases |-> 0]
  /\ offered' = [s \in Sides |-> 0] /\ inspected' = [s \in Sides |-> 0]
  /\ writeFailed' = [s \in Sides |-> FALSE]
  /\ UNCHANGED <<waf, cur, link, call, bodyVars>>

Next ==
  \/ AddRequestHeader
  \/ \E listed \in BOOLEAN : AddResponseHeader(listed)
  \/ ProcessRequestHeaders
  \/ ProcessRequestBody
  \/ \E code \in Statuses : ProcessResponseHeaders(code)
  \/ ProcessResponseBody
  \/ \E n \in Chunks : WriteRequestBody(n)
  \/ \E n \in Chunks : WriteResponseBody(n)
  \/ \E n \in Chunks, sized, breaks \in BOOLEAN : ReadRequestBodyFrom(n, sized, breaks)
  \/ \E n \in Chunks, sized, breaks \in BOOLEAN : ReadResponseBodyFrom(n, sized, breaks)
  \/ ProcessLogging
  \/ Evaluating
  \/ ReturnFromEval
  \/ Close
  \/ newTransaction

\* Rules.Eval runs in the caller's goroutine and never blocks.
Fairness == WF_vars(Evaluating) /\ WF_vars(ReturnFromEval)

Spec == Init /\ [][Next]_vars
FairSpec == Spec /\ Fairness

----------------------------------------------------------------------------
\* Type invariant of the transaction and of the evaluation it may be in.
Returns == [it : Verdicts, n : Nat, err : {"none", "limit", "io", "processor"}]

TypeOK ==
  /\ EvalTypeOK
  /\ cur # 0 <=> call # "none"
  /\ call # "none" => open /\ lastPhase # 0
  /\ open \in BOOLEAN /\ call \in {"none", "phase", "log"} /\ ret \in Returns
  /\ bodyLen \in [Sides -> Nat]
  /\ dataError \in [Sides -> BOOLEAN] /\ bodyError \in [Sides -> BOOLEAN]
  /\ mimeListed \in BOOLEAN /\ responseStatus \in Nat
  /\ evals \in [Phases -> Nat]
  /\ offered \in [Sides -> Nat] /\ inspected \in [Sides -> Nat]
  /\ writeFailed \in [Sides -> BOOLEAN]

\* However a connector orders, repeats or omits its calls, the rules of each of
\* the phases 1 to 4 are evaluated at most once per transaction, and those of a
\* body phase only after those of its headers phase (the lastPhase guards of
\* ProcessRequestHeaders, ProcessRequestBody and their response counterparts).
PhasesOnceInOrder ==
  /\ \A p \in 1..4 : evals[p] <= 1
  /\ evals[2] <= evals[1] /\ evals[4] <= evals[3]

\* Once a rule has denied in phases 1 to 4, no rule of a phase other than logging
\* matches any more, in that phase or in a later one, whatever calls the connector
\* still makes (the interruption tests in Eval and in the Process* functions).
DenyIsFinal ==
  \A i, j \in DOMAIN matchedRules :
     i < j /\ matchedRules[i].denied /\ matchedRules[i].phase # Logging
       => matchedRules[j].phase = Logging

\* Every interruption can be accounted for: it is the body limit's, or it names a
\* rule that MatchRule recorded as having denied this transaction.
VerdictExplained ==
  interruption # Nil =>
     \/ \E s \in Sides : interruption = LimitVerdict(s)
     \/ \E i \in DOMAIN matchedRules :
           matchedRules[i].denied /\ matchedRules[i].id = interruption.rule

\* skip jumps over rules of the phase it was executed in and of no other (Eval
\* clears tx.Skip when it leaves the loop, however it leaves it).
SkipStaysInPhase ==
  \A j \in jumps : j.kind = "skip" => j.at = j.setIn

\* allow:phase ends the phase it was executed in and no other; allow:request ends
\* request phases only.
AllowScope ==
  \A j \in jumps : /\ j.kind = "phase" => j.at = j.setIn
                   /\ j.kind = "request" => j.at \in {1, 2}

\* What skip and allow jump over, of the phase or the request they were executed in.
FlowStaysInPhase == SkipStaysInPhase /\ AllowScope

\* A buffer never holds more than the limit of the transaction, which ctl may have
\* changed on the way, nor more than the limit the buffer was made with.
WithinLimits ==
  \A s \in Sides : bodyLen[s] <= Limit(s) /\ bodyLen[s] <= BufferLimit(s)

\* With SecRequestBodyLimitAction Reject a buffer filled up to the limit means that
\* the transaction is interrupted or that the connector was given a write error;
\* the write functions rely on it when they ignore further data.
RejectIsNotSilent ==
  \A s \in Sides : open /\ LimitReached(s) /\ LimitAction(s) = "Reject"
                     => interruption # Nil \/ writeFailed[s]

\* While a transaction is open an interruption is never withdrawn, and apart from
\* the body limit only a rule of the logging phase replaces one.
VerdictKept ==
  [][open /\ open' /\ interruption # Nil /\ interruption' # interruption
       => \/ \E s \in Sides : interruption' = LimitVerdict(s)
          \/ lastPhase = Logging /\ interruption' # Nil]_vars

\* An object taken back from the pool starts like a new one, apart from
\* ForceResponseBodyVariable, wherever the previous transaction stopped.
ReuseIsFresh ==
  [][~open /\ open' =>
       /\ conf' \in {Waf.conf, [Waf.conf EXCEPT !.ForceResponseBodyVariable = TRUE]}
       /\ bodyLen' = [s \in Sides |-> 0] /\ ~dataError'["req"] /\ ~dataError'["res"]
       /\ interruption' = Nil /\ lastPhase' = 0 /\ ~audit' /\ matchedRules' = <<>>
       /\ Skip' = 0 /\ SkipAfter' = NoMark /\ AllowType' = "unset" /\ ruleRemoveByID' = {}]_vars

\* The transaction implements the contract its interface gives to connectors.
Contract == INSTANCE PhaseContract WITH inUse <- open, phase <- lastPhase,
                                        interrupted <- interruption # Nil
ImplementsContract == Contract!Spec

\* A call that evaluates rules returns: Eval visits every rule at most once.
CallsReturn == (call # "none") ~> (call = "none")

----------------------------------------------------------------------------
\* Claims of comments and documentation that the code does not keep.

\* skipafter.go: skipAfter "works only within the current processing phase".
SkipAfterStaysInPhase ==
  \A j \in jumps : j.kind = "skipAfter" => j.at = j.setIn

\* allow.go: allow skips "all other phases apart from the logging phase".
AllowSparesLogging == \A j \in jumps : j.kind = "all" => j.at # Logging

\* ctl.go: changes made with ctl "affect only the transaction in which the action
\* is executed".
CtlStaysInTransaction == [][~open /\ open' => conf' = Waf.conf]_vars

\* types/transaction.go: a body write is interrupted "if the body is bigger than
\* the limit".
OnlyBiggerBodiesRejected ==
  \A s \in Sides : interruption = LimitVerdict(s) => offered[s] > Limit(s)

\* body_buffer.go: a Write beyond the limit of the buffer "should never happen".
BufferLimitNeverHit == ret.err # "limit"
=============================================================================
