------------------------ MODULE HttpMiddlewareProofs ------------------------
(***************************************************************************)
(* Theorems about HttpMiddleware, for every rule set, every configuration, *)
(* every handler and all sizes of bodies: the connector uses the           *)
(* transaction as Transaction specifies it, a denied request does not      *)
(* reach the handler, and a denied response does not reach the client.     *)
(***************************************************************************)
EXTENDS HttpMiddleware, TransactionProofs

RequestLabels == {"start", "phase1", "phase1Done", "bodyRead", "phase2", "phase2Done"}
\* The goroutine is in the handler or in the interceptor, or has called the
\* transaction from there.
HandlerLabels == {"handler", "phase3", "write", "respond"}
CalledLabels == {"phase3Done", "written", "phase4Done"}
ResponseLabels == HandlerLabels \cup CalledLabels
EndLabels == {"deferred", "logged", "closed"}
Labels == RequestLabels \cup ResponseLabels \cup EndLabels

DeniedRequest == DeniedIn({1, 2})
DeniedResponse == DeniedIn({3, 4})

Untouched == [status |-> 0, bytes |-> 0, length0 |-> FALSE]
NotCalled == [served |-> FALSE, wrote |-> 0, failed |-> FALSE, panicked |-> FALSE]

RequestType == [size : BodySizes, taken : Nat, readable : Nat]
WriterType == [statusCode : Nat \ {0}, wroteHeader : BOOLEAN, isWriteHeaderFlush : BOOLEAN,
               wroteBuffered : BOOLEAN]
PendingType == [kind : {"none", "write"}, n : Nat]
DownType == [status : Nat, bytes : Nat, length0 : BOOLEAN]
HandlerType == [served : BOOLEAN, wrote : 0..MaxWritten, failed : BOOLEAN, panicked : BOOLEAN]

\* The types, with what a step of the connector hands to the transaction.
ConnType ==
  /\ request \in RequestType /\ rw \in WriterType /\ pending \in PendingType
  /\ down \in DownType /\ handler \in HandlerType
  /\ pending.kind = "write" => pending.n \in Slices
  /\ pc \in {"write", "written"} => pending.kind = "write"
  /\ pc = "written" => ret.n <= pending.n
  /\ pc \in {"phase3", "phase3Done"} => rw.statusCode \in Codes \cup {OK} /\ ~rw.wroteHeader

\* Rules are evaluated only while the goroutine waits for the call that began it.
CallInv ==
  /\ pc \in Labels
  /\ open <=> pc # "closed"
  /\ pc \notin {"logged", "closed"} => lastPhase # 5
  /\ call # "none" =>
       \/ pc = "phase1Done" /\ lastPhase = 1 /\ call = "phase"
       \/ pc \in {"bodyRead", "phase2Done"} /\ lastPhase = 2 /\ call = "phase"
       \/ pc = "phase3Done" /\ lastPhase = 3 /\ call = "phase"
       \/ pc \in {"written", "phase4Done"} /\ lastPhase = 4 /\ call = "phase"
       \/ pc = "logged" /\ lastPhase = 5 /\ call = "log"

\* An engine that interrupted the transaction is not switched off before logging.
EngineInv == interruption # Nil /\ lastPhase # Logging => ~EngineOff

\* processRequest: nothing has reached the client or the handler; the verdict is the
\* one the last call returned; what was taken of the body is in the buffer.
RequestInv ==
  /\ pc \in RequestLabels =>
       rw = NewInterceptor /\ down = Untouched /\ handler = NotCalled /\ lastPhase <= 2
  /\ pc \in {"start", "phase1", "phase2"} => interruption = Nil
  /\ pc \in {"start", "phase1"} => lastPhase = 0
  /\ pc \in {"phase1Done", "bodyRead", "phase2Done"} /\ call = "none" => ret.it = interruption
  /\ pc \in {"start", "phase1", "phase1Done"} => bodyLen["req"] = 0 /\ request.taken = 0
  /\ pc = "bodyRead" /\ (call # "none" \/ ret.it = Nil) /\ ret.err = "none"
       => ret.n = bodyLen["req"]
  /\ pc \in {"phase2", "phase2Done"} => request.taken = bodyLen["req"]

\* The handler was called for a request that was let through, with its whole body.
ServedInv ==
  /\ handler.served => /\ ~DeniedRequest /\ interruption # LimitVerdict("req")
                      /\ request.readable = request.size /\ pc \notin RequestLabels
  /\ pc \in ResponseLabels => handler.served /\ ~handler.panicked
  /\ ~handler.served => down.bytes = 0

\* The rules of the response headers were evaluated before a byte was let out.
HeadersEvaluated == evals[3] = 1 \/ (EngineOff /\ call = "none")
HeadersInv ==
  /\ pc \in ResponseLabels /\ (lastPhase >= 3 \/ interruption # Nil) => evals[3] = 1
  /\ pc \in {"write", "written"} \/ rw.wroteHeader \/ bodyLen["res"] > 0 \/ down.bytes > 0
       => HeadersEvaluated
  /\ pc = "phase3Done" => HeadersEvaluated

\* Nothing of the response has been sent.
Unsent == down = Untouched /\ ~rw.isWriteHeaderFlush

\* As long as the body may still be inspected nothing has been sent: what phase 4
\* decides can be carried out.
UnsentInv ==
  /\ pc \in HandlerLabels /\ interruption = Nil =>
       /\ Buffering \/ ~rw.wroteHeader => Unsent
       /\ ~rw.wroteHeader => pc # "write" /\ ~rw.wroteBuffered /\ bodyLen["res"] = 0
  /\ pc \in CalledLabels /\ (call # "none" \/ interruption = Nil) => Unsent /\ ~rw.wroteBuffered
  /\ pc = "phase3Done" /\ interruption = Nil => bodyLen["res"] = 0
  /\ pc = "written" /\ interruption = Nil => rw.wroteHeader
  /\ pc \in {"phase3Done", "phase4Done"} /\ call = "none" => ret.it = interruption
  /\ pc = "written" /\ call = "none" /\ ret.it # Nil => ret.it = interruption

\* The rules that denied the response with deny, and their verdicts.
DenyingRules ==
  {r \in DOMAIN Rules : \E i \in DOMAIN matchedRules :
     /\ matchedRules[i].denied /\ matchedRules[i].phase \in {3, 4}
     /\ Rules[r].id = matchedRules[i].id /\ Rules[r].disruptive = "deny"}
Denials == {Verdict(Rules[r]) : r \in DenyingRules}

\* The client has been sent the status of the rule and an empty body.
VerdictSent ==
  /\ rw.isWriteHeaderFlush /\ down.status # 0 /\ down.length0 /\ down.bytes = 0
  /\ \A v \in Denials : v.status = down.status

\* The call that evaluated the denying rule has not been answered yet.
VerdictDue ==
  /\ pc \in CalledLabels /\ Unsent
  /\ call = "none" => ret.it = interruption
  /\ \A v \in Denials : v = interruption

DenyInv ==
  /\ pc \in ResponseLabels /\ DeniedResponse => VerdictSent \/ VerdictDue
  /\ pc \in EndLabels =>
       /\ DeniedRequest \/ DeniedResponse => down.bytes = 0
       /\ handler.served /\ ~handler.failed /\ ~handler.panicked
            => \A v \in Denials : v.status = ClientStatus

HttpInv ==
  /\ ConnType /\ CallInv /\ EngineInv /\ RequestInv /\ ServedInv /\ HeadersInv
  /\ UnsentInv /\ DenyInv

----------------------------------------------------------------------------
\* What was denied is read off the matches alone.
LEMMA SameMatches ==
  ASSUME UNCHANGED <<waf, matchedRules>>
  PROVE  /\ Denials' = Denials /\ Rules' = Rules
         /\ DeniedRequest' <=> DeniedRequest
         /\ DeniedResponse' <=> DeniedResponse
<1>1. Rules' = Rules
  BY Zenon DEF Rules, Waf
<1>2. Denials' = Denials
  BY <1>1 DEF Denials, DenyingRules, Verdict
<1> QED
  BY Zenon, <1>1, <1>2 DEF DeniedRequest, DeniedResponse, DeniedIn

\* Without an interruption nothing was denied.
LEMMA NothingDenied ==
  ASSUME VerdictInv, interruption = Nil
  PROVE  ~DeniedRequest /\ ~DeniedResponse /\ Denials = {}
<1>1. \A i \in DOMAIN matchedRules : ~(matchedRules[i].denied /\ matchedRules[i].phase \in {1, 2, 3, 4})
  BY DEF VerdictInv, Logging
<1> QED
  BY Zenon, <1>1 DEF DeniedRequest, DeniedResponse, DeniedIn, Denials, DenyingRules

LEMMA DenialsFacts ==
  ASSUME EvalTypeOK
  PROVE  /\ \A v \in Denials : v.action = "deny" /\ v.status \in Nat \ {0}
         /\ Denials # {} => DeniedResponse
<1>1. ASSUME NEW v \in Denials
      PROVE  v.action = "deny" /\ v.status \in Nat \ {0} /\ DeniedResponse
  <2>1. PICK r \in DOMAIN Rules :
           /\ v = Verdict(Rules[r]) /\ Rules[r].disruptive = "deny"
           /\ \E i \in DOMAIN matchedRules :
                matchedRules[i].denied /\ matchedRules[i].phase \in {3, 4}
    BY Zenon, <1>1 DEF Denials, DenyingRules
  <2>2. Rules[r].status \in Nat
    BY Zenon, WafFacts DEF EvalTypeOK, IsRule
  <2>3. v.action = "deny" /\ v.status = IF Rules[r].status = 0 THEN 403 ELSE Rules[r].status
    BY Zenon, <2>1 DEF Verdict
  <2> QED
    BY <2>1, <2>2, <2>3 DEF DeniedResponse, DeniedIn
<1> QED
  BY Zenon, <1>1

----------------------------------------------------------------------------
\* What the connector sees of a call that does not write a body: it returns at once
\* with the verdict there is, or begins the evaluation of phase p.
Calls(p) ==
  /\ open /\ call = "none"
  /\ UNCHANGED <<waf, conf, open, interruption, matchedRules>>
  /\ \/ /\ call' = "none" /\ UNCHANGED <<lastPhase, evals>>
        /\ ret'.it = IF EngineOff THEN Nil ELSE interruption
        /\ p = 3 => EngineOff \/ lastPhase >= 3 \/ interruption # Nil
     \/ /\ call' = "phase" /\ lastPhase' = p /\ link' = 0
        /\ evals' = [evals EXCEPT ![p] = @ + 1] /\ ret'.it = Nil
        /\ interruption = Nil /\ ~EngineOff
        /\ lastPhase < p /\ (p = 4 => lastPhase = 3)

LEMMA HeadersCall ==
  ASSUME TypeOK, NEW p \in {1, 3}, ProcessHeaders(p)
  PROVE  Calls(p) /\ UNCHANGED <<bodyLen, mimeListed>>
<1>0. /\ open /\ call = "none" /\ lastPhase \in 0..5
      /\ UNCHANGED <<open, bodyLen, mimeListed>>
  BY Zenon DEF TypeOK, EvalTypeOK, ProcessHeaders, Idle
<1> USE <1>0
<1>1. CASE EngineOff /\ Return(Nil, 0, "none") /\ UNCHANGED <<evalVars, evals>>
  BY Zenon, <1>1 DEF Return, evalVars, Calls
<1>2. CASE ~EngineOff /\ NotDue(p) /\ Return(interruption, 0, "none") /\ UNCHANGED <<evalVars, evals>>
  BY Zenon, <1>2 DEF Return, evalVars, NotDue, Calls
<1>3. CASE /\ ~EngineOff /\ ~NotDue(p) /\ EnterEval(p, "phase")
           /\ ret' = [it |-> Nil, n |-> 0, err |-> "none"]
  BY <1>3 DEF EnterEval, BeginEval, NotDue, Calls
<1> QED
  BY Zenon, <1>1, <1>2, <1>3 DEF ProcessHeaders

LEMMA BodyCall ==
  ASSUME TypeOK, NEW s \in Sides, NEW len, NEW n, Idle, ProcessBody(s, len, n),
         open' = open
  PROVE  Calls(HeadersPhase(s) + 1) /\ ret'.n = n /\ (call' = "none" => ret'.err = "none")
<1>0. open /\ call = "none" /\ lastPhase \in 0..5 /\ HeadersPhase(s) + 1 \in {2, 4}
  BY DEF TypeOK, EvalTypeOK, Idle, HeadersPhase
<1>1. CASE /\ Return(IF EngineOff THEN Nil ELSE interruption, n, "none")
           /\ UNCHANGED <<evalVars, bodyError, evals, inspected>>
  BY <1>0, <1>1 DEF Return, evalVars, Calls
<1>2. CASE /\ ~EngineOff /\ interruption = Nil /\ lastPhase = HeadersPhase(s)
           /\ \E o \in IF s = "req" THEN RequestBodyOutcomes(len) ELSE ResponseBodyOutcomes :
                 ret' = [it |-> Nil, n |-> n, err |-> o.err]
           /\ EnterEval(HeadersPhase(s) + 1, "phase")
  <2>1. ret'.n = n /\ ret'.it = Nil
    BY <1>2
  <2>2. /\ call' = "phase" /\ lastPhase' = HeadersPhase(s) + 1 /\ link' = 0
        /\ evals' = [evals EXCEPT ![HeadersPhase(s) + 1] = @ + 1]
    BY Zenon, <1>2 DEF EnterEval, BeginEval
  <2>3. UNCHANGED <<waf, conf, interruption, matchedRules>>
    BY Zenon, <1>2 DEF EnterEval, BeginEval
  <2> QED
    BY <1>0, <1>2, <2>1, <2>2, <2>3 DEF Calls, HeadersPhase
<1> QED
  BY Zenon, <1>1, <1>2 DEF ProcessBody

\* What the connector sees of a write of n bytes: they are ignored, refused or
\* buffered, the limit rejects the body, or the body is full and is evaluated.
Writes(s, n) ==
  /\ open /\ call = "none"
  /\ UNCHANGED <<waf, conf, open, matchedRules, mimeListed>>
  /\ ret'.n \in Nat /\ ret'.n <= n
  /\ \A t \in Sides : t # s => bodyLen'[t] = bodyLen[t]
  /\ \/ /\ call' = "none" /\ UNCHANGED <<lastPhase, evals, interruption>>
        /\ ret'.it \in {Nil, interruption}
        /\ ret'.err = "none" => bodyLen'[s] = bodyLen[s] + ret'.n
     \/ /\ call' = "none" /\ UNCHANGED <<lastPhase, evals>>
        /\ ~EngineOff /\ interruption' = LimitVerdict(s) /\ ret'.it = LimitVerdict(s)
     \/ /\ call' = "phase" /\ link' = 0
        /\ lastPhase' = HeadersPhase(s) + 1 /\ lastPhase = HeadersPhase(s)
        /\ evals' = [evals EXCEPT ![HeadersPhase(s) + 1] = @ + 1]
        /\ ~EngineOff /\ interruption = Nil /\ interruption' = Nil /\ ret'.it = Nil
        /\ bodyLen'[s] = bodyLen[s] + ret'.n

LEMMA WritesBuffered ==
  ASSUME TypeOK, NEW s \in Sides, NEW n \in Nat, NEW b \in BufferWrites(s, n), b.err = "none"
  PROVE  b.len = bodyLen[s] + n
<1>1. bodyLen[s] \in Nat
  BY Zenon DEF TypeOK
<1> QED
  BY <1>1 DEF BufferWrites

LEMMA CopiesBuffered ==
  ASSUME NEW s, NEW n, NEW breaks, NEW b \in BufferCopies(s, n, breaks), b.err = "none"
  PROVE  b.len = bodyLen[s] + n
  BY DEF BufferCopies

\* The body is processed by the write that filled the buffer.
LEMMA FullBody ==
  ASSUME TypeOK, Idle, NEW s \in Sides, NEW k \in Nat, NEW n \in Nat, k <= n, NEW len,
         ProcessBody(s, len, k), bodyLen'[s] = bodyLen[s] + k,
         \A t \in Sides : t # s => bodyLen'[t] = bodyLen[t],
         UNCHANGED <<open, mimeListed>>
  PROVE  Writes(s, n)
<1>1. Calls(HeadersPhase(s) + 1) /\ ret'.n = k
  BY Zenon, BodyCall
<1>2. HeadersPhase(s) + 1 \in {2, 4} /\ lastPhase \in 0..5
  BY DEF HeadersPhase, TypeOK, EvalTypeOK
<1>3. call' = "phase" => lastPhase = HeadersPhase(s)
  BY Zenon DEF ProcessBody, Return
<1> QED
  BY Zenon, <1>1, <1>2, <1>3 DEF Calls, Writes

LEMMA WriteCall ==
  ASSUME TypeOK, NEW s \in Sides, NEW n \in Nat, WriteStep(s, n), bodyLen[s] <= Limit(s)
  PROVE  Writes(s, n)
<1>0. /\ Idle /\ open /\ call = "none" /\ UNCHANGED <<open, mimeListed>>
      /\ Room(s) \in Nat /\ bodyLen \in [Sides -> Nat] /\ bodyLen[s] \in Nat
  BY SMTT(30), LimitType DEF TypeOK, Room, WriteStep, WriteBody, ReadBodyFrom, Offer, Idle
<1> USE <1>0
<1>1. CASE IgnoreBody(s) /\ UNCHANGED bodyLen
  <2>1. ret'.n = 0 /\ ret'.it \in {Nil, interruption} /\ call' = "none" /\ UNCHANGED <<evalVars, evals>>
    BY Zenon, <1>1 DEF IgnoreBody, Return
  <2> QED
    BY <1>1, <2>1 DEF evalVars, Writes
<1>2. ASSUME RejectBody(s), Accepting(s), \A t \in Sides : t # s => bodyLen'[t] = bodyLen[t]
      PROVE  Writes(s, n)
  <2>1. ~EngineOff
    BY Zenon, <1>2 DEF Accepting, Ignored
  <2> QED
    BY <1>2, <2>1 DEF RejectBody, Interrupt, Return, Writes
<1>3. CASE n >= Room(s) /\ FillBody(s)
  <2>1. PICK b \in BufferWrites(s, Room(s)) :
           /\ bodyLen' = [bodyLen EXCEPT ![s] = b.len]
           /\ \/ b.err # "none" /\ Return(Nil, 0, b.err) /\ UNCHANGED <<evalVars, evals>>
              \/ b.err = "none" /\ ProcessBody(s, b.len, Room(s))
    BY Zenon, <1>3 DEF FillBody
  <2>2. CASE b.err # "none" /\ Return(Nil, 0, b.err) /\ UNCHANGED <<evalVars, evals>>
    BY <2>1, <2>2 DEF Return, evalVars, Writes
  <2>3. CASE b.err = "none" /\ ProcessBody(s, b.len, Room(s))
    <3>1. b.len = bodyLen[s] + Room(s)
      BY Zenon, <2>3, WritesBuffered
    <3> QED
      BY Zenon, <1>3, <2>1, <2>3, <3>1, FullBody
  <2> QED
    BY Zenon, <2>1, <2>2, <2>3
<1>4. CASE AppendBody(s, n)
  <2>1. PICK b \in BufferWrites(s, n) :
           /\ bodyLen' = [bodyLen EXCEPT ![s] = b.len]
           /\ IF b.err = "none" THEN Return(interruption, n, "none") ELSE Return(Nil, 0, b.err)
           /\ UNCHANGED <<evalVars, evals>>
    BY Zenon, <1>4 DEF AppendBody
  <2>2. b.err = "none" => b.len = bodyLen[s] + n
    BY Zenon, WritesBuffered
  <2> QED
    BY <2>1, <2>2 DEF Return, evalVars, Writes
<1>5. ASSUME NEW sized \in BOOLEAN, NEW breaks \in BOOLEAN, Accepting(s), CopyBody(s, n, sized, breaks)
      PROVE  Writes(s, n)
  <2> DEFINE k == IF n < Room(s) THEN n ELSE Room(s)
             br == breaks /\ n < Room(s)
  <2>0. k \in Nat /\ k <= n /\ br \in BOOLEAN
    OBVIOUS
  <2>1. PICK b \in BufferCopies(s, k, br) :
           /\ bodyLen' = [bodyLen EXCEPT ![s] = b.len]
           /\ \/ /\ b.err # "none" /\ Return(Nil, b.len - bodyLen[s], b.err)
                 /\ UNCHANGED <<evalVars, evals>>
              \/ b.err = "none" /\ Return(interruption, k, "none") /\ UNCHANGED <<evalVars, evals>>
              \/ RejectBody(s)
              \/ b.err = "none" /\ ProcessBody(s, b.len, k)
    BY Zenon, <1>5 DEF CopyBody
  <2> HIDE DEF k, br
  <2>2. /\ b.len - bodyLen[s] \in Nat /\ b.len - bodyLen[s] <= n
        /\ b.err = "none" => b.len = bodyLen[s] + k
    <3>1. b.len \in Nat /\ bodyLen[s] <= b.len /\ b.len <= bodyLen[s] + k
      BY Zenon, <2>0, BufferCopiesType
    <3>2. b.err = "none" => b.len = bodyLen[s] + k
      BY Zenon, CopiesBuffered
    <3> QED
      BY <2>0, <3>1, <3>2
  <2>3. \A t \in Sides : t # s => bodyLen'[t] = bodyLen[t]
    BY Zenon, <2>1
  <2>4. bodyLen'[s] = b.len
    BY Zenon, <2>1
  <2>5. CASE b.err # "none" /\ Return(Nil, b.len - bodyLen[s], b.err) /\ UNCHANGED <<evalVars, evals>>
    BY Zenon, <2>2, <2>3, <2>5 DEF Return, evalVars, Writes
  <2>6. CASE b.err = "none" /\ Return(interruption, k, "none") /\ UNCHANGED <<evalVars, evals>>
    BY Zenon, <2>0, <2>2, <2>3, <2>4, <2>6 DEF Return, evalVars, Writes
  <2>7. CASE RejectBody(s)
    BY Zenon, <1>2, <1>5, <2>3, <2>7
  <2>8. CASE b.err = "none" /\ ProcessBody(s, b.len, k)
    BY Zenon, <2>0, <2>2, <2>3, <2>4, <2>8, FullBody
  <2> QED
    BY Zenon, <2>1, <2>5, <2>6, <2>7, <2>8
<1> QED
  BY Zenon, <1>1, <1>2, <1>3, <1>4, <1>5 DEF WriteStep, WriteBody, ReadBodyFrom

----------------------------------------------------------------------------
LEMMA ConnFacts ==
  /\ \A size \in BodySizes : size \in Nat /\ size \in Chunks
  /\ \A n \in Slices : n \in Nat /\ n # 0 /\ n \in Chunks
  /\ \A code \in Codes \cup {OK} : code \in Nat \ {0} /\ code \in Statuses
  /\ MaxWritten \in Nat
<1>1. OK \in Nat \ {0}
  BY DEF OK
<1>2. MaxWritten \in Nat
  BY ConnectorAssumption, BoundsAssumption
<1> QED
  BY Zenon, <1>1, <1>2, ConnectorAssumption

\* The connector calls the transaction only in ways Transaction allows.
LEMMA HttpStepRefines ==
  ASSUME ConnType, [HttpNext]_allVars
  PROVE  [Next]_vars
<1>1. CASE UNCHANGED allVars
  BY Zenon, <1>1 DEF allVars
<1>2. CASE InCall
  BY Zenon, <1>2 DEF InCall, Next
<1>3. CASE NextRequest
  BY Zenon, <1>3 DEF NextRequest, Next
<1>4. CASE Handler
  BY Zenon, <1>4 DEF Handler, HandlerWriteHeader, HandlerWrite, HandlerFlush, HandlerReturns, HandlerPanics,
     BeginWriteHeader, Next
<1>5. CASE CallReadBody
  <2>1. PICK breaks \in BOOLEAN : ReadRequestBodyFrom(request.size, FALSE, breaks)
    BY Zenon, <1>5 DEF CallReadBody
  <2>2. request.size \in Chunks
    BY Zenon, ConnFacts DEF ConnType, RequestType
  <2> QED
    BY Zenon, <2>1, <2>2 DEF Next
<1>6. CASE CallResponseHeaders
  <2>1. rw.statusCode \in Statuses /\ ProcessResponseHeaders(rw.statusCode)
    BY Zenon, <1>6, ConnFacts DEF CallResponseHeaders, ConnType
  <2> QED
    BY Zenon, <2>1 DEF Next
<1>7. CASE CallWriteBody
  <2>1. pending.n \in Chunks /\ WriteResponseBody(pending.n)
    BY Zenon, <1>7, ConnFacts DEF CallWriteBody, ConnType
  <2> QED
    BY Zenon, <2>1 DEF Next
<1>8. CASE Middleware /\ ~CallReadBody /\ ~CallResponseHeaders /\ ~CallWriteBody
  BY Zenon, <1>8 DEF Middleware, ServeRaw, ProcessRequest, CallRequestHeaders, KeepBody, CallRequestBody,
     RefuseRequest, FailRequest, Serve, BlockHeader, PassHeader, WriteDirect, BlockBody, EndWrite, Overflow,
     CallResponseBody, RespondWithoutBody, Respond, CallLogging, CallClose, Next
<1> QED
  BY Zenon, <1>1, <1>2, <1>3, <1>4, <1>5, <1>6, <1>7, <1>8 DEF HttpNext

\* What does not change when the transaction does not.
LEMMA QuietFacts ==
  ASSUME UNCHANGED vars
  PROVE  /\ UNCHANGED <<waf, conf, open, call, ret, lastPhase, interruption, evals, bodyLen>>
         /\ UNCHANGED <<matchedRules, mimeListed>>
         /\ Denials' = Denials
         /\ (DeniedRequest' <=> DeniedRequest) /\ (DeniedResponse' <=> DeniedResponse)
         /\ EngineOff' <=> EngineOff
         /\ EngineInv' <=> EngineInv
         /\ HeadersEvaluated' <=> HeadersEvaluated
<1>1. /\ UNCHANGED <<waf, conf, open, call, ret, lastPhase, interruption, evals, bodyLen>>
      /\ UNCHANGED <<matchedRules, mimeListed>>
  BY Zenon DEF vars, evalVars, txVars, bodyVars, histVars
<1> QED
  BY Zenon, <1>1, SameMatches DEF EngineOff, EngineInv, HeadersEvaluated

\* Updates that keep the records of the connector well formed.
LEMMA RequestUpdate ==
  ASSUME NEW q \in RequestType, NEW n \in Nat
  PROVE  [q EXCEPT !.readable = n] \in RequestType /\ [q EXCEPT !.taken = n] \in RequestType
  BY Zenon DEF RequestType

LEMMA HandlerUpdate ==
  ASSUME NEW h \in HandlerType, NEW b \in BOOLEAN
  PROVE  /\ [h EXCEPT !.served = b] \in HandlerType /\ [h EXCEPT !.failed = b] \in HandlerType
         /\ [h EXCEPT !.panicked = b] \in HandlerType
  BY Zenon DEF HandlerType

LEMMA ConnFields ==
  ASSUME ConnType
  PROVE  /\ request.size \in BodySizes /\ request.size \in Nat
         /\ request.taken \in Nat /\ request.readable \in Nat
         /\ rw.statusCode \in Nat \ {0} /\ pending.n \in Nat
         /\ down.status \in Nat /\ down.bytes \in Nat
         /\ handler.wrote \in 0..MaxWritten /\ handler.wrote \in Nat
  BY ConnFacts DEF ConnType, RequestType, WriterType, PendingType, DownType, HandlerType

LEMMA ServeRawInv ==
  ASSUME Inv, HttpInv, ServeRaw
  PROVE  HttpInv'
<1> USE DEF HttpInv, RequestLabels, HandlerLabels, CalledLabels, ResponseLabels, EndLabels
<1> USE QuietFacts
<1>0. /\ pc = "start" /\ pc' = "deferred" /\ EngineOff
      /\ request' = [request EXCEPT !.readable = request.size]
      /\ handler' = [handler EXCEPT !.served = TRUE]
      /\ UNCHANGED <<vars, rw, pending, down>>
  BY Zenon DEF ServeRaw, Goto
<1> USE <1>0
<1>a. /\ interruption = Nil /\ ~DeniedRequest /\ ~DeniedResponse /\ Denials = {}
      /\ rw = NewInterceptor /\ down = Untouched /\ handler = NotCalled
  BY Zenon, NothingDenied DEF Inv, RequestInv
<1> USE <1>a
<1>1. ConnType'
  <2>1. request' \in RequestType
    BY Zenon, ConnFields, RequestUpdate DEF ConnType
  <2>2. handler' \in HandlerType
    BY Zenon, HandlerUpdate DEF ConnType
  <2> QED
    BY Zenon, <2>1, <2>2 DEF ConnType
<1>2. CallInv'
  BY Zenon DEF CallInv, Labels
<1>3. RequestInv'
  BY Zenon DEF RequestInv
<1>4. ServedInv'
  BY Zenon, LimitVerdictNotNil DEF ServedInv, ConnType, RequestType, HandlerType, Untouched, Sides
<1>5. HeadersInv'
  BY Zenon DEF HeadersInv
<1>6. UnsentInv' /\ EngineInv'
  BY Zenon DEF UnsentInv
<1>7. DenyInv'
  BY Zenon DEF DenyInv
<1> QED
  BY Zenon, <1>1, <1>2, <1>3, <1>4, <1>5, <1>6, <1>7

----------------------------------------------------------------------------
\* While processRequest runs the response is untouched.
LEMMA RequestSide ==
  ASSUME Inv', CallInv', RequestInv', pc' \in RequestLabels
  PROVE  ServedInv' /\ HeadersInv' /\ UnsentInv' /\ DenyInv'
<1> USE DEF RequestLabels, HandlerLabels, CalledLabels, ResponseLabels, EndLabels
<1>1. rw' = NewInterceptor /\ down' = Untouched /\ handler' = NotCalled
  BY Zenon DEF RequestInv
<1>2. bodyLen'["res"] = 0
  <2>1. open' /\ lastPhase' <= 2 /\ lastPhase' \in 0..5
    BY Zenon DEF CallInv, RequestInv, Inv, TypeOK, EvalTypeOK
  <2>2. NothingBuffered("res")'
    BY <2>1 DEF NothingBuffered, HeadersPhase
  <2> QED
    BY Zenon, <2>2 DEF Inv, BodyInv, Sides
<1>3. ~rw'.wroteHeader /\ down'.bytes = 0 /\ ~handler'.served
  BY Zenon, <1>1 DEF NewInterceptor, Untouched, NotCalled
<1> QED
  BY <1>2, <1>3 DEF ServedInv, HeadersInv, UnsentInv, DenyInv

LEMMA ProcessRequestInv ==
  ASSUME Inv, HttpInv, Inv', ProcessRequest
  PROVE  HttpInv'
<1> USE DEF RequestLabels, HandlerLabels, CalledLabels, ResponseLabels, EndLabels
<1>0. /\ pc = "start" /\ pc' = "phase1" /\ UNCHANGED <<request, rw, pending, down, handler>>
      /\ AddRequestHeader \/ UNCHANGED vars
  BY Zenon DEF ProcessRequest, Goto
<1> USE <1>0
<1>1. UNCHANGED <<open, call, ret, lastPhase, interruption, bodyLen>>
  BY Zenon, QuietFacts DEF AddRequestHeader, txVars, bodyVars
<1>2. ConnType'
  BY Zenon DEF HttpInv, ConnType
<1>3. CallInv'
  BY Zenon, <1>1 DEF HttpInv, CallInv, Labels
<1>4. RequestInv'
  BY Zenon, <1>1 DEF HttpInv, RequestInv
<1>5. EngineInv'
  BY Zenon, <1>1 DEF HttpInv, RequestInv, EngineInv
<1> QED
  BY Zenon, <1>2, <1>3, <1>4, <1>5, RequestSide DEF HttpInv

LEMMA CallRequestHeadersInv ==
  ASSUME Inv, HttpInv, Inv', CallRequestHeaders
  PROVE  HttpInv'
<1> USE DEF RequestLabels, HandlerLabels, CalledLabels, ResponseLabels, EndLabels
<1>0. /\ pc = "phase1" /\ pc' = "phase1Done" /\ UNCHANGED <<request, rw, pending, down, handler>>
      /\ ProcessHeaders(1)
  BY Zenon DEF CallRequestHeaders, ProcessRequestHeaders, Goto
<1> USE <1>0
<1>1. Calls(1) /\ bodyLen' = bodyLen
  BY Zenon, HeadersCall DEF Inv
<1>2. interruption = Nil /\ lastPhase = 0
  BY Zenon DEF HttpInv, RequestInv
<1>3. ConnType'
  BY Zenon DEF HttpInv, ConnType
<1>4. CallInv'
  BY <1>1 DEF HttpInv, CallInv, Labels, Calls
<1>5. RequestInv'
  BY <1>1, <1>2 DEF HttpInv, RequestInv, Calls
<1>6. EngineInv'
  BY Zenon, <1>1, <1>2 DEF EngineInv, Calls
<1> QED
  BY Zenon, <1>3, <1>4, <1>5, <1>6, RequestSide DEF HttpInv

LEMMA CallReadBodyInv ==
  ASSUME Inv, HttpInv, Inv', CallReadBody
  PROVE  HttpInv'
<1> USE DEF RequestLabels, HandlerLabels, CalledLabels, ResponseLabels, EndLabels
<1>0. /\ pc = "phase1Done" /\ call = "none" /\ ret.it = Nil /\ pc' = "bodyRead"
      /\ UNCHANGED <<request, rw, pending, down, handler>>
      /\ \E breaks \in BOOLEAN : ReadRequestBodyFrom(request.size, FALSE, breaks)
  BY Zenon DEF CallReadBody, Returned, Goto
<1> USE <1>0
<1>1. Writes("req", request.size)
  <2>1. "req" \in Sides /\ request.size \in Nat /\ FALSE \in BOOLEAN
    BY Zenon, ConnFields DEF HttpInv, Sides
  <2>2. WriteStep("req", request.size)
    BY Zenon, <2>1 DEF WriteStep, ReadRequestBodyFrom
  <2>3. bodyLen["req"] <= Limit("req") /\ TypeOK
    BY Zenon, <2>1 DEF Inv, BodyInv, WithinLimits
  <2> QED
    BY Zenon, <2>1, <2>2, <2>3, WriteCall
<1>2. interruption = Nil /\ bodyLen["req"] = 0 /\ lastPhase <= 2 /\ request.taken = 0
  BY Zenon DEF HttpInv, RequestInv
<1>3. ConnType'
  BY Zenon DEF HttpInv, ConnType
<1>4. CallInv'
  BY <1>1 DEF HttpInv, CallInv, Labels, Writes, HeadersPhase
<1>5. RequestInv'
  <2>1. ret'.it = interruption' \/ call' # "none"
    BY Zenon, <1>1, <1>2 DEF Writes
  <2>2. (call' # "none" \/ ret'.it = Nil) /\ ret'.err = "none" => ret'.n = bodyLen'["req"]
    BY <1>1, <1>2, LimitVerdictNotNil DEF Writes, Sides
  <2>3. lastPhase' <= 2
    BY <1>1, <1>2 DEF Writes, HeadersPhase
  <2> QED
    BY Zenon, <1>2, <2>1, <2>2, <2>3 DEF HttpInv, RequestInv
<1>6. EngineInv'
  BY Zenon, <1>1, <1>2 DEF EngineInv, Writes, EngineOff
<1> QED
  BY Zenon, <1>3, <1>4, <1>5, <1>6, RequestSide DEF HttpInv

LEMMA KeepBodyInv ==
  ASSUME Inv, HttpInv, Inv', KeepBody
  PROVE  HttpInv'
<1> USE DEF RequestLabels, HandlerLabels, CalledLabels, ResponseLabels, EndLabels
<1>0. /\ pc = "bodyRead" /\ call = "none" /\ ret.it = Nil /\ ret.err = "none" /\ pc' = "phase2"
      /\ request' = [request EXCEPT !.taken = ret.n]
      /\ UNCHANGED <<vars, rw, pending, down, handler>>
  BY Zenon DEF KeepBody, Returned, Goto
<1> USE <1>0
<1>1. ret.n \in Nat /\ request \in RequestType
  BY Zenon DEF Inv, TypeOK, Returns, HttpInv, ConnType
<1>2. interruption = Nil /\ ret.n = bodyLen["req"]
  BY Zenon DEF HttpInv, RequestInv
<1>3. request' \in RequestType /\ request'.taken = ret.n
  BY Zenon, <1>1 DEF RequestType
<1>4. ConnType'
  BY Zenon, <1>3 DEF HttpInv, ConnType
<1>5. CallInv' /\ EngineInv'
  BY Zenon, QuietFacts DEF HttpInv, CallInv, Labels
<1>6. RequestInv'
  BY Zenon, <1>2, <1>3, QuietFacts DEF HttpInv, RequestInv
<1> QED
  BY Zenon, <1>4, <1>5, <1>6, RequestSide DEF HttpInv

LEMMA CallRequestBodyInv ==
  ASSUME Inv, HttpInv, Inv', CallRequestBody
  PROVE  HttpInv'
<1> USE DEF RequestLabels, HandlerLabels, CalledLabels, ResponseLabels, EndLabels
<1>0. /\ pc = "phase2" \/ (pc = "phase1Done" /\ call = "none" /\ ret.it = Nil)
      /\ pc' = "phase2Done" /\ UNCHANGED <<request, rw, pending, down, handler, open, bodyLen>>
      /\ Idle /\ ProcessBody("req", bodyLen["req"], 0)
  BY Zenon DEF CallRequestBody, ProcessRequestBody, Returned, Goto
<1> USE <1>0
<1>1. Calls(2)
  BY BodyCall DEF Inv, Sides, HeadersPhase
<1>2. interruption = Nil /\ lastPhase <= 2 /\ request.taken = bodyLen["req"]
  BY Zenon DEF HttpInv, RequestInv
<1>3. ConnType'
  BY Zenon DEF HttpInv, ConnType
<1>4. CallInv'
  BY <1>1 DEF HttpInv, CallInv, Labels, Calls
<1>5. RequestInv'
  BY <1>1, <1>2 DEF HttpInv, RequestInv, Calls
<1>6. EngineInv'
  BY Zenon, <1>1, <1>2 DEF EngineInv, Calls
<1> QED
  BY Zenon, <1>3, <1>4, <1>5, <1>6, RequestSide DEF HttpInv

LEMMA NextRequestInv ==
  ASSUME Inv, HttpInv, Inv', NextRequest
  PROVE  HttpInv'
<1> USE DEF RequestLabels, HandlerLabels, CalledLabels, ResponseLabels, EndLabels
<1>0. /\ pc = "closed" /\ pc' = "start" /\ newTransaction
      /\ \E size \in BodySizes : Fresh(size)
  BY Zenon DEF NextRequest, Goto
<1> USE <1>0
<1>1. /\ open' /\ interruption' = Nil /\ lastPhase' = 0 /\ call' = call
  BY Zenon DEF newTransaction
<1>2. call = "none"
  BY Zenon DEF HttpInv, CallInv
<1>3. bodyLen'["req"] = 0
  BY <1>1 DEF Inv, BodyInv, NothingBuffered, HeadersPhase, Sides
<1>4. /\ request' \in RequestType /\ request'.taken = 0
      /\ rw' = NewInterceptor /\ pending' = Nothing /\ down' = Untouched /\ handler' = NotCalled
  BY DEF Fresh, RequestType, Untouched, NotCalled
<1>5. ConnType'
  <2>1. 0 \in 0..MaxWritten
    BY ConnFacts
  <2> QED
    BY <1>4, <2>1 DEF ConnType, WriterType, PendingType, DownType, HandlerType, NewInterceptor, Nothing,
       Untouched, NotCalled, OK
<1>6. CallInv' /\ EngineInv'
  BY <1>1, <1>2 DEF CallInv, Labels, EngineInv
<1>7. RequestInv'
  BY <1>1, <1>3, <1>4 DEF RequestInv
<1> QED
  BY Zenon, <1>5, <1>6, <1>7, RequestSide DEF HttpInv

----------------------------------------------------------------------------
\* What the operators that write to the client do to its side.
LEMMA SendStatusFacts ==
  ASSUME NEW d \in DownType, NEW status \in Nat \ {0}, NEW empty \in BOOLEAN
  PROVE  /\ SendStatus(d, status, empty) \in DownType
         /\ SendStatus(d, status, empty).bytes = d.bytes
         /\ SendStatus(d, status, empty).status # 0
         /\ d.status # 0 => SendStatus(d, status, empty) = d
         /\ d.status = 0 => /\ SendStatus(d, status, empty).status = status
                            /\ SendStatus(d, status, empty).length0 = empty
<1>1. CASE d.status # 0
  BY Zenon, <1>1 DEF SendStatus, DownType
<1>2. CASE d.status = 0
  <2>1. SendStatus(d, status, empty) = [d EXCEPT !.status = status, !.length0 = empty]
    BY Zenon, <1>2 DEF SendStatus
  <2>2. [d EXCEPT !.status = status, !.length0 = empty] \in DownType
    BY Zenon DEF DownType
  <2>3. /\ [d EXCEPT !.status = status, !.length0 = empty].bytes = d.bytes
        /\ [d EXCEPT !.status = status, !.length0 = empty].status = status
        /\ [d EXCEPT !.status = status, !.length0 = empty].length0 = empty
    BY Zenon DEF DownType
  <2> QED
    BY Zenon, <1>2, <2>1, <2>2, <2>3
<1> QED
  BY Zenon, <1>1, <1>2

LEMMA SendBytesFacts ==
  ASSUME NEW d \in DownType, NEW n \in Nat
  PROVE  /\ SendBytes(d, n) \in DownType
         /\ SendBytes(d, n).bytes > 0 => d.bytes > 0 \/ n > 0
         /\ d.status # 0 /\ d.length0 => SendBytes(d, n) = d
<1> DEFINE e == SendStatus(d, OK, FALSE)
<1>1. e \in DownType /\ e.bytes = d.bytes /\ (d.status # 0 => e = d)
  <2>1. OK \in Nat \ {0}
    BY DEF OK
  <2> QED
    BY Zenon, <2>1, SendStatusFacts
<1>2. SendBytes(d, n) = IF e.length0 \/ e.status \in BodylessCodes THEN e ELSE [e EXCEPT !.bytes = @ + n]
  BY Zenon DEF SendBytes
<1> HIDE DEF e
<1>3. [e EXCEPT !.bytes = @ + n] \in DownType /\ [e EXCEPT !.bytes = @ + n].bytes = d.bytes + n
  BY <1>1 DEF DownType
<1>4. d.bytes \in Nat
  BY Zenon DEF DownType
<1>5. CASE e.length0 \/ e.status \in BodylessCodes
  BY Zenon, <1>1, <1>2, <1>5
<1>6. CASE ~(e.length0 \/ e.status \in BodylessCodes)
  BY <1>1, <1>2, <1>3, <1>4, <1>6
<1> QED
  BY Zenon, <1>5, <1>6

LEMMA WriterUpdate ==
  ASSUME NEW r \in WriterType, NEW b \in BOOLEAN, NEW code \in Nat \ {0}
  PROVE  /\ [r EXCEPT !.isWriteHeaderFlush = b] \in WriterType
         /\ [r EXCEPT !.wroteBuffered = b] \in WriterType
         /\ [r EXCEPT !.wroteHeader = b] \in WriterType
         /\ [r EXCEPT !.statusCode = code] \in WriterType
  BY Zenon DEF WriterType

LEMMA FlushHeaderFacts ==
  ASSUME NEW r \in WriterType
  PROVE  /\ FlushHeader(r) \in WriterType /\ FlushHeader(r).isWriteHeaderFlush
         /\ FlushHeader(r).statusCode = r.statusCode
         /\ FlushHeader(r).wroteHeader = r.wroteHeader
         /\ FlushHeader(r).wroteBuffered = r.wroteBuffered
<1>1. FlushHeader(r) \in WriterType
  BY Zenon DEF FlushHeader, WriterType
<1>2. FlushHeader(r).isWriteHeaderFlush = TRUE
  BY Zenon DEF FlushHeader, WriterType
<1>3. /\ FlushHeader(r).statusCode = r.statusCode
      /\ FlushHeader(r).wroteHeader = r.wroteHeader
      /\ FlushHeader(r).wroteBuffered = r.wroteBuffered
  BY Zenon DEF FlushHeader, WriterType
<1> QED
  BY Zenon, <1>1, <1>2, <1>3

LEMMA FlushDownFacts ==
  ASSUME NEW r \in WriterType, NEW d \in DownType, NEW empty \in BOOLEAN
  PROVE  /\ FlushDown(d, r, empty) \in DownType /\ FlushDown(d, r, empty).bytes = d.bytes
         /\ r.isWriteHeaderFlush => FlushDown(d, r, empty) = d
         /\ ~r.isWriteHeaderFlush /\ d.status = 0
              => FlushDown(d, r, empty).status = r.statusCode /\ FlushDown(d, r, empty).length0 = empty
<1>1. r.statusCode \in Nat \ {0}
  BY Zenon DEF WriterType
<1> DEFINE e == SendStatus(d, r.statusCode, empty)
<1>2. /\ e \in DownType /\ e.bytes = d.bytes
      /\ d.status = 0 => e.status = r.statusCode /\ e.length0 = empty
  BY <1>1, SendStatusFacts
<1>3. FlushDown(d, r, empty) = IF r.isWriteHeaderFlush THEN d ELSE e
  BY Zenon DEF FlushDown
<1> HIDE DEF e
<1> QED
  BY Zenon, <1>2, <1>3

LEMMA StatusOfFacts ==
  ASSUME NEW it \in Verdicts, NEW default \in Nat \ {0}
  PROVE  /\ StatusOf(it, default) \in Nat \ {0}
         /\ it.action = "deny" /\ it.status # 0 => StatusOf(it, default) = it.status
  BY DEF StatusOf, Verdicts

\* The status of a verdict and an empty body are sent, unless a status was before.
LEMMA SendVerdictFacts ==
  ASSUME rw \in WriterType, down \in DownType, NEW it \in Verdicts, SendVerdict(it)
  PROVE  /\ rw' \in WriterType /\ rw'.isWriteHeaderFlush
         /\ rw'.wroteHeader = rw.wroteHeader /\ rw'.wroteBuffered = rw.wroteBuffered
         /\ down' \in DownType /\ down'.bytes = down.bytes
         /\ rw.isWriteHeaderFlush => down' = down
         /\ Unsent /\ it.action = "deny" /\ it.status # 0 => down'.status = it.status
         /\ Unsent => down'.status # 0 /\ down'.length0
<1> DEFINE r == [rw EXCEPT !.statusCode = StatusOf(it, @)]
<1>1. rw.statusCode \in Nat \ {0}
  BY Zenon DEF WriterType
<1>2. /\ StatusOf(it, rw.statusCode) \in Nat \ {0}
      /\ it.action = "deny" /\ it.status # 0 => StatusOf(it, rw.statusCode) = it.status
  BY Zenon, <1>1, StatusOfFacts
<1>3. /\ r \in WriterType /\ r.statusCode = StatusOf(it, rw.statusCode)
      /\ r.isWriteHeaderFlush = rw.isWriteHeaderFlush
      /\ r.wroteHeader = rw.wroteHeader /\ r.wroteBuffered = rw.wroteBuffered
  BY Zenon, <1>2 DEF WriterType
<1>4. rw' = FlushHeader(r) /\ down' = FlushDown(down, r, TRUE)
  BY Zenon DEF SendVerdict, Cleaned
<1> HIDE DEF r
<1>5. /\ rw' \in WriterType /\ rw'.isWriteHeaderFlush
      /\ rw'.wroteHeader = r.wroteHeader /\ rw'.wroteBuffered = r.wroteBuffered
  BY Zenon, <1>3, <1>4, FlushHeaderFacts
<1>6. /\ down' \in DownType /\ down'.bytes = down.bytes
      /\ r.isWriteHeaderFlush => down' = down
      /\ ~r.isWriteHeaderFlush /\ down.status = 0
           => down'.status = r.statusCode /\ down'.length0 = TRUE
  BY Zenon, <1>3, <1>4, FlushDownFacts
<1>7. Unsent => ~rw.isWriteHeaderFlush /\ down.status = 0
  BY DEF Unsent, Untouched
<1> QED
  BY Zenon, <1>2, <1>3, <1>5, <1>6, <1>7

\* The buffered body and n more bytes are sent, unless the answer was a verdict.
LEMMA WriteBufferedFacts ==
  ASSUME rw \in WriterType, down \in DownType, bodyLen["res"] \in Nat, NEW n \in Nat, WriteBuffered(n)
  PROVE  /\ rw' \in WriterType /\ rw'.wroteBuffered
         /\ rw'.wroteHeader = rw.wroteHeader /\ rw'.statusCode = rw.statusCode
         /\ rw.isWriteHeaderFlush => rw'.isWriteHeaderFlush
         /\ down' \in DownType
         /\ down'.bytes > 0 => down.bytes > 0 \/ bodyLen["res"] > 0 \/ n > 0
         /\ rw.isWriteHeaderFlush /\ down.status # 0 /\ down.length0 => down' = down
<1> DEFINE bodyless == rw.statusCode \in BodylessCodes
           r == IF bodyless THEN rw ELSE FlushHeader(rw)
           f == FlushDown(down, rw, FALSE)
           d == IF bodyless THEN down ELSE SendBytes(f, bodyLen["res"])
<1>1. rw' = [r EXCEPT !.wroteBuffered = TRUE] /\ down' = IF n = 0 THEN d ELSE SendBytes(d, n)
  BY Zenon DEF WriteBuffered
<1>2. /\ r \in WriterType /\ r.wroteHeader = rw.wroteHeader /\ r.statusCode = rw.statusCode
      /\ rw.isWriteHeaderFlush => r.isWriteHeaderFlush
  BY Zenon, FlushHeaderFacts
<1>3. f \in DownType /\ f.bytes = down.bytes /\ (rw.isWriteHeaderFlush => f = down)
  BY Zenon, FlushDownFacts
<1> HIDE DEF f
<1>4. /\ d \in DownType /\ (d.bytes > 0 => down.bytes > 0 \/ bodyLen["res"] > 0)
      /\ rw.isWriteHeaderFlush /\ down.status # 0 /\ down.length0 => d = down
  BY Zenon, <1>3, SendBytesFacts
<1> HIDE DEF r, d
<1>5. /\ rw' \in WriterType /\ rw'.wroteBuffered
      /\ rw'.wroteHeader = rw.wroteHeader /\ rw'.statusCode = rw.statusCode
      /\ rw.isWriteHeaderFlush => rw'.isWriteHeaderFlush
  <2>1. rw' \in WriterType
    BY Zenon, <1>1, <1>2 DEF WriterType
  <2> QED
    BY Zenon, <1>1, <1>2, <2>1 DEF WriterType
<1>6. CASE n = 0
  BY Zenon, <1>1, <1>4, <1>5, <1>6
<1>7. CASE n # 0
  BY Zenon, <1>1, <1>4, <1>5, <1>7, SendBytesFacts
<1> QED
  BY Zenon, <1>6, <1>7

----------------------------------------------------------------------------
LEMMA EndSide ==
  ASSUME pc' \in EndLabels
  PROVE  RequestInv' /\ UnsentInv'
  BY Zenon DEF RequestInv, UnsentInv, RequestLabels, HandlerLabels, CalledLabels, EndLabels

LEMMA NoResponseYet ==
  ASSUME Inv, CallInv, RequestInv, pc \in RequestLabels
  PROVE  bodyLen["res"] = 0
<1>1. open /\ lastPhase <= 2 /\ lastPhase \in 0..5
  BY Zenon DEF CallInv, RequestInv, RequestLabels, Inv, TypeOK, EvalTypeOK
<1>2. NothingBuffered("res")
  BY <1>1 DEF NothingBuffered, HeadersPhase
<1> QED
  BY Zenon, <1>2 DEF Inv, BodyInv, Sides

LEMMA RefuseRequestInv ==
  ASSUME Inv, HttpInv, RefuseRequest
  PROVE  HttpInv'
<1> USE DEF HttpInv, RequestLabels, HandlerLabels, CalledLabels, ResponseLabels, EndLabels
<1> USE QuietFacts
<1>0. /\ pc \in {"phase1Done", "bodyRead", "phase2Done"} /\ call = "none" /\ pc' = "deferred"
      /\ UNCHANGED <<vars, request, rw, pending, handler>>
  BY Zenon DEF RefuseRequest, Returned, Goto
<1> USE <1>0
<1>a. rw = NewInterceptor /\ down = Untouched /\ handler = NotCalled /\ bodyLen["res"] = 0
  BY Zenon, NoResponseYet DEF RequestInv
<1> USE <1>a
<1>b. down' \in DownType /\ down'.bytes = 0
  <2>1. ret.it \in Verdicts /\ OK \in Nat \ {0} /\ down \in DownType /\ down.bytes = 0
    BY DEF Inv, TypeOK, Returns, OK, ConnType, Untouched
  <2>2. StatusOf(ret.it, OK) \in Nat \ {0}
    BY Zenon, <2>1, StatusOfFacts
  <2>3. down' = SendStatus(down, StatusOf(ret.it, OK), FALSE)
    BY Zenon DEF RefuseRequest
  <2> QED
    BY Zenon, <2>1, <2>2, <2>3, SendStatusFacts
<1> USE <1>b
<1>1. ConnType'
  BY Zenon DEF ConnType
<1>2. CallInv'
  BY Zenon DEF CallInv, Labels
<1>3. RequestInv' /\ UnsentInv' /\ EngineInv'
  BY Zenon, EndSide
<1>4. ~handler.served /\ ~rw.wroteHeader
  BY Zenon DEF NotCalled, NewInterceptor
<1>5. ServedInv'
  BY Zenon, <1>4 DEF ServedInv
<1>6. HeadersInv'
  BY Zenon, <1>4 DEF HeadersInv
<1>7. DenyInv'
  BY Zenon, <1>4 DEF DenyInv
<1> QED
  BY Zenon, <1>1, <1>2, <1>3, <1>5, <1>6, <1>7

LEMMA FailRequestInv ==
  ASSUME Inv, HttpInv, FailRequest
  PROVE  HttpInv'
<1> USE DEF HttpInv, RequestLabels, HandlerLabels, CalledLabels, ResponseLabels, EndLabels
<1> USE QuietFacts
<1>0. /\ pc = "bodyRead" /\ call = "none" /\ pc' = "deferred"
      /\ UNCHANGED <<vars, request, rw, pending, down, handler>>
  BY Zenon DEF FailRequest, Returned, Goto
<1> USE <1>0
<1>a. rw = NewInterceptor /\ down = Untouched /\ handler = NotCalled /\ bodyLen["res"] = 0
  BY Zenon, NoResponseYet DEF RequestInv
<1>1. ConnType'
  BY Zenon DEF ConnType
<1>2. CallInv'
  BY Zenon DEF CallInv, Labels
<1>3. RequestInv' /\ UnsentInv' /\ EngineInv'
  BY Zenon, EndSide
<1>4. ~handler.served /\ ~rw.wroteHeader /\ down.bytes = 0
  BY Zenon, <1>a DEF NotCalled, NewInterceptor, Untouched
<1>5. ServedInv' /\ HeadersInv' /\ DenyInv'
  BY Zenon, <1>a, <1>4 DEF ServedInv, HeadersInv, DenyInv
<1> QED
  BY Zenon, <1>1, <1>2, <1>3, <1>5

LEMMA ServeInv ==
  ASSUME Inv, HttpInv, Serve
  PROVE  HttpInv'
<1> USE DEF HttpInv, RequestLabels, HandlerLabels, CalledLabels, ResponseLabels, EndLabels
<1> USE QuietFacts
<1>0. /\ pc = "phase2Done" /\ call = "none" /\ ret.it = Nil /\ pc' = "handler"
      /\ request' = [request EXCEPT !.readable = bodyLen["req"] + (request.size - request.taken)]
      /\ rw' = NewInterceptor
      /\ handler' = [handler EXCEPT !.served = TRUE]
      /\ UNCHANGED <<vars, pending, down>>
  BY Zenon DEF Serve, Returned, Passed, RestOfBody, Goto
<1> USE <1>0
<1>a. /\ interruption = Nil /\ rw = NewInterceptor /\ down = Untouched /\ handler = NotCalled
      /\ lastPhase <= 2 /\ request.taken = bodyLen["req"] /\ bodyLen["res"] = 0
  BY Zenon, NoResponseYet DEF RequestInv
<1> USE <1>a
<1>b. ~DeniedRequest /\ ~DeniedResponse /\ Denials = {}
  BY Zenon, NothingDenied DEF Inv
<1>c. request'.readable = request.size /\ request'.size = request.size /\ request' \in RequestType
  <2>1. request.size \in Nat /\ request.taken \in Nat /\ request \in RequestType
    BY Zenon, ConnFields DEF ConnType
  <2>2. bodyLen["req"] + (request.size - request.taken) = request.size
    BY <2>1
  <2>3. request' = [request EXCEPT !.readable = request.size]
    BY Zenon, <2>2
  <2> QED
    BY Zenon, <2>1, <2>3 DEF RequestType
<1>d. /\ handler' \in HandlerType /\ handler'.served /\ ~handler'.panicked
  <2>1. handler' \in HandlerType
    BY Zenon, HandlerUpdate DEF ConnType
  <2> QED
    BY Zenon, <2>1 DEF NotCalled
<1>1. ConnType'
  BY Zenon, <1>c, <1>d DEF ConnType
<1>2. CallInv' /\ EngineInv'
  BY Zenon DEF CallInv, Labels
<1>3. RequestInv'
  BY Zenon DEF RequestInv
<1>4. ServedInv'
  BY Zenon, <1>b, <1>c, <1>d, LimitVerdictNotNil DEF ServedInv, Sides
<1>5. HeadersInv'
  <2>1. lastPhase \in 0..5 /\ ~rw'.wroteHeader /\ down.bytes = 0
    BY Zenon DEF Inv, TypeOK, EvalTypeOK, NewInterceptor, Untouched
  <2> QED
    BY <2>1 DEF HeadersInv
<1>6. UnsentInv'
  BY Zenon DEF UnsentInv, Unsent, NewInterceptor
<1>7. DenyInv'
  BY Zenon, <1>b DEF DenyInv
<1> QED
  BY Zenon, <1>1, <1>2, <1>3, <1>4, <1>5, <1>6, <1>7

----------------------------------------------------------------------------
\* The parts of the invariant that a step of the response keeps when it does not call
\* the transaction.
LEMMA ResponseSide ==
  ASSUME HttpInv, UNCHANGED <<vars, request>>, call = "none", pc \in ResponseLabels, pc' \in ResponseLabels,
         handler'.served = handler.served, handler'.panicked = handler.panicked
  PROVE  RequestInv' /\ ServedInv' /\ CallInv' /\ EngineInv'
<1> USE DEF HttpInv, RequestLabels, HandlerLabels, CalledLabels, ResponseLabels, EndLabels
<1>1. RequestInv'
  BY Zenon DEF RequestInv
<1>2. handler.served /\ ~handler.panicked
  BY Zenon DEF ServedInv
<1>3. ServedInv'
  BY Zenon, <1>2, QuietFacts DEF ServedInv, LimitVerdict
<1>4. CallInv' /\ EngineInv'
  BY Zenon, QuietFacts DEF CallInv, Labels
<1> QED
  BY Zenon, <1>1, <1>3, <1>4

\* No call is under way in the handler, and what it was denied has been answered.
LEMMA InHandler ==
  ASSUME HttpInv, pc \in HandlerLabels
  PROVE  call = "none" /\ (DeniedResponse => VerdictSent)
  BY Zenon DEF HttpInv, CallInv, DenyInv, VerdictDue, HandlerLabels, CalledLabels, ResponseLabels

LEMMA HandlerReturnsInv ==
  ASSUME Inv, HttpInv, HandlerReturns
  PROVE  HttpInv'
<1> USE DEF HttpInv, RequestLabels, HandlerLabels, CalledLabels, ResponseLabels, EndLabels
<1> USE QuietFacts
<1>0. /\ pc = "handler" /\ pc' = "respond"
      /\ UNCHANGED <<vars, request, rw, pending, down, handler>>
  BY Zenon DEF HandlerReturns, Goto
<1> USE <1>0
<1>1. ConnType'
  BY Zenon DEF ConnType
<1>2. RequestInv' /\ ServedInv' /\ CallInv' /\ EngineInv'
  BY Zenon, InHandler, ResponseSide
<1>3. HeadersInv'
  BY Zenon DEF HeadersInv
<1>4. UnsentInv'
  BY DEF UnsentInv, Unsent, Buffering, IsResponseBodyProcessable
<1>5. DenyInv'
  BY Zenon, InHandler DEF DenyInv, VerdictSent
<1> QED
  BY Zenon, <1>1, <1>2, <1>3, <1>4, <1>5

\* What is left of the invariant when the request has ended.
LEMMA EndDenied ==
  ASSUME Inv, HttpInv, UNCHANGED vars, pc \in ResponseLabels, pc' \in EndLabels,
         DeniedResponse => down'.bytes = 0,
         DeniedResponse /\ ~handler'.failed
           => down'.status # 0 /\ \A v \in Denials : v.status = down'.status
  PROVE  DenyInv'
<1>1. ~DeniedRequest
  BY Zenon DEF HttpInv, ServedInv
<1>2. Denials # {} => DeniedResponse
  BY Zenon, DenialsFacts DEF Inv, TypeOK
<1>3. ASSUME ~handler'.failed, NEW v \in Denials
      PROVE  v.status = ClientStatus'
  BY Zenon, <1>2, <1>3 DEF ClientStatus
<1>4. /\ Denials' = Denials
      /\ (DeniedRequest' <=> DeniedRequest) /\ (DeniedResponse' <=> DeniedResponse)
  BY Zenon, QuietFacts
<1> QED
  BY Zenon, <1>1, <1>3, <1>4 DEF DenyInv, HandlerLabels, CalledLabels, ResponseLabels, EndLabels

LEMMA HandlerPanicsInv ==
  ASSUME Inv, HttpInv, HandlerPanics
  PROVE  HttpInv'
<1> USE DEF HttpInv, RequestLabels, HandlerLabels, CalledLabels, ResponseLabels, EndLabels
<1> USE QuietFacts
<1>0. /\ pc = "handler" /\ pc' = "deferred"
      /\ handler' = [handler EXCEPT !.panicked = TRUE]
      /\ UNCHANGED <<vars, request, rw, pending, down>>
  BY Zenon DEF HandlerPanics, Goto
<1> USE <1>0
<1>a. handler' \in HandlerType /\ handler'.served = handler.served /\ handler'.failed = handler.failed
  BY Zenon, HandlerUpdate DEF ConnType, HandlerType
<1>1. ConnType'
  BY Zenon, <1>a DEF ConnType
<1>2. RequestInv' /\ UnsentInv' /\ EngineInv'
  BY Zenon, EndSide
<1>3. ServedInv'
  BY Zenon, <1>a DEF ServedInv, LimitVerdict
<1>4. HeadersInv'
  BY Zenon DEF HeadersInv
<1>5. CallInv'
  BY Zenon DEF CallInv, Labels
<1>6. DenyInv'
  BY Zenon, InHandler, EndDenied DEF VerdictSent
<1> QED
  BY Zenon, <1>1, <1>2, <1>3, <1>4, <1>5, <1>6

LEMMA RespondWithoutBodyInv ==
  ASSUME Inv, HttpInv, RespondWithoutBody
  PROVE  HttpInv'
<1> USE DEF HttpInv, RequestLabels, HandlerLabels, CalledLabels, ResponseLabels, EndLabels
<1> USE QuietFacts
<1>0. /\ pc = "respond" /\ pc' = "deferred" /\ UNCHANGED <<vars, request, pending, handler>>
  BY Zenon DEF RespondWithoutBody, Goto
<1> USE <1>0
<1>a. rw \in WriterType /\ down \in DownType
  BY Zenon DEF ConnType
<1> USE <1>a
<1>b. /\ rw' \in WriterType /\ down' \in DownType /\ down'.bytes = down.bytes
      /\ rw'.wroteHeader = rw.wroteHeader
      /\ rw.isWriteHeaderFlush => down' = down
  <2>1. CASE UNCHANGED <<rw, down>>
    BY Zenon, <2>1
  <2>2. CASE rw' = FlushHeader(rw) /\ down' = FlushDown(down, rw, FALSE)
    <3>1. rw' \in WriterType /\ rw'.wroteHeader = rw.wroteHeader
      BY Zenon, <2>2, FlushHeaderFacts
    <3>2. /\ down' \in DownType /\ down'.bytes = down.bytes
          /\ rw.isWriteHeaderFlush => down' = down
      BY Zenon, <2>2, FlushDownFacts
    <3> QED
      BY Zenon, <3>1, <3>2
  <2> QED
    BY Zenon, <2>1, <2>2 DEF RespondWithoutBody
<1> USE <1>b
<1>1. ConnType'
  BY Zenon DEF ConnType
<1>2. RequestInv' /\ UnsentInv' /\ EngineInv'
  BY Zenon, EndSide
<1>3. ServedInv'
  BY Zenon DEF ServedInv, LimitVerdict
<1>4. HeadersInv'
  BY Zenon DEF HeadersInv
<1>5. CallInv'
  BY Zenon DEF CallInv, Labels
<1>6. DenyInv'
  BY Zenon, InHandler, EndDenied DEF VerdictSent
<1> QED
  BY Zenon, <1>1, <1>2, <1>3, <1>4, <1>5, <1>6

\* A verdict that a call returned is sent to the client.
LEMMA Answered ==
  ASSUME Inv, HttpInv, ret.it = interruption, SendVerdict(ret.it), DeniedResponse, pc \in ResponseLabels
  PROVE  /\ rw'.isWriteHeaderFlush /\ down'.status # 0 /\ down'.length0 /\ down'.bytes = 0
         /\ \A v \in Denials : v.status = down'.status
<1>1. ret.it \in Verdicts /\ rw \in WriterType /\ down \in DownType
  BY Zenon DEF Inv, TypeOK, Returns, HttpInv, ConnType
<1>2. VerdictSent \/ VerdictDue
  BY Zenon DEF HttpInv, DenyInv
<1>3. CASE VerdictSent
  BY Zenon, <1>1, <1>3, SendVerdictFacts DEF VerdictSent
<1>4. CASE VerdictDue
  <2>1. Unsent /\ down.bytes = 0
    BY Zenon, <1>4 DEF VerdictDue, Unsent, Untouched
  <2>2. rw'.isWriteHeaderFlush /\ down'.status # 0 /\ down'.length0 /\ down'.bytes = 0
    BY Zenon, <1>1, <2>1, SendVerdictFacts
  <2>3. ASSUME NEW v \in Denials
        PROVE  v.status = down'.status
    <3>1. v = ret.it /\ v.action = "deny" /\ v.status \in Nat \ {0}
      BY Zenon, <1>4, DenialsFacts DEF VerdictDue, Inv, TypeOK
    <3> QED
      BY Zenon, <1>1, <2>1, <3>1, SendVerdictFacts
  <2> QED
    BY Zenon, <2>2, <2>3
<1> QED
  BY Zenon, <1>2, <1>3, <1>4

\* A call that returned no verdict found a response that was not denied, or that has
\* been answered.
LEMMA NoVerdictDue ==
  ASSUME Inv, HttpInv, pc \in CalledLabels, call = "none", ret.it = Nil, DeniedResponse
  PROVE  VerdictSent /\ interruption # Nil
<1>1. interruption # Nil
  BY Zenon, NothingDenied DEF Inv
<1> QED
  BY Zenon, <1>1 DEF HttpInv, DenyInv, VerdictDue, ResponseLabels

LEMMA BlockHeaderInv ==
  ASSUME Inv, HttpInv, BlockHeader
  PROVE  HttpInv'
<1> USE DEF HttpInv, RequestLabels, HandlerLabels, CalledLabels, ResponseLabels, EndLabels
<1> USE QuietFacts
<1>0. /\ pc = "phase3Done" /\ call = "none" /\ ret.it # Nil
      /\ pc' = (IF pending.kind = "write" THEN "write" ELSE "handler")
      /\ UNCHANGED <<vars, request, pending, handler>>
  BY Zenon DEF BlockHeader, AfterHeader, Returned, Goto
<1> USE <1>0
<1>a. pc' \in {"write", "handler"} /\ (pc' = "write" => pending.kind = "write") /\ ret.it = interruption
  BY Zenon DEF UnsentInv
<1> USE <1>a
<1>b. SendVerdict(ret.it)
  BY Zenon DEF BlockHeader
<1>c. /\ rw' \in WriterType /\ rw'.wroteHeader = rw.wroteHeader
      /\ down' \in DownType /\ down'.bytes = down.bytes
  <2>1. ret.it \in Verdicts /\ rw \in WriterType /\ down \in DownType
    BY Zenon DEF Inv, TypeOK, Returns, ConnType
  <2> QED
    BY Zenon, <1>b, <2>1, SendVerdictFacts
<1>1. ConnType'
  BY Zenon, <1>c DEF ConnType
<1>2. RequestInv' /\ ServedInv' /\ CallInv' /\ EngineInv'
  BY Zenon, ResponseSide
<1>3. HeadersInv'
  BY Zenon, <1>c DEF HeadersInv
<1>4. UnsentInv'
  BY Zenon DEF UnsentInv
<1>5. DenyInv'
  BY Zenon, <1>b, Answered DEF DenyInv, VerdictSent
<1> QED
  BY Zenon, <1>1, <1>2, <1>3, <1>4, <1>5

LEMMA PassHeaderInv ==
  ASSUME Inv, HttpInv, PassHeader
  PROVE  HttpInv'
<1> USE DEF HttpInv, RequestLabels, HandlerLabels, CalledLabels, ResponseLabels, EndLabels
<1> USE QuietFacts
<1>0. /\ pc = "phase3Done" /\ call = "none" /\ ret.it = Nil
      /\ pc' = (IF pending.kind = "write" THEN "write" ELSE "handler")
      /\ rw' = [rw EXCEPT !.wroteHeader = TRUE]
      /\ UNCHANGED <<vars, request, pending, down, handler>>
  BY Zenon DEF PassHeader, AfterHeader, Returned, Goto
<1> USE <1>0
<1>a. pc' \in {"write", "handler"} /\ (pc' = "write" => pending.kind = "write") /\ interruption = Nil
  BY Zenon DEF UnsentInv
<1> USE <1>a
<1>b. Unsent /\ ~DeniedResponse
  BY Zenon, NothingDenied DEF UnsentInv, Inv
<1>c. rw' \in WriterType /\ rw'.wroteHeader /\ rw'.isWriteHeaderFlush = rw.isWriteHeaderFlush
  <2>1. rw' \in WriterType
    BY Zenon DEF ConnType, WriterType
  <2>2. rw \in WriterType
    BY Zenon DEF ConnType
  <2> QED
    BY Zenon, <2>1, <2>2 DEF WriterType
<1>1. ConnType'
  BY Zenon, <1>c DEF ConnType
<1>2. RequestInv' /\ ServedInv' /\ CallInv' /\ EngineInv'
  BY Zenon, ResponseSide
<1>3. HeadersInv'
  BY Zenon DEF HeadersInv
<1>4. UnsentInv'
  BY Zenon, <1>b, <1>c DEF UnsentInv, Unsent
<1>5. DenyInv'
  BY Zenon, <1>b DEF DenyInv
<1> QED
  BY Zenon, <1>1, <1>2, <1>3, <1>4, <1>5

LEMMA WriteDirectInv ==
  ASSUME Inv, HttpInv, WriteDirect
  PROVE  HttpInv'
<1> USE DEF HttpInv, RequestLabels, HandlerLabels, CalledLabels, ResponseLabels, EndLabels
<1> USE QuietFacts
<1>0. /\ pc = "write" /\ ~Buffering /\ pc' = "handler"
      /\ UNCHANGED <<vars, request, pending, handler>>
  BY Zenon DEF WriteDirect, Goto
<1> USE <1>0
<1>a. call = "none" /\ (DeniedResponse => VerdictSent)
  BY Zenon, InHandler
<1>b. rw \in WriterType /\ down \in DownType /\ pending.n \in Nat
  BY Zenon, ConnFields DEF ConnType
<1> USE <1>b
<1>c. /\ rw' \in WriterType /\ down' \in DownType
      /\ rw'.wroteHeader = rw.wroteHeader /\ rw'.wroteBuffered = rw.wroteBuffered
      /\ rw.isWriteHeaderFlush => rw'.isWriteHeaderFlush
      /\ rw.isWriteHeaderFlush /\ down.status # 0 /\ down.length0 => down' = down
  <2>1. CASE UNCHANGED <<rw, down>>
    BY Zenon, <2>1
  <2>2. CASE rw' = FlushHeader(rw) /\ down' = SendBytes(FlushDown(down, rw, FALSE), pending.n)
    <3>1. /\ rw' \in WriterType /\ rw'.isWriteHeaderFlush
          /\ rw'.wroteHeader = rw.wroteHeader /\ rw'.wroteBuffered = rw.wroteBuffered
      BY Zenon, <2>2, FlushHeaderFacts
    <3> DEFINE f == FlushDown(down, rw, FALSE)
    <3>2. f \in DownType /\ (rw.isWriteHeaderFlush => f = down)
      BY Zenon, FlushDownFacts
    <3>3. down' = SendBytes(f, pending.n)
      BY Zenon, <2>2
    <3> HIDE DEF f
    <3>4. down' \in DownType /\ (f.status # 0 /\ f.length0 => down' = f)
      BY Zenon, <3>2, <3>3, SendBytesFacts
    <3> QED
      BY Zenon, <3>1, <3>2, <3>4
  <2> QED
    BY Zenon, <2>1, <2>2 DEF WriteDirect
<1> USE <1>c
<1>1. ConnType'
  BY Zenon DEF ConnType
<1>2. RequestInv' /\ ServedInv' /\ CallInv' /\ EngineInv'
  BY Zenon, <1>a, ResponseSide
<1>3. HeadersInv'
  BY Zenon DEF HeadersInv
<1>4. UnsentInv'
  BY DEF UnsentInv, Buffering, IsResponseBodyProcessable
<1>5. DenyInv'
  BY Zenon, <1>a DEF DenyInv, VerdictSent
<1> QED
  BY Zenon, <1>1, <1>2, <1>3, <1>4, <1>5

LEMMA BlockBodyInv ==
  ASSUME Inv, HttpInv, BlockBody
  PROVE  HttpInv'
<1> USE DEF HttpInv, RequestLabels, HandlerLabels, CalledLabels, ResponseLabels, EndLabels
<1> USE QuietFacts
<1>0. /\ pc = "written" /\ call = "none" /\ ret.it # Nil /\ pc' = "handler"
      /\ UNCHANGED <<vars, request, pending, handler>>
  BY Zenon DEF BlockBody, Returned, Goto
<1> USE <1>0
<1>a. ret.it = interruption
  BY Zenon DEF UnsentInv
<1>b. SendVerdict(ret.it)
  BY Zenon DEF BlockBody
<1>c. /\ rw' \in WriterType /\ rw'.wroteHeader = rw.wroteHeader
      /\ down' \in DownType /\ down'.bytes = down.bytes
  <2>1. ret.it \in Verdicts /\ rw \in WriterType /\ down \in DownType
    BY Zenon DEF Inv, TypeOK, Returns, ConnType
  <2> QED
    BY Zenon, <1>b, <2>1, SendVerdictFacts
<1>1. ConnType'
  BY Zenon, <1>c DEF ConnType
<1>2. RequestInv' /\ ServedInv' /\ CallInv' /\ EngineInv'
  BY Zenon, ResponseSide
<1>3. HeadersInv'
  BY Zenon, <1>c DEF HeadersInv
<1>4. UnsentInv'
  BY Zenon, <1>a DEF UnsentInv
<1>5. DenyInv'
  BY Zenon, <1>a, <1>b, Answered DEF DenyInv, VerdictSent
<1> QED
  BY Zenon, <1>1, <1>2, <1>3, <1>4, <1>5

LEMMA EndWriteInv ==
  ASSUME Inv, HttpInv, EndWrite
  PROVE  HttpInv'
<1> USE DEF HttpInv, RequestLabels, HandlerLabels, CalledLabels, ResponseLabels, EndLabels
<1> USE QuietFacts
<1>0. /\ pc = "written" /\ call = "none" /\ ret.it = Nil /\ pc' = "handler"
      /\ UNCHANGED <<vars, request, rw, pending, down>>
  BY Zenon DEF EndWrite, Returned, Goto
<1> USE <1>0
<1>a. /\ handler' \in HandlerType /\ handler'.served = handler.served
      /\ handler'.panicked = handler.panicked
  <2>1. handler \in HandlerType /\ handler' = [handler EXCEPT !.failed = handler.failed \/ ret.err # "none"]
    BY Zenon DEF EndWrite, ConnType
  <2>2. (handler.failed \/ ret.err # "none") \in BOOLEAN
    BY Zenon
  <2> QED
    BY Zenon, <2>1, <2>2, HandlerUpdate DEF HandlerType
<1>1. ConnType'
  BY Zenon, <1>a DEF ConnType
<1>2. RequestInv' /\ ServedInv' /\ CallInv' /\ EngineInv'
  BY Zenon, <1>a, ResponseSide
<1>3. HeadersInv'
  BY Zenon DEF HeadersInv
<1>4. UnsentInv'
  BY Zenon DEF UnsentInv, Unsent
<1>5. DenyInv'
  BY Zenon, NoVerdictDue DEF DenyInv, VerdictSent
<1> QED
  BY Zenon, <1>1, <1>2, <1>3, <1>4, <1>5

LEMMA OverflowInv ==
  ASSUME Inv, HttpInv, Overflow
  PROVE  HttpInv'
<1> USE DEF HttpInv, RequestLabels, HandlerLabels, CalledLabels, ResponseLabels, EndLabels
<1> USE QuietFacts
<1>0. /\ pc = "written" /\ call = "none" /\ ret.it = Nil /\ pc' = "handler"
      /\ UNCHANGED <<vars, request, pending, handler>> /\ WriteBuffered(Rest)
  BY Zenon DEF Overflow, Returned, Goto
<1> USE <1>0
<1>a. /\ rw' \in WriterType /\ rw'.wroteBuffered /\ rw'.wroteHeader = rw.wroteHeader
      /\ rw.isWriteHeaderFlush => rw'.isWriteHeaderFlush
      /\ down' \in DownType
      /\ rw.isWriteHeaderFlush /\ down.status # 0 /\ down.length0 => down' = down
  <2>1. rw \in WriterType /\ down \in DownType /\ bodyLen["res"] \in Nat
    BY Zenon DEF ConnType, Inv, TypeOK, Sides
  <2>2. Rest \in Nat
    <3>1. ret.n \in Nat /\ pending.n \in Nat /\ ret.n <= pending.n
      BY Zenon, ConnFields DEF Inv, TypeOK, Returns, ConnType
    <3> QED
      BY <3>1 DEF Rest
  <2> QED
    BY Zenon, <2>1, <2>2, WriteBufferedFacts
<1> USE <1>a
<1>1. ConnType'
  BY Zenon DEF ConnType
<1>2. RequestInv' /\ ServedInv' /\ CallInv' /\ EngineInv'
  BY Zenon, ResponseSide
<1>3. HeadersInv'
  BY Zenon DEF HeadersInv
<1>4. UnsentInv'
  BY Zenon DEF UnsentInv, Buffering
<1>5. DenyInv'
  BY Zenon, NoVerdictDue DEF DenyInv, VerdictSent
<1> QED
  BY Zenon, <1>1, <1>2, <1>3, <1>4, <1>5

LEMMA RespondInv ==
  ASSUME Inv, HttpInv, Respond
  PROVE  HttpInv'
<1> USE DEF HttpInv, RequestLabels, HandlerLabels, CalledLabels, ResponseLabels, EndLabels
<1> USE QuietFacts
<1>0. pc = "phase4Done" /\ call = "none" /\ pc' = "deferred" /\ UNCHANGED <<vars, request, pending>>
  BY Zenon DEF Respond, Returned, Goto
<1> USE <1>0
<1>a. /\ rw \in WriterType /\ down \in DownType /\ handler \in HandlerType /\ ret.it \in Verdicts
      /\ bodyLen["res"] \in Nat /\ ret.it = interruption
  BY Zenon DEF ConnType, Inv, TypeOK, Returns, Sides, UnsentInv
<1> USE <1>a
<1>b. DeniedResponse => ret.it # Nil /\ down.bytes = 0 /\ (VerdictSent \/ Unsent)
  BY NothingDenied DEF DenyInv, VerdictDue, Inv, VerdictSent, Unsent, Untouched
<1> DEFINE Goal == /\ rw' \in WriterType /\ down' \in DownType /\ handler' \in HandlerType
                   /\ handler'.served = handler.served
                   /\ rw'.wroteHeader = rw.wroteHeader
                   /\ down'.bytes > 0 => down.bytes > 0 \/ bodyLen["res"] > 0
                   /\ DeniedResponse => down'.bytes = 0
                   /\ DeniedResponse /\ ~handler'.failed
                        => down'.status # 0 /\ \A v \in Denials : v.status = down'.status
<1>c. Goal
  <2>1. CASE /\ rw' = FlushHeader([rw EXCEPT !.statusCode = InternalServerError])
             /\ down' = FlushDown(down, [rw EXCEPT !.statusCode = InternalServerError], FALSE)
             /\ handler' = [handler EXCEPT !.failed = TRUE]
    <3> DEFINE r == [rw EXCEPT !.statusCode = InternalServerError]
    <3>1. InternalServerError \in Nat \ {0}
      BY DEF InternalServerError
    <3>2. r \in WriterType
      BY Zenon, <3>1 DEF WriterType
    <3>3. r.wroteHeader = rw.wroteHeader
      BY Zenon DEF WriterType
    <3>4. rw' = FlushHeader(r) /\ down' = FlushDown(down, r, FALSE)
      BY Zenon, <2>1
    <3> HIDE DEF r
    <3>5. rw' \in WriterType /\ rw'.wroteHeader = rw.wroteHeader
      BY Zenon, <3>2, <3>3, <3>4, FlushHeaderFacts
    <3>6. down' \in DownType /\ down'.bytes = down.bytes
      BY Zenon, <3>2, <3>4, FlushDownFacts
    <3>7. handler' \in HandlerType /\ handler'.served = handler.served /\ handler'.failed = TRUE
      BY Zenon, <2>1, HandlerUpdate DEF HandlerType
    <3> QED
      BY Zenon, <1>b, <3>5, <3>6, <3>7
  <2>2. CASE ret.it # Nil /\ SendVerdict(ret.it) /\ UNCHANGED handler
    <3>1. /\ rw' \in WriterType /\ rw'.wroteHeader = rw.wroteHeader
          /\ down' \in DownType /\ down'.bytes = down.bytes
      BY Zenon, <2>2, SendVerdictFacts
    <3>2. DeniedResponse => /\ down'.status # 0 /\ down'.bytes = 0
                            /\ \A v \in Denials : v.status = down'.status
      BY Zenon, <2>2, Answered
    <3> QED
      BY Zenon, <2>2, <3>1, <3>2
  <2>3. CASE ret.it = Nil /\ WriteBuffered(0) /\ UNCHANGED handler
    <3>1. /\ rw' \in WriterType /\ rw'.wroteHeader = rw.wroteHeader
          /\ down' \in DownType /\ (down'.bytes > 0 => down.bytes > 0 \/ bodyLen["res"] > 0)
      BY <2>3, WriteBufferedFacts
    <3> QED
      BY Zenon, <1>b, <2>3, <3>1
  <2> QED
    BY Zenon, <2>1, <2>2, <2>3 DEF Respond
<1> USE <1>c
<1>1. ConnType'
  BY Zenon DEF ConnType
<1>2. RequestInv' /\ UnsentInv' /\ EngineInv'
  BY Zenon, EndSide
<1>3. ServedInv'
  BY DEF ServedInv, LimitVerdict
<1>4. HeadersInv'
  BY Zenon DEF HeadersInv
<1>5. CallInv'
  BY Zenon DEF CallInv, Labels
<1>6. DenyInv'
  BY Zenon, EndDenied
<1> QED
  BY Zenon, <1>1, <1>2, <1>3, <1>4, <1>5, <1>6

----------------------------------------------------------------------------
\* rwInterceptor.WriteHeader: the header of the response is added, of which only the
\* content type counts.
LEMMA BeginWriteHeaderInv ==
  ASSUME Inv, HttpInv, pc = "handler", NEW code \in Codes \cup {OK}, NEW next \in PendingType,
         next.kind = "write" => next.n \in Slices, BeginWriteHeader(code, next),
         handler' \in HandlerType, handler'.served = handler.served,
         handler'.panicked = handler.panicked
  PROVE  HttpInv'
<1> USE DEF HttpInv, RequestLabels, HandlerLabels, CalledLabels, ResponseLabels, EndLabels
<1>0. /\ ~rw.wroteHeader /\ rw' = [rw EXCEPT !.statusCode = code] /\ pending' = next
      /\ pc' = "phase3" /\ UNCHANGED <<request, down>>
  BY Zenon DEF BeginWriteHeader, Goto
<1> USE <1>0
<1>a. UNCHANGED <<waf, conf, open, call, ret, lastPhase, interruption, evals, bodyLen, matchedRules>>
  BY Zenon DEF BeginWriteHeader, AddResponseHeader, evalVars, histVars
<1> USE <1>a
<1>b. /\ rw' \in WriterType /\ rw'.statusCode = code /\ rw'.wroteHeader = rw.wroteHeader
      /\ rw'.isWriteHeaderFlush = rw.isWriteHeaderFlush /\ rw'.wroteBuffered = rw.wroteBuffered
  <2>1. code \in Nat \ {0}
    BY Zenon, ConnFacts
  <2>2. rw \in WriterType
    BY Zenon DEF ConnType
  <2> QED
    BY Zenon, <2>1, <2>2 DEF WriterType
<1> USE <1>b
<1>c. call = "none" /\ (DeniedResponse => VerdictSent) /\ handler.served /\ ~handler.panicked
  BY Zenon, InHandler DEF ServedInv
<1> USE <1>c
<1>1. ConnType'
  BY Zenon DEF ConnType
<1>2. RequestInv'
  BY Zenon DEF RequestInv
<1>3. CallInv' /\ EngineInv'
  BY Zenon DEF CallInv, Labels, EngineInv, EngineOff
<1>4. ServedInv'
  BY Zenon, SameMatches DEF ServedInv, LimitVerdict
<1>5. HeadersInv'
  BY Zenon DEF HeadersInv, HeadersEvaluated, EngineOff
<1>6. UnsentInv'
  BY Zenon DEF UnsentInv, Unsent
<1>7. DenyInv'
  BY Zenon, SameMatches DEF DenyInv, VerdictSent
<1> QED
  BY Zenon, <1>1, <1>2, <1>3, <1>4, <1>5, <1>6, <1>7

LEMMA HandlerWriteInv ==
  ASSUME Inv, HttpInv, NEW n \in Slices, HandlerWrite(n)
  PROVE  HttpInv'
<1> USE DEF HttpInv, RequestLabels, HandlerLabels, CalledLabels, ResponseLabels, EndLabels
<1> USE QuietFacts
<1>0. pc = "handler" /\ call = "none" /\ (DeniedResponse => VerdictSent)
  BY Zenon, InHandler DEF HandlerWrite
<1> USE <1>0
<1>a. /\ handler' \in HandlerType /\ handler'.served = handler.served
      /\ handler'.panicked = handler.panicked
  <2>1. handler.wrote + n \in 0..MaxWritten /\ handler \in HandlerType
    BY ConnFacts, ConnFields DEF HandlerWrite, ConnType
  <2>2. handler' = [handler EXCEPT !.wrote = handler.wrote + n]
    BY Zenon DEF HandlerWrite
  <2> QED
    BY Zenon, <2>1, <2>2 DEF HandlerType
<1> USE <1>a
<1> DEFINE next == [kind |-> "write", n |-> n]
<1>b. next \in PendingType /\ next.kind = "write" /\ next.n = n
  BY Zenon, ConnFacts DEF PendingType
<1>1. CASE UNCHANGED <<vars, pc, request, rw, pending, down>>
  <2>1. ConnType'
    BY Zenon, <1>1 DEF ConnType
  <2>2. RequestInv' /\ ServedInv' /\ CallInv' /\ EngineInv'
    BY Zenon, <1>1, ResponseSide
  <2>3. HeadersInv' /\ UnsentInv'
    BY <1>1 DEF HeadersInv, UnsentInv, Unsent, Buffering, IsResponseBodyProcessable
  <2>4. DenyInv'
    BY Zenon, <1>1 DEF DenyInv, VerdictSent
  <2> QED
    BY Zenon, <2>1, <2>2, <2>3, <2>4
<1>2. CASE BeginWriteHeader(OK, next)
  <2> HIDE DEF next
  <2>1. OK \in Codes \cup {OK}
    BY Zenon
  <2> QED
    BY Zenon, <1>2, <1>b, <2>1, BeginWriteHeaderInv
<1>3. CASE interruption = Nil /\ ~HeaderDue /\ pending' = next /\ pc' = "write" /\ UNCHANGED <<vars, request, rw, down>>
  <2> HIDE DEF next
  <2>0. rw.wroteHeader
    BY Zenon, <1>3 DEF HeaderDue
  <2>1. ConnType'
    BY Zenon, <1>3, <1>b DEF ConnType
  <2>2. RequestInv' /\ ServedInv' /\ CallInv' /\ EngineInv'
    BY Zenon, <1>3, ResponseSide
  <2>3. HeadersInv' /\ UnsentInv'
    BY <1>3, <2>0 DEF HeadersInv, UnsentInv, Unsent, Buffering, IsResponseBodyProcessable
  <2>4. DenyInv'
    BY Zenon, <1>3 DEF DenyInv, VerdictSent
  <2> QED
    BY Zenon, <2>1, <2>2, <2>3, <2>4
<1> QED
  BY Zenon, <1>1, <1>2, <1>3 DEF HandlerWrite, Goto

LEMMA HandlerHeaderInv ==
  ASSUME Inv, HttpInv, HandlerFlush \/ \E code \in Codes : HandlerWriteHeader(code)
  PROVE  HttpInv'
<1>1. PICK code \in Codes \cup {OK} : BeginWriteHeader(code, Nothing)
  BY Zenon DEF HandlerFlush, HandlerWriteHeader
<1>2. pc = "handler" /\ handler' = handler
  BY Zenon DEF HandlerFlush, HandlerWriteHeader
<1>3. Nothing \in PendingType /\ Nothing.kind # "write"
  BY Zenon DEF Nothing, PendingType
<1>4. handler' \in HandlerType
  BY Zenon, <1>2 DEF HttpInv, ConnType
<1> QED
  BY Zenon, <1>1, <1>2, <1>3, <1>4, BeginWriteHeaderInv

----------------------------------------------------------------------------
LEMMA CallResponseHeadersInv ==
  ASSUME Inv, HttpInv, Inv', CallResponseHeaders
  PROVE  HttpInv'
<1> USE DEF HttpInv, RequestLabels, HandlerLabels, CalledLabels, ResponseLabels, EndLabels
<1>0. /\ pc = "phase3" /\ pc' = "phase3Done" /\ UNCHANGED <<request, rw, pending, down, handler>>
      /\ ProcessHeaders(3)
  BY Zenon DEF CallResponseHeaders, ProcessResponseHeaders, Goto
<1> USE <1>0
<1>1. Calls(3) /\ bodyLen' = bodyLen
  BY Zenon, HeadersCall DEF Inv
<1>2. /\ UNCHANGED <<waf, conf, open, interruption, matchedRules>> /\ open /\ lastPhase # 5
      /\ ~rw.wroteHeader /\ handler.served /\ ~handler.panicked
      /\ DeniedResponse => VerdictSent
  BY Zenon, <1>1, InHandler DEF Calls, CallInv, ConnType, ServedInv
<1>3. ConnType'
  BY Zenon DEF ConnType
<1>4. CallInv'
  BY <1>1, <1>2 DEF CallInv, Labels, Calls
<1>5. RequestInv' /\ EngineInv'
  BY Zenon, <1>1, <1>2 DEF RequestInv, EngineInv, EngineOff, Calls
<1>6. ServedInv'
  BY Zenon, <1>2, SameMatches DEF ServedInv, LimitVerdict
<1>7. HeadersInv'
  <2>1. CASE call' = "none" /\ UNCHANGED <<lastPhase, evals>>
    <3>1. EngineOff \/ lastPhase >= 3 \/ interruption # Nil
      BY Zenon, <1>1, <2>1 DEF Calls
    <3> QED
      BY Zenon, <1>1, <1>2, <2>1, <3>1 DEF HeadersInv, HeadersEvaluated, EngineOff
  <2>2. CASE call' = "phase" /\ lastPhase' = 3
    <3>1. evals'[3] = 1
      BY Zenon, <2>2 DEF Inv, PhaseInv
    <3> QED
      BY Zenon, <3>1 DEF HeadersInv, HeadersEvaluated
  <2> QED
    BY Zenon, <1>1, <2>1, <2>2 DEF Calls
<1>8. UnsentInv'
  <2>1. call' # "none" => interruption = Nil
    BY Zenon, <1>1 DEF Calls
  <2>2. call' = "none" => ret'.it = interruption
    BY Zenon, <1>1, <1>2 DEF Calls, EngineInv, Logging
  <2>3. interruption = Nil => Unsent /\ ~rw.wroteBuffered /\ bodyLen["res"] = 0
    BY Zenon, <1>2 DEF UnsentInv
  <2>4. Unsent' <=> Unsent
    BY Zenon DEF Unsent
  <2> QED
    BY Zenon, <1>1, <1>2, <2>1, <2>2, <2>3, <2>4 DEF UnsentInv
<1>9. DenyInv'
  BY Zenon, <1>2, SameMatches DEF DenyInv, VerdictSent
<1> QED
  BY Zenon, <1>3, <1>4, <1>5, <1>6, <1>7, <1>8, <1>9

LEMMA CallWriteBodyInv ==
  ASSUME Inv, HttpInv, CallWriteBody
  PROVE  HttpInv'
<1> USE DEF HttpInv, RequestLabels, HandlerLabels, CalledLabels, ResponseLabels, EndLabels
<1>0. /\ pc = "write" /\ Buffering /\ pc' = "written" /\ UNCHANGED <<request, rw, pending, down, handler>>
      /\ WriteBody("res", pending.n)
  BY Zenon DEF CallWriteBody, WriteResponseBody, Goto
<1> USE <1>0
<1>1. Writes("res", pending.n)
  <2>1. "res" \in Sides /\ pending.n \in Nat /\ WriteStep("res", pending.n)
    BY Zenon, ConnFields DEF Sides, WriteStep
  <2>2. bodyLen["res"] <= Limit("res") /\ TypeOK
    BY Zenon, <2>1 DEF Inv, BodyInv, WithinLimits
  <2> QED
    BY Zenon, <2>1, <2>2, WriteCall
<1>2. /\ UNCHANGED <<waf, conf, open, matchedRules>> /\ open /\ lastPhase # 5 /\ call = "none"
      /\ handler.served /\ ~handler.panicked /\ ~rw.wroteBuffered
      /\ DeniedResponse => VerdictSent
      /\ interruption = Nil => Unsent /\ rw.wroteHeader
  BY Zenon, <1>1, InHandler DEF Writes, CallInv, ServedInv, Buffering, UnsentInv
<1>a. evals \in [Phases -> Nat] /\ 3 \in Phases /\ LimitVerdict("res") # Nil
  BY LimitVerdictNotNil DEF Inv, TypeOK, Phases, Sides
<1>3. ConnType'
  BY Zenon, <1>1 DEF ConnType, Writes
<1>4. CallInv'
  BY <1>1, <1>2 DEF CallInv, Labels, Writes, HeadersPhase
<1>5. RequestInv' /\ EngineInv'
  BY Zenon, <1>1, <1>2 DEF RequestInv, EngineInv, EngineOff, Writes, Logging
<1>6. ServedInv'
  <2>1. interruption' # LimitVerdict("req")
    BY <1>1, <1>2, LimitVerdictNotNil DEF Writes, LimitVerdict, ServedInv, Sides
  <2> QED
    BY Zenon, <1>2, <2>1, SameMatches DEF ServedInv
<1>7. HeadersInv'
  <2>1. HeadersEvaluated
    BY Zenon DEF HeadersInv
  <2>2. evals[3] = 1 => evals'[3] = 1
    BY <1>1, <1>a DEF Writes, HeadersPhase
  <2>3. ~EngineOff \/ (call' = "none" /\ UNCHANGED <<lastPhase, evals, interruption>>)
    BY Zenon, <1>1 DEF Writes
  <2> QED
    BY Zenon, <1>2, <2>1, <2>2, <2>3 DEF HeadersInv, HeadersEvaluated, EngineOff
<1>8. UnsentInv'
  <2>1. call' # "none" \/ interruption' = Nil => interruption = Nil
    BY Zenon, <1>1, <1>a DEF Writes
  <2>2. call' = "none" /\ ret'.it # Nil => ret'.it = interruption'
    BY Zenon, <1>1 DEF Writes
  <2>3. Unsent' <=> Unsent
    BY Zenon DEF Unsent
  <2> QED
    BY Zenon, <1>2, <2>1, <2>2, <2>3 DEF UnsentInv
<1>9. DenyInv'
  BY Zenon, <1>2, SameMatches DEF DenyInv, VerdictSent
<1> QED
  BY Zenon, <1>3, <1>4, <1>5, <1>6, <1>7, <1>8, <1>9

LEMMA CallResponseBodyInv ==
  ASSUME Inv, HttpInv, CallResponseBody
  PROVE  HttpInv'
<1> USE DEF HttpInv, RequestLabels, HandlerLabels, CalledLabels, ResponseLabels, EndLabels
<1>0. /\ pc = "respond" /\ interruption = Nil /\ Buffering /\ pc' = "phase4Done"
      /\ UNCHANGED <<request, rw, pending, down, handler, open, bodyLen>>
      /\ Idle /\ ProcessBody("res", bodyLen["res"], 0)
  BY Zenon DEF CallResponseBody, ProcessResponseBody, Goto
<1> USE <1>0
<1>1. Calls(4)
  BY BodyCall DEF Inv, Sides, HeadersPhase
<1>2. /\ UNCHANGED <<waf, conf, open, interruption, matchedRules>> /\ open /\ lastPhase # 5
      /\ handler.served /\ ~handler.panicked /\ Unsent /\ ~rw.wroteBuffered /\ ~DeniedResponse
  BY Zenon, <1>1, NothingDenied DEF Calls, CallInv, ServedInv, UnsentInv, Buffering, Inv
<1>a. evals \in [Phases -> Nat] /\ 3 \in Phases
  BY DEF Inv, TypeOK, Phases
<1>3. ConnType'
  BY Zenon DEF ConnType
<1>4. CallInv'
  BY <1>1, <1>2 DEF CallInv, Labels, Calls
<1>5. RequestInv' /\ EngineInv'
  BY Zenon, <1>1, <1>2 DEF RequestInv, EngineInv, EngineOff, Calls
<1>6. ServedInv'
  BY Zenon, <1>2, SameMatches DEF ServedInv, LimitVerdict
<1>7. HeadersInv'
  <2>1. call' # "none" => lastPhase = 3 /\ ~EngineOff
    BY Zenon, <1>1 DEF Calls
  <2>2. call' # "none" => evals[3] = 1
    BY <2>1 DEF HeadersInv
  <2>3. evals[3] = 1 => evals'[3] = 1
    BY <1>1, <1>a DEF Calls
  <2>4. call' = "none" => UNCHANGED <<lastPhase, evals>>
    BY Zenon, <1>1 DEF Calls
  <2> QED
    BY Zenon, <1>2, <2>2, <2>3, <2>4 DEF HeadersInv, HeadersEvaluated, EngineOff
<1>8. UnsentInv'
  <2>1. call' = "none" => ret'.it = interruption
    BY Zenon, <1>1 DEF Calls
  <2>2. Unsent' <=> Unsent
    BY Zenon DEF Unsent
  <2> QED
    BY Zenon, <1>2, <2>1, <2>2 DEF UnsentInv
<1>9. DenyInv'
  BY Zenon, <1>2, SameMatches DEF DenyInv
<1> QED
  BY Zenon, <1>3, <1>4, <1>5, <1>6, <1>7, <1>8, <1>9

LEMMA CallLoggingInv ==
  ASSUME Inv, HttpInv, CallLogging
  PROVE  HttpInv'
<1> USE DEF HttpInv, RequestLabels, HandlerLabels, CalledLabels, ResponseLabels, EndLabels
<1>0. /\ pc = "deferred" /\ pc' = "logged" /\ UNCHANGED <<request, rw, pending, down, handler>>
  BY Zenon DEF CallLogging, Goto
<1> USE <1>0
<1>1. /\ UNCHANGED <<waf, conf, open, interruption, matchedRules, bodyLen>> /\ call = "none" /\ open
      /\ \/ EngineOff /\ UNCHANGED <<lastPhase, call, evals>>
         \/ /\ ~EngineOff /\ lastPhase' = 5 /\ call' = "log"
            /\ evals' = [evals EXCEPT ![5] = @ + 1]
  BY Zenon DEF CallLogging, ProcessLogging, EnterEval, BeginEval, Idle, evalVars, bodyVars, Logging
<1>2. ConnType'
  BY Zenon DEF ConnType
<1>3. CallInv'
  BY Zenon, <1>1 DEF CallInv, Labels
<1>4. RequestInv' /\ UnsentInv'
  BY Zenon, EndSide
<1>5. EngineInv'
  BY Zenon, <1>1 DEF EngineInv, EngineOff, Logging
<1>6. ServedInv'
  BY Zenon, <1>1, SameMatches DEF ServedInv, LimitVerdict
<1>7. HeadersInv'
  <2>1. evals \in [Phases -> Nat] /\ 3 \in Phases
    BY DEF Inv, TypeOK, Phases
  <2>2. evals[3] = 1 => evals'[3] = 1
    BY <1>1, <2>1
  <2> QED
    BY Zenon, <1>1, <2>2 DEF HeadersInv, HeadersEvaluated, EngineOff
<1>8. DenyInv'
  BY Zenon, <1>1, SameMatches DEF DenyInv, ClientStatus
<1> QED
  BY Zenon, <1>2, <1>3, <1>4, <1>5, <1>6, <1>7, <1>8

LEMMA CallCloseInv ==
  ASSUME Inv, HttpInv, CallClose
  PROVE  HttpInv'
<1> USE DEF HttpInv, RequestLabels, HandlerLabels, CalledLabels, ResponseLabels, EndLabels
<1>0. /\ pc = "logged" /\ call = "none" /\ pc' = "closed" /\ UNCHANGED <<request, rw, pending, down, handler>>
  BY Zenon DEF CallClose, Returned, Goto
<1> USE <1>0
<1>1. /\ UNCHANGED <<waf, call, lastPhase, interruption, matchedRules, evals>>
      /\ ~open' /\ bodyLen' = [s \in Sides |-> 0]
      /\ conf' = [conf EXCEPT !.reqbodyProcessor = "none", !.resBodyProcessor = "none"]
  BY Zenon DEF CallClose, Close, histVars
<1>2. EngineOff' <=> EngineOff
  BY Zenon, <1>1 DEF Inv, TypeOK, EvalTypeOK, Confs, EngineOff
<1>3. ConnType'
  BY Zenon DEF ConnType
<1>4. CallInv'
  BY Zenon, <1>1 DEF CallInv, Labels
<1>5. RequestInv' /\ UnsentInv'
  BY Zenon, EndSide
<1>6. EngineInv'
  BY Zenon, <1>1, <1>2 DEF EngineInv
<1>7. ServedInv'
  BY Zenon, <1>1, SameMatches DEF ServedInv, LimitVerdict
<1>8. HeadersInv'
  <2>1. bodyLen'["res"] = 0
    BY Zenon, <1>1 DEF Sides
  <2> QED
    BY <1>1, <1>2, <2>1 DEF HeadersInv, HeadersEvaluated
<1>9. DenyInv'
  BY Zenon, <1>1, SameMatches DEF DenyInv, ClientStatus
<1> QED
  BY Zenon, <1>3, <1>4, <1>5, <1>6, <1>7, <1>8, <1>9

----------------------------------------------------------------------------
\* The evaluation of rules changes the configuration only while a rule is evaluated.
LEMMA EvaluatingConf ==
  ASSUME Evaluating
  PROVE  conf' = conf \/ link # 0
<1> USE DEF Evaluating
<1>1. CASE LinkMatches
  BY SMTT(30), <1>1 DEF LinkMatches, AtLink
<1>2. CASE RuleMatches
  BY Zenon, <1>2 DEF RuleMatches
<1>3. CASE BreakOnInterruption \/ PassOver \/ PassUntilMark
  BY SMTT(30), <1>3 DEF BreakOnInterruption, PassOver, PassUntilMark
<1>4. CASE PassSkipped \/ BreakOnAllow \/ Evaluate \/ LinkFails
  BY SMTT(30), <1>4 DEF PassSkipped, BreakOnAllow, Evaluate, LinkFails
<1> QED
  BY Zenon, <1>1, <1>2, <1>3, <1>4 DEF EvalStep

\* A rule that matches: what was denied stays so, and a rule that denies is the first,
\* and its verdict that of the transaction.
LEMMA MatchDenials ==
  ASSUME Inv, Evaluating, RuleMatches
  PROVE  /\ UNCHANGED <<waf, conf, lastPhase>>
         /\ lastPhase \notin {1, 2} => (DeniedRequest' <=> DeniedRequest)
         /\ lastPhase \notin {3, 4} => /\ Denials' = Denials
                                       /\ DeniedResponse' <=> DeniedResponse
         /\ \/ interruption' = interruption /\ Denials' = Denials /\ (DeniedResponse' <=> DeniedResponse)
            \/ /\ interruption' # Nil /\ ~EngineOff /\ \A s \in Sides : interruption' # LimitVerdict(s)
               /\ lastPhase # 5 => \A v \in Denials' : v = interruption'
<1>a. UNCHANGED <<waf, conf, lastPhase>>
  BY Zenon DEF RuleMatches
<1> USE <1>a
<1>b. IsRule(Rule) /\ link # 0 /\ cur \in 1..Len(Rules) /\ Rule = Rules[cur]
  <2>1. EvalTypeOK /\ cur \in 1..Len(Rules)
    BY Zenon DEF Inv, TypeOK, RuleMatches
  <2> QED
    BY Zenon, <2>1, MatchedLink DEF Rule
<1> USE <1>b
<1>c. Rules' = Rules /\ DOMAIN Rules = 1..Len(Rules)
  <2>1. waf \in DOMAIN Wafs
    BY Zenon DEF Inv, TypeOK, EvalTypeOK
  <2> QED
    BY Zenon, <2>1, WafFacts DEF Rules, Waf
<1> USE <1>c
<1>d. interruption' = IF Denies(Rule) THEN Verdict(Rule) ELSE interruption
  BY Zenon DEF RuleMatches
<1>1. CASE Rule.id = 0
  <2>1. ~Denies(Rule)
    BY SMTT(30), <1>1 DEF IsRule, Denies, Interrupting
  <2>2. UNCHANGED <<matchedRules, interruption>>
    BY ZenonT(60), <1>1, <2>1 DEF RuleMatches
  <2> QED
    BY Zenon, <2>2, SameMatches
<1>2. CASE Rule.id # 0
  <2> DEFINE m == [phase |-> lastPhase, id |-> Rule.id, denied |-> Denies(Rule)]
             len == Len(matchedRules)
  <2>1. m \in Matches
    <3>1. lastPhase \in Phases
      BY DEF Inv, TypeOK, EvalTypeOK, Evaluating, Phases
    <3> QED
      BY SMTT(30), <1>2, <3>1 DEF IsRule, Matches, Denies
  <2>2. matchedRules' = Append(matchedRules, m)
    BY Zenon, <1>2 DEF RuleMatches
  <2> HIDE DEF m
  <2>3. /\ len \in Nat /\ DOMAIN matchedRules = 1..len
        /\ DOMAIN matchedRules' = 1..(len + 1)
        /\ matchedRules'[len + 1] = m
        /\ \A i \in 1..len : matchedRules'[i] = matchedRules[i]
    <3>1. matchedRules \in Seq(Matches)
      BY Zenon DEF Inv, TypeOK, EvalTypeOK
    <3> QED
      BY <2>1, <2>2, <3>1
  <2>4. m.phase = lastPhase /\ m.id = Rule.id /\ (m.denied <=> Denies(Rule))
    BY SMTT(30) DEF m
  <2> HIDE DEF len
  <2>a. \A P \in {{1, 2}, {3, 4}} : ~(Denies(Rule) /\ lastPhase \in P) => (DeniedIn(P)' <=> DeniedIn(P))
    <3> SUFFICES ASSUME NEW P \in {{1, 2}, {3, 4}}, ~(Denies(Rule) /\ lastPhase \in P)
                 PROVE  DeniedIn(P)' <=> DeniedIn(P)
      BY Zenon
    <3>1. DeniedIn(P) => DeniedIn(P)'
      BY <2>3 DEF DeniedIn
    <3>2. ASSUME NEW i \in 1..(len + 1), matchedRules'[i].denied, matchedRules'[i].phase \in P
          PROVE  DeniedIn(P)
      <4>1. i \in 1..len
        BY <2>3, <2>4, <3>2
      <4> QED
        BY Zenon, <2>3, <3>2, <4>1 DEF DeniedIn
    <3> QED
      BY Zenon, <2>3, <3>1, <3>2 DEF DeniedIn
  <2>b. ~(Denies(Rule) /\ lastPhase \in {3, 4}) => Denials' = Denials
    <3> SUFFICES ASSUME ~(Denies(Rule) /\ lastPhase \in {3, 4})
                 PROVE  Denials' = Denials
      BY Zenon
    <3>1. \A i \in 1..(len + 1) : matchedRules'[i].denied /\ matchedRules'[i].phase \in {3, 4} => i \in 1..len
      BY <2>3, <2>4
    <3>2. \A i \in 1..len : i \in 1..(len + 1)
      BY <2>3
    <3>3. DenyingRules' = DenyingRules
      BY ZenonT(40), <2>3, <3>1, <3>2 DEF DenyingRules
    <3> QED
      BY <3>3 DEF Denials, Verdict
  <2>5. CASE ~Denies(Rule)
    <3>1. interruption' = interruption
      BY Zenon, <1>d, <2>5
    <3> QED
      BY Zenon, <2>5, <2>a, <2>b, <3>1 DEF DeniedRequest, DeniedResponse
  <2>6. CASE Denies(Rule)
    <3>1. interruption' = Verdict(Rule) /\ Verdict(Rule) # Nil /\ Verdict(Rule).rule = Rule.id
      BY Zenon, <1>d, <2>6, VerdictNotNil DEF Denies, Verdict
    <3>2. \A s \in Sides : interruption' # LimitVerdict(s)
      BY <1>2, <3>1 DEF LimitVerdict
    <3>3. ~EngineOff
      BY Zenon, <2>6 DEF Denies, EngineOff
    <3>4. ASSUME lastPhase # 5, NEW v \in Denials'
          PROVE  v = interruption'
      <4>1. interruption = Nil
        BY Zenon, <3>4 DEF Inv, VerdictInv, Logging
      <4>2. \A i \in 1..len : ~(matchedRules[i].denied /\ matchedRules[i].phase \in {3, 4})
        BY <2>3, <4>1 DEF Inv, VerdictInv, Logging
      <4>3. PICK q \in DOMAIN Rules : /\ v = Verdict(Rules[q])
                                      /\ \E i \in 1..(len + 1) :
                                           /\ matchedRules'[i].denied /\ matchedRules'[i].phase \in {3, 4}
                                           /\ Rules[q].id = matchedRules'[i].id
        <5>1. PICK q \in DenyingRules' : v = Verdict(Rules[q])
          BY <3>4 DEF Denials, Verdict
        <5> QED
          BY Zenon, <2>3, <5>1 DEF DenyingRules
      <4>4. Rules[q].id = Rule.id
        BY <2>3, <2>4, <4>2, <4>3
      <4>5. q = cur
        <5>1. waf \in DOMAIN Wafs /\ Rules = Wafs[waf].rules
          BY Zenon DEF Inv, TypeOK, EvalTypeOK, Rules, Waf
        <5> QED
          BY Zenon, <1>2, <4>4, <5>1, WafsAssumption
      <4> QED
        BY Zenon, <3>1, <4>3, <4>5
    <3> QED
      BY Zenon, <2>a, <2>b, <3>1, <3>2, <3>3, <3>4 DEF DeniedRequest, DeniedResponse
  <2> QED
    BY Zenon, <2>5, <2>6
<1> QED
  BY Zenon, <1>1, <1>2

\* While a call goes on the connector waits, and nothing has been sent.
LEMMA WaitsUnsent ==
  ASSUME HttpInv, call # "none"
  PROVE  /\ pc \in {"phase1Done", "bodyRead", "phase2Done"} \cup CalledLabels \cup {"logged"}
         /\ pc \in {"phase1Done", "bodyRead", "phase2Done"} => lastPhase \in {1, 2}
         /\ pc \in CalledLabels => lastPhase \in {3, 4} /\ evals[3] = 1 /\ Unsent /\ ~rw.wroteBuffered
         /\ pc = "logged" => lastPhase = 5
<1> USE DEF RequestLabels, HandlerLabels, CalledLabels, ResponseLabels, EndLabels
<1>1. /\ pc \in {"phase1Done", "bodyRead", "phase2Done"} \cup CalledLabels \cup {"logged"}
      /\ pc \in {"phase1Done", "bodyRead", "phase2Done"} => lastPhase \in {1, 2}
      /\ pc \in CalledLabels => lastPhase \in {3, 4}
      /\ pc = "logged" => lastPhase = 5
  BY Zenon DEF HttpInv, CallInv
<1>2. pc \in CalledLabels => evals[3] = 1
  BY <1>1 DEF HttpInv, HeadersInv
<1>3. pc \in CalledLabels => Unsent /\ ~rw.wroteBuffered
  BY Zenon DEF HttpInv, UnsentInv
<1> QED
  BY Zenon, <1>1, <1>2, <1>3

LEMMA EvaluatingInv ==
  ASSUME Inv, HttpInv, Evaluating, UNCHANGED connVars
  PROVE  HttpInv'
<1> USE DEF HttpInv, RequestLabels, HandlerLabels, CalledLabels, ResponseLabels, EndLabels
<1>0. /\ call # "none" /\ UNCHANGED <<waf, open, call, lastPhase, evals, bodyLen, ret>>
      /\ UNCHANGED <<pc, request, rw, pending, down, handler>>
  BY Zenon, EvaluatingEffect DEF Inv, Evaluating, txVars, connVars
<1> USE <1>0
<1>a. /\ pc \in {"phase1Done", "bodyRead", "phase2Done"} \cup CalledLabels \cup {"logged"}
      /\ pc \in {"phase1Done", "bodyRead", "phase2Done"} => lastPhase \in {1, 2}
      /\ pc \in CalledLabels => lastPhase \in {3, 4} /\ evals[3] = 1 /\ Unsent /\ ~rw.wroteBuffered
      /\ pc = "logged" => lastPhase = 5
  BY Zenon, WaitsUnsent
<1> USE <1>a
<1>b. \/ UNCHANGED <<interruption, matchedRules>> /\ (conf' = conf \/ link # 0)
      \/ RuleMatches
  BY Zenon, EvaluatingEffect, EvaluatingConf DEF Inv
<1>c. /\ interruption' = Nil => interruption = Nil
      /\ \/ interruption' = interruption /\ Denials' = Denials /\ (DeniedResponse' <=> DeniedResponse)
         \/ /\ \A s \in Sides : interruption' # LimitVerdict(s)
            /\ lastPhase # 5 => \A v \in Denials' : v = interruption'
      /\ lastPhase \notin {1, 2} => (DeniedRequest' <=> DeniedRequest)
      /\ lastPhase \notin {3, 4} => Denials' = Denials /\ (DeniedResponse' <=> DeniedResponse)
  <2>1. CASE UNCHANGED <<interruption, matchedRules>>
    BY Zenon, <2>1, SameMatches
  <2>2. CASE RuleMatches
    BY Zenon, <2>2, MatchDenials
  <2> QED
    BY Zenon, <1>b, <2>1, <2>2
<1> USE <1>c
<1>1. ConnType'
  BY Zenon DEF ConnType
<1>2. CallInv'
  BY Zenon DEF CallInv
<1>3. RequestInv'
  BY Zenon DEF RequestInv
<1>4. EngineInv'
  <2>1. CASE UNCHANGED interruption /\ conf' = conf
    BY Zenon, <2>1 DEF EngineInv, EngineOff
  <2>2. CASE UNCHANGED interruption /\ link # 0
    BY Zenon, <2>2 DEF EngineInv, Inv, VerdictInv
  <2>3. CASE RuleMatches
    BY Zenon, <2>3, MatchDenials DEF EngineInv, EngineOff
  <2> QED
    BY Zenon, <1>b, <2>1, <2>2, <2>3
<1>5. ServedInv'
  <2>1. handler.served => lastPhase \notin {1, 2}
    BY DEF ServedInv
  <2>2. interruption' # interruption => interruption' # LimitVerdict("req")
    BY Zenon DEF Sides
  <2> QED
    BY <2>1, <2>2 DEF ServedInv, LimitVerdict
<1>6. HeadersInv'
  BY Zenon DEF HeadersInv, HeadersEvaluated
<1>7. UnsentInv'
  BY Zenon DEF UnsentInv, Unsent
<1>8. DenyInv'
  <2>1. CASE pc \in CalledLabels
    <3>1. Unsent'
      BY Zenon, <2>1 DEF Unsent
    <3>2. CASE interruption' = interruption /\ Denials' = Denials /\ (DeniedResponse' <=> DeniedResponse)
      BY Zenon, <2>1, <3>1, <3>2 DEF DenyInv, VerdictSent, VerdictDue
    <3>3. CASE lastPhase # 5 => \A v \in Denials' : v = interruption'
      BY <2>1, <3>1, <3>3 DEF DenyInv, VerdictDue
    <3> QED
      BY Zenon, <3>2, <3>3
  <2>2. CASE pc = "logged"
    BY <2>2 DEF DenyInv, ClientStatus
  <2>3. CASE pc \in RequestLabels
    BY Zenon, <2>3 DEF DenyInv
  <2> QED
    BY Zenon, <2>1, <2>2, <2>3
<1> QED
  BY Zenon, <1>1, <1>2, <1>3, <1>4, <1>5, <1>6, <1>7, <1>8

LEMMA ReturnInv ==
  ASSUME Inv, HttpInv, ReturnFromEval, UNCHANGED connVars
  PROVE  HttpInv'
<1> USE DEF HttpInv, RequestLabels, HandlerLabels, CalledLabels, ResponseLabels, EndLabels
<1>0. /\ call # "none" /\ call' = "none"
      /\ UNCHANGED <<waf, conf, open, lastPhase, interruption, matchedRules, evals, bodyLen>>
      /\ UNCHANGED <<pc, request, rw, pending, down, handler>>
      /\ call = "phase" => ret' = [ret EXCEPT !.it = interruption]
      /\ call # "phase" => ret' = ret
  BY Zenon DEF ReturnFromEval, EndEval, connVars, bodyVars, histVars
<1> USE <1>0
<1>a. /\ pc \in {"phase1Done", "bodyRead", "phase2Done"} \cup CalledLabels \cup {"logged"}
      /\ pc \in CalledLabels => lastPhase \in {3, 4} /\ evals[3] = 1 /\ Unsent /\ ~rw.wroteBuffered
  BY Zenon, WaitsUnsent
<1> USE <1>a
<1>b. ret'.n = ret.n /\ ret'.err = ret.err /\ (pc # "logged" => ret'.it = interruption)
  <2>1. pc # "logged" => call = "phase"
    BY Zenon DEF CallInv
  <2>2. ret \in Returns
    BY Zenon DEF Inv, TypeOK
  <2> QED
    BY Zenon, <2>1, <2>2 DEF Returns
<1> USE <1>b
<1>1. ConnType'
  BY Zenon DEF ConnType
<1>2. CallInv'
  BY Zenon DEF CallInv
<1>3. RequestInv'
  BY Zenon DEF RequestInv
<1>4. EngineInv'
  BY Zenon DEF EngineInv, EngineOff
<1>5. ServedInv'
  BY Zenon, SameMatches DEF ServedInv, LimitVerdict
<1>6. HeadersInv'
  BY Zenon DEF HeadersInv, HeadersEvaluated
<1>7. UnsentInv'
  BY Zenon DEF UnsentInv, Unsent
<1>8. DenyInv'
  BY Zenon, SameMatches DEF DenyInv, VerdictSent, VerdictDue, Unsent, ClientStatus
<1> QED
  BY Zenon, <1>1, <1>2, <1>3, <1>4, <1>5, <1>6, <1>7, <1>8

----------------------------------------------------------------------------
LEMMA HttpInitInv == HttpInit => Inv /\ HttpInv
<1> SUFFICES ASSUME HttpInit PROVE Inv /\ HttpInv
  BY Zenon
<1> USE DEF RequestLabels, HandlerLabels, CalledLabels, ResponseLabels, EndLabels
<1>0. /\ Init /\ pc = "start" /\ rw = NewInterceptor /\ pending = Nothing
      /\ down = Untouched /\ handler = NotCalled
      /\ request \in [size : BodySizes, taken : {0}, readable : {0}]
  BY Zenon DEF HttpInit, Untouched, NotCalled
<1> USE <1>0
<1>1. Inv
  BY Zenon, InitInv
<1>2. /\ open /\ call = "none" /\ interruption = Nil /\ lastPhase = 0
      /\ bodyLen["req"] = 0 /\ bodyLen["res"] = 0
  <2>1. open /\ call = "none" /\ interruption = Nil /\ lastPhase = 0
    BY Zenon DEF Init, EvalInit
  <2>2. NothingBuffered("req") /\ NothingBuffered("res")
    BY <2>1 DEF NothingBuffered, HeadersPhase
  <2> QED
    BY Zenon, <1>1, <2>1, <2>2 DEF Inv, BodyInv, Sides
<1>3. ConnType
  <2>1. 0 \in 0..MaxWritten /\ OK \in Nat \ {0}
    BY ConnFacts DEF OK
  <2>2. request \in RequestType
    BY DEF RequestType
  <2> QED
    BY Zenon, <2>1, <2>2 DEF ConnType, WriterType, PendingType, DownType, HandlerType, NewInterceptor, Nothing,
       Untouched, NotCalled
<1>4. CallInv /\ EngineInv
  BY <1>2 DEF CallInv, Labels, EngineInv
<1>5. RequestInv
  BY <1>2 DEF RequestInv
<1>6. ServedInv /\ HeadersInv
  BY <1>2 DEF ServedInv, HeadersInv, NewInterceptor, NotCalled, Untouched
<1>7. UnsentInv
  BY <1>2 DEF UnsentInv
<1>8. DenyInv
  BY <1>2 DEF DenyInv
<1> QED
  BY Zenon, <1>1, <1>3, <1>4, <1>5, <1>6, <1>7, <1>8 DEF HttpInv

LEMMA HttpStepInv == Inv /\ HttpInv /\ [HttpNext]_allVars => Inv' /\ HttpInv'
<1> SUFFICES ASSUME Inv, HttpInv, [HttpNext]_allVars PROVE Inv' /\ HttpInv'
  BY Zenon
<1> USE QuietFacts
<1>0. Inv'
  BY Zenon, HttpStepRefines, StepInv DEF HttpInv
<1> USE <1>0
<1>1. CASE ServeRaw \/ ProcessRequest \/ CallRequestHeaders \/ CallReadBody \/ KeepBody
  BY Zenon, <1>1, ServeRawInv, ProcessRequestInv, CallRequestHeadersInv, CallReadBodyInv, KeepBodyInv
<1>2. CASE CallRequestBody \/ RefuseRequest \/ FailRequest \/ Serve
  BY Zenon, <1>2, CallRequestBodyInv, RefuseRequestInv, FailRequestInv, ServeInv
<1>3. CASE CallResponseHeaders \/ BlockHeader \/ PassHeader
  BY Zenon, <1>3, CallResponseHeadersInv, BlockHeaderInv, PassHeaderInv
<1>4. CASE CallWriteBody \/ WriteDirect \/ BlockBody \/ EndWrite \/ Overflow
  BY Zenon, <1>4, CallWriteBodyInv, WriteDirectInv, BlockBodyInv, EndWriteInv, OverflowInv
<1>5. CASE CallResponseBody \/ RespondWithoutBody \/ Respond \/ CallLogging \/ CallClose
  BY Zenon, <1>5, CallResponseBodyInv, RespondWithoutBodyInv, RespondInv, CallLoggingInv, CallCloseInv
<1>6. CASE Handler
  BY Zenon, <1>6, HandlerHeaderInv, HandlerWriteInv, HandlerReturnsInv, HandlerPanicsInv DEF Handler
<1>7. CASE InCall
  BY Zenon, <1>7, EvaluatingInv, ReturnInv DEF InCall
<1>8. CASE NextRequest
  BY Zenon, <1>8, NextRequestInv
<1>9. CASE UNCHANGED allVars
  <2>0. UNCHANGED <<vars, pc, request, rw, pending, down, handler>>
    BY Zenon, <1>9 DEF allVars, connVars
  <2>1. ConnType'
    BY Zenon, <2>0 DEF HttpInv, ConnType
  <2>2. CallInv' /\ EngineInv'
    BY <2>0 DEF HttpInv, CallInv
  <2>3. RequestInv'
    BY Zenon, <2>0 DEF HttpInv, RequestInv
  <2>4. HeadersInv'
    BY Zenon, <2>0 DEF HttpInv, HeadersInv
  <2>5. ServedInv'
    BY Zenon, <2>0 DEF HttpInv, ServedInv, LimitVerdict
  <2>6. UnsentInv'
    <3>1. (Unsent' <=> Unsent) /\ (Buffering' <=> Buffering)
      BY <2>0 DEF Unsent, Buffering, IsResponseBodyProcessable
    <3> QED
      BY Zenon, <2>0, <3>1 DEF HttpInv, UnsentInv
  <2>7. DenyInv'
    BY Zenon, <2>0 DEF HttpInv, DenyInv, VerdictSent, VerdictDue, Unsent, ClientStatus
  <2> QED
    BY Zenon, <2>1, <2>2, <2>3, <2>4, <2>5, <2>6, <2>7 DEF HttpInv
<1> QED
  BY Zenon, <1>1, <1>2, <1>3, <1>4, <1>5, <1>6, <1>7, <1>8, <1>9 DEF HttpNext, Middleware

LEMMA HttpInvariance == HttpSpec => [](Inv /\ HttpInv)
<1>1. HttpInit => Inv /\ HttpInv
  BY Zenon, HttpInitInv
<1> QED
  BY <1>1, HttpStepInv, PTL DEF HttpSpec

----------------------------------------------------------------------------
\* The connector is a client of the transaction that Transaction allows: whatever the
\* handler does, phases, bodies and logging are called as the engine expects, and what
\* is proved of every such client holds of the transactions of WrapHandler.
THEOREM ConnectorCorrect == HttpSpec => Init /\ [][Next]_vars
<1>1. HttpInit => Init
  BY Zenon DEF HttpInit
<1>2. Inv /\ HttpInv /\ [HttpNext]_allVars => [Next]_vars
  BY Zenon, HttpStepRefines DEF HttpInv
<1> QED
  BY <1>1, <1>2, HttpInvariance, PTL DEF HttpSpec

\* WrapHandler and processRequest: a request that a rule of phase 1 or 2 denied, or whose
\* body was rejected, never reaches the handler.
THEOREM NotServedCorrect == HttpSpec => []DeniedIsNotServed
<1>1. HttpInv => DeniedIsNotServed
  BY Zenon DEF HttpInv, ServedInv, DeniedRequest, DeniedIsNotServed
<1> QED
  BY <1>1, HttpInvariance, PTL

LEMMA DeniedAnswer ==
  ASSUME Inv, HttpInv
  PROVE  DeniedAnswered
<1> USE DEF RequestLabels, HandlerLabels, CalledLabels, ResponseLabels, EndLabels
<1>1. NothingOfDenied
  <2>1. DeniedIn({1, 2, 3, 4}) => DeniedRequest \/ DeniedResponse
    BY Zenon DEF DeniedIn, DeniedRequest, DeniedResponse
  <2>2. CASE pc \in RequestLabels
    BY <2>2 DEF HttpInv, RequestInv, Untouched, NothingOfDenied
  <2>3. CASE pc \in ResponseLabels
    <3>1. ~DeniedRequest
      BY Zenon, <2>3 DEF HttpInv, ServedInv
    <3>2. DeniedResponse => down.bytes = 0
      BY <2>3 DEF HttpInv, DenyInv, VerdictSent, VerdictDue, Unsent, Untouched
    <3> QED
      BY Zenon, <2>1, <3>1, <3>2 DEF NothingOfDenied
  <2>4. CASE pc \in EndLabels
    BY Zenon, <2>1, <2>4 DEF HttpInv, DenyInv, NothingOfDenied
  <2> QED
    BY Zenon, <2>2, <2>3, <2>4 DEF HttpInv, CallInv, Labels
<1>2. DeniedHasItsStatus
  <2> SUFFICES ASSUME Ended, handler.served, ~handler.failed, ~handler.panicked,
                      NEW i \in DOMAIN matchedRules, NEW r \in DOMAIN Rules,
                      matchedRules[i].denied, matchedRules[i].phase \in {3, 4},
                      Rules[r].id = matchedRules[i].id, Rules[r].disruptive = "deny"
               PROVE  ClientStatus = Verdict(Rules[r]).status
    BY Zenon DEF DeniedHasItsStatus
  <2>1. Verdict(Rules[r]) \in Denials
    BY Zenon DEF Denials, DenyingRules
  <2> QED
    BY Zenon, <2>1 DEF HttpInv, DenyInv, Ended
<1> QED
  BY Zenon, <1>1, <1>2 DEF DeniedAnswered

\* rwInterceptor and the response processor: of a denied exchange not one byte of the
\* handler's response is sent, and a response denied by deny has the status of the rule,
\* whatever the handler writes before and after the verdict.
THEOREM AnsweredCorrect == HttpSpec => []DeniedAnswered
<1>1. Inv /\ HttpInv => DeniedAnswered
  BY Zenon, DeniedAnswer
<1> QED
  BY <1>1, HttpInvariance, PTL
=============================================================================
