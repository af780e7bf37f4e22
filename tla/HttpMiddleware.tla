--------------------------- MODULE HttpMiddleware ---------------------------
(***************************************************************************)
(* The net/http connector (http/middleware.go, http/interceptor.go) on top *)
(* of a Transaction: one goroutine serves a request after another with the *)
(* pooled transaction, calls the wrapped handler with the intercepted      *)
(* response writer, and ends every request with ProcessLogging and Close.  *)
(*                                                                         *)
(* pc is where the goroutine is; a step that calls into the transaction    *)
(* takes the action of Transaction, and the step after it waits for the    *)
(* call to return.  The handler is the application's: it may write the     *)
(* header, write slices, flush, return or panic in any order.  Bodies are  *)
(* counted in bytes.                                                       *)
(***************************************************************************)
EXTENDS Transaction

CONSTANTS
  BodySizes,    \* the sizes of request bodies
  Slices,       \* the sizes of the slices the handler writes
  Codes,        \* the status codes the handler sets
  MaxWritten    \* bound: bytes the handler writes per response

VARIABLES
  pc,        \* where the goroutine is
  request,   \* the request: size of its body, bytes the WAF took, bytes the handler can read
  rw,        \* the rwInterceptor
  pending,   \* what goes on after WriteHeader: nothing, a Write of n bytes, a Flush
  down,      \* the server's ResponseWriter: status sent, bytes sent, Content-Length: 0 sent
  handler    \* history: the handler was called, bytes it wrote, errors it was given

connVars == <<pc, request, rw, pending, down, handler>>
allVars == <<vars, connVars>>

OK == 200

\* What this connector offers is among what the transaction may be offered.
ASSUME ConnectorAssumption ==
  /\ BodySizes \subseteq Nat /\ Slices \subseteq Nat \ {0} /\ Codes \subseteq Nat \ {0}
  /\ MaxWritten \in 0..MaxOffered /\ \A size \in BodySizes : size <= MaxOffered
  /\ BodySizes \cup Slices \subseteq Chunks /\ Codes \cup {OK} \subseteq Statuses

InternalServerError == 500
BodylessCodes == {204, 205, 304}

\* The interceptor wrap makes.
NewInterceptor == [statusCode |-> OK, wroteHeader |-> FALSE, isWriteHeaderFlush |-> FALSE,
                   wroteBuffered |-> FALSE]
Nothing == [kind |-> "none", n |-> 0]

Fresh(size) ==
  /\ request' = [size |-> size, taken |-> 0, readable |-> 0]
  /\ rw' = NewInterceptor /\ pending' = Nothing
  /\ down' = [status |-> 0, bytes |-> 0, length0 |-> FALSE]
  /\ handler' = [served |-> FALSE, wrote |-> 0, failed |-> FALSE, panicked |-> FALSE]

HttpInit ==
  /\ Init
  /\ pc = "start"
  /\ request \in [size : BodySizes, taken : {0}, readable : {0}]
  /\ rw = NewInterceptor /\ pending = Nothing
  /\ down = [status |-> 0, bytes |-> 0, length0 |-> FALSE]
  /\ handler = [served |-> FALSE, wrote |-> 0, failed |-> FALSE, panicked |-> FALSE]

Goto(label) == pc' = label
Returned(label) == pc = label /\ call = "none"

\* obtainStatusCodeFromInterruptionOrDefault
StatusOf(it, default) ==
  IF it.action # "deny" THEN default ELSE IF it.status = 0 THEN 403 ELSE it.status

----------------------------------------------------------------------------
\* The server's ResponseWriter: the first status sent stays; nothing is written
\* beyond a Content-Length, nor for a status without body.
SendStatus(d, status, empty) ==
  IF d.status # 0 THEN d ELSE [d EXCEPT !.status = status, !.length0 = empty]
SendBytes(d, n) ==
  LET e == SendStatus(d, OK, FALSE)
  IN IF e.length0 \/ e.status \in BodylessCodes THEN e ELSE [e EXCEPT !.bytes = @ + n]

\* flushWriteHeader, with the headers as they are or cleaned to Content-Length: 0.
FlushHeader(r) == [r EXCEPT !.isWriteHeaderFlush = TRUE]
FlushDown(d, r, empty) ==
  IF r.isWriteHeaderFlush THEN d ELSE SendStatus(d, r.statusCode, empty)

\* Mutant: the headers are cleaned but no Content-Length is set.
CleanedNot == FALSE
Cleaned == TRUE

\* cleanHeaders, Content-Length: 0 and the status of the interruption.
SendVerdict(it) ==
  LET r == [rw EXCEPT !.statusCode = StatusOf(it, @)]
  IN /\ rw' = FlushHeader(r)
     /\ down' = FlushDown(down, r, Cleaned)

\* writeBufferedResponseBodyToDownstream, then n more bytes: a status without
\* body is not flushed and the buffer not copied.
WriteBuffered(n) ==
  LET bodyless == rw.statusCode \in BodylessCodes
      d == IF bodyless THEN down ELSE SendBytes(FlushDown(down, rw, FALSE), bodyLen["res"])
  IN /\ rw' = [(IF bodyless THEN rw ELSE FlushHeader(rw)) EXCEPT !.wroteBuffered = TRUE]
     /\ down' = IF n = 0 THEN d ELSE SendBytes(d, n)

----------------------------------------------------------------------------
\* WrapHandler when the engine is off: the handler gets the writer as it is.
ServeRaw ==
  /\ pc = "start" /\ EngineOff
  /\ request' = [request EXCEPT !.readable = request.size]
  /\ handler' = [handler EXCEPT !.served = TRUE]
  /\ Goto("deferred")
  /\ UNCHANGED <<vars, rw, pending, down>>

\* processRequest: connection, URI and headers, one of which may name a body processor.
ProcessRequest ==
  /\ pc = "start" /\ ~EngineOff
  /\ AddRequestHeader \/ UNCHANGED vars
  /\ Goto("phase1")
  /\ UNCHANGED <<request, rw, pending, down, handler>>

CallRequestHeaders ==
  /\ pc = "phase1"
  /\ ProcessRequestHeaders
  /\ Goto("phase1Done")
  /\ UNCHANGED <<request, rw, pending, down, handler>>

\* http.NoBody, or a body the WAF may not access, is left alone.
HasBody == conf.RequestBodyAccess /\ request.size > 0

CallReadBody ==
  /\ Returned("phase1Done") /\ ret.it = Nil
  /\ HasBody
  /\ \E breaks \in BOOLEAN : ReadRequestBodyFrom(request.size, FALSE, breaks)
  /\ Goto("bodyRead")
  /\ UNCHANGED <<request, rw, pending, down, handler>>

\* The handler will read the buffer and then what is left of the body.
KeepBody ==
  /\ Returned("bodyRead") /\ ret.it = Nil /\ ret.err = "none"
  /\ request' = [request EXCEPT !.taken = ret.n]
  /\ Goto("phase2")
  /\ UNCHANGED <<vars, rw, pending, down, handler>>

CallRequestBody ==
  /\ \/ Returned("phase1Done") /\ ret.it = Nil /\ ~HasBody
     \/ pc = "phase2"
  /\ ProcessRequestBody
  /\ Goto("phase2Done")
  /\ UNCHANGED <<request, rw, pending, down, handler>>

\* An interruption of the request: its status is all the client gets.
RefuseRequest ==
  /\ \E label \in {"phase1Done", "bodyRead", "phase2Done"} : Returned(label)
  /\ ret.err = "none" /\ ret.it # Nil
  /\ down' = SendStatus(down, StatusOf(ret.it, OK), FALSE)
  /\ Goto("deferred")
  /\ UNCHANGED <<vars, request, rw, pending, handler>>

\* An error while reading the body: nothing is written, the handler is not called.
FailRequest ==
  /\ Returned("bodyRead") /\ ret.err # "none"
  /\ Goto("deferred")
  /\ UNCHANGED <<vars, request, rw, pending, down, handler>>

\* Mutant: the rest of the body is not appended to the buffer.
RestOfBodyLost == 0
RestOfBody == request.size - request.taken

\* Mutant: the verdict on the request is not looked at.
PassedAlways == TRUE
Passed == ret.it = Nil

Serve ==
  /\ Returned("phase2Done") /\ Passed
  /\ request' = [request EXCEPT !.readable = bodyLen["req"] + RestOfBody]
  /\ rw' = NewInterceptor
  /\ handler' = [handler EXCEPT !.served = TRUE]
  /\ Goto("handler")
  /\ UNCHANGED <<vars, pending, down>>

----------------------------------------------------------------------------
\* rwInterceptor.WriteHeader, on its own or at the head of a Write or Flush.
BeginWriteHeader(code, next) ==
  /\ ~rw.wroteHeader
  /\ \E listed \in BOOLEAN : AddResponseHeader(listed)
  /\ rw' = [rw EXCEPT !.statusCode = code]
  /\ pending' = next
  /\ Goto("phase3")
  /\ UNCHANGED <<request, down>>

HandlerWriteHeader(code) ==
  /\ pc = "handler"
  /\ BeginWriteHeader(code, Nothing)
  /\ UNCHANGED handler

HandlerFlush ==
  /\ pc = "handler"
  /\ BeginWriteHeader(OK, Nothing)
  /\ UNCHANGED handler

CallResponseHeaders ==
  /\ pc = "phase3"
  /\ ProcessResponseHeaders(rw.statusCode)
  /\ Goto("phase3Done")
  /\ UNCHANGED <<request, rw, pending, down, handler>>

AfterHeader == Goto(IF pending.kind = "write" THEN "write" ELSE "handler")

\* The header is blocked; wroteHeader stays unset.
BlockHeader ==
  /\ Returned("phase3Done") /\ ret.it # Nil
  /\ SendVerdict(ret.it)
  /\ AfterHeader
  /\ UNCHANGED <<vars, request, pending, handler>>

PassHeader ==
  /\ Returned("phase3Done") /\ ret.it = Nil
  /\ rw' = [rw EXCEPT !.wroteHeader = TRUE]
  /\ AfterHeader
  /\ UNCHANGED <<vars, request, pending, down, handler>>

----------------------------------------------------------------------------
HeaderDue == ~rw.wroteHeader

\* rwInterceptor.Write of n bytes.
HandlerWrite(n) ==
  /\ pc = "handler"
  /\ handler.wrote + n <= MaxWritten
  /\ handler' = [handler EXCEPT !.wrote = @ + n]
  /\ \/ /\ interruption # Nil
        /\ UNCHANGED <<vars, pc, request, rw, pending, down>>
     \/ /\ interruption = Nil /\ HeaderDue
        /\ BeginWriteHeader(OK, [kind |-> "write", n |-> n])
     \/ /\ interruption = Nil /\ ~HeaderDue
        /\ pending' = [kind |-> "write", n |-> n]
        /\ Goto("write")
        /\ UNCHANGED <<vars, request, rw, down>>

Buffering == conf.ResponseBodyAccess /\ IsResponseBodyProcessable /\ ~rw.wroteBuffered

CallWriteBody ==
  /\ pc = "write" /\ Buffering
  /\ WriteResponseBody(pending.n)
  /\ Goto("written")
  /\ UNCHANGED <<request, rw, pending, down, handler>>

\* The body is not inspected: it goes to the client, unless the status has none.
WriteDirect ==
  /\ pc = "write" /\ ~Buffering
  /\ IF rw.statusCode \in BodylessCodes THEN UNCHANGED <<rw, down>>
     ELSE /\ rw' = FlushHeader(rw)
          /\ down' = SendBytes(FlushDown(down, rw, FALSE), pending.n)
  /\ Goto("handler")
  /\ UNCHANGED <<vars, request, pending, handler>>

BlockBody ==
  /\ Returned("written") /\ ret.it # Nil
  /\ SendVerdict(ret.it)
  /\ Goto("handler")
  /\ UNCHANGED <<vars, request, pending, handler>>

\* All bytes buffered, or an error that the handler is given.
EndWrite ==
  /\ Returned("written") /\ ret.it = Nil
  /\ ret.err # "none" \/ ret.n = pending.n
  /\ handler' = [handler EXCEPT !.failed = @ \/ ret.err # "none"]
  /\ Goto("handler")
  /\ UNCHANGED <<vars, request, rw, pending, down>>

Rest == pending.n - ret.n

\* The limit cut the slice: the inspected part and the rest go to the client.
Overflow ==
  /\ Returned("written") /\ ret.it = Nil
  /\ ret.err = "none" /\ ret.n # pending.n
  /\ WriteBuffered(Rest)
  /\ Goto("handler")
  /\ UNCHANGED <<vars, request, pending, handler>>

----------------------------------------------------------------------------
HandlerReturns ==
  /\ pc = "handler"
  /\ Goto("respond")
  /\ UNCHANGED <<vars, request, rw, pending, down, handler>>

\* The server recovers from the panic; the deferred calls run first.
HandlerPanics ==
  /\ pc = "handler"
  /\ handler' = [handler EXCEPT !.panicked = TRUE]
  /\ Goto("deferred")
  /\ UNCHANGED <<vars, request, rw, pending, down>>

\* The response processor that wrap returns.
CallResponseBody ==
  /\ pc = "respond" /\ interruption = Nil /\ Buffering
  /\ ProcessResponseBody
  /\ Goto("phase4Done")
  /\ UNCHANGED <<request, rw, pending, down, handler>>

RespondWithoutBody ==
  /\ pc = "respond" /\ (interruption # Nil \/ ~Buffering)
  /\ IF interruption # Nil THEN UNCHANGED <<rw, down>>
     ELSE rw' = FlushHeader(rw) /\ down' = FlushDown(down, rw, FALSE)
  /\ Goto("deferred")
  /\ UNCHANGED <<vars, request, pending, handler>>

Respond ==
  /\ Returned("phase4Done")
  /\ \/ /\ ret.err # "none"
        /\ LET r == [rw EXCEPT !.statusCode = InternalServerError]
           IN rw' = FlushHeader(r) /\ down' = FlushDown(down, r, FALSE)
        /\ handler' = [handler EXCEPT !.failed = TRUE]
     \/ /\ ret.err = "none" /\ ret.it # Nil
        /\ SendVerdict(ret.it)
        /\ UNCHANGED handler
     \/ /\ ret.err = "none" /\ ret.it = Nil
        /\ WriteBuffered(0)
        /\ UNCHANGED handler
  /\ Goto("deferred")
  /\ UNCHANGED <<vars, request, pending>>

----------------------------------------------------------------------------
CallLogging ==
  /\ pc = "deferred"
  /\ ProcessLogging
  /\ Goto("logged")
  /\ UNCHANGED <<request, rw, pending, down, handler>>

CallClose ==
  /\ Returned("logged")
  /\ Close
  /\ Goto("closed")
  /\ UNCHANGED <<request, rw, pending, down, handler>>

\* The next request, served with the object the pool gives back.
NextRequest ==
  /\ pc = "closed"
  /\ newTransaction
  /\ \E size \in BodySizes : Fresh(size)
  /\ Goto("start")

\* A call into the transaction goes on.
InCall == (Evaluating \/ ReturnFromEval) /\ UNCHANGED connVars

Middleware ==
  \/ ServeRaw \/ ProcessRequest \/ CallRequestHeaders \/ CallReadBody \/ KeepBody
  \/ CallRequestBody \/ RefuseRequest \/ FailRequest \/ Serve
  \/ CallResponseHeaders \/ BlockHeader \/ PassHeader
  \/ CallWriteBody \/ WriteDirect \/ BlockBody \/ EndWrite \/ Overflow
  \/ CallResponseBody \/ RespondWithoutBody \/ Respond \/ CallLogging \/ CallClose

Handler ==
  \/ \E code \in Codes : HandlerWriteHeader(code)
  \/ \E n \in Slices : HandlerWrite(n)
  \/ HandlerFlush \/ HandlerReturns \/ HandlerPanics

HttpNext == Middleware \/ Handler \/ InCall \/ NextRequest

\* The goroutine runs; the application's handler is assumed to return.
HttpFairness == WF_allVars(Middleware) /\ WF_allVars(InCall) /\ SF_allVars(HandlerReturns)

HttpSpec == HttpInit /\ [][HttpNext]_allVars /\ HttpFairness

----------------------------------------------------------------------------
\* Type invariant of the connector.
HttpTypeOK ==
  /\ TypeOK
  /\ request \in [size : BodySizes, taken : Nat, readable : Nat]
  /\ rw \in [statusCode : Nat, wroteHeader : BOOLEAN, isWriteHeaderFlush : BOOLEAN,
             wroteBuffered : BOOLEAN]
  /\ pending \in [kind : {"none", "write"}, n : Nat]
  /\ down \in [status : Nat, bytes : Nat, length0 : BOOLEAN]
  /\ handler \in [served : BOOLEAN, wrote : 0..MaxWritten, failed : BOOLEAN,
                  panicked : BOOLEAN]

DeniedIn(phases) ==
  \E i \in DOMAIN matchedRules : matchedRules[i].denied /\ matchedRules[i].phase \in phases

\* A request that a rule of phase 1 or 2 denied, or whose body was rejected, never
\* reaches the handler, wherever processRequest was when the verdict came (in the
\* headers, inside ReadRequestBodyFrom, or in ProcessRequestBody).
DeniedIsNotServed ==
  handler.served => ~DeniedIn({1, 2}) /\ interruption # LimitVerdict("req")

\* The handler reads the body the client sent, byte count for byte count, however
\* much of it the WAF took into its buffer (the MultiReader of processRequestBody).
RequestIntact == handler.served => request.readable = request.size

\* Not one byte of a response that a rule of phase 3 or 4 denied reaches the
\* client, whatever the handler writes before and after the verdict.
NothingOfDenied == DeniedIn({1, 2, 3, 4}) => down.bytes = 0

Ended == pc \in {"deferred", "logged", "closed"}

ClientStatus == IF down.status = 0 THEN OK ELSE down.status

\* A response denied by deny has the status of that rule, not the one the handler
\* set, also when the handler goes on writing and the body limit replaces the verdict.
DeniedHasItsStatus ==
  Ended /\ handler.served /\ ~handler.failed /\ ~handler.panicked =>
     \A i \in DOMAIN matchedRules, r \in DOMAIN Rules :
        matchedRules[i].denied /\ matchedRules[i].phase \in {3, 4}
        /\ Rules[r].id = matchedRules[i].id /\ Rules[r].disruptive = "deny"
          => ClientStatus = Verdict(Rules[r]).status

Undisturbed ==
  handler.served /\ ~handler.failed /\ ~handler.panicked /\ interruption = Nil

\* What no rule objected to arrives: all the bytes the handler wrote, once and in
\* full, whether they were buffered, written through, or cut by the body limit.
ResponseIntact ==
  pc = "deferred" /\ Undisturbed /\ rw.statusCode \notin BodylessCodes
    => down.bytes = handler.wrote /\ ClientStatus = rw.statusCode

\* No byte leaves before the rules of the response headers phase were evaluated.
HeadersBeforeBytes == down.bytes > 0 /\ ~EngineOff => evals[3] = 1

\* The bodies pass through the middleware unharmed in both directions, the headers of
\* a response before its bytes.
BodiesIntact == HttpTypeOK /\ RequestIntact /\ ResponseIntact /\ HeadersBeforeBytes

\* The answer to a denied exchange is that of the rule: its status and no byte of the
\* handler's response.
DeniedAnswered == NothingOfDenied /\ DeniedHasItsStatus

\* Every request is logged and its transaction closed: whatever the rules, the
\* handler and the buffers do, the deferred calls are reached and return.
RequestsEnd == (pc = "start") ~> (pc = "closed")

\* Claims of the comments that the code does not keep.

\* interceptor.go: the status recorded by WriteHeader is the one that is sent.
RecordedStatusSent ==
  pc = "deferred" /\ Undisturbed => ClientStatus = rw.statusCode
=============================================================================
