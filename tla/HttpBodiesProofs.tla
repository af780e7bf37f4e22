-------------------------- MODULE HttpBodiesProofs --------------------------
(***************************************************************************)
(* What HttpMiddleware does not deny passes in full, for every rule set    *)
(* that satisfies StaysForced, every configuration, every handler and all  *)
(* sizes of bodies.  The bytes that a handler wrote are counted wherever   *)
(* they are: with the client, in the buffer, or in a write under way.      *)
(***************************************************************************)
EXTENDS HttpMiddlewareProofs

\* No rule that is evaluated in phase 4 switches ForceResponseBodyVariable off.  With
\* one that does, a body of which every byte was buffered is never sent: the
\* interceptor no longer takes it for one it has to copy back.
StaysForced ==
  \A w \in DOMAIN Wafs : \A i \in 1..Len(Wafs[w].rules) :
     Wafs[w].rules[i].phase \in {0, 4} =>
       \A k \in 1..Len(Wafs[w].rules[i].links) :
          LET c == Wafs[w].rules[i].links[k].ctl
          IN c.field = "ForceResponseBodyVariable" => c.value = TRUE

\* Of what the handler wrote, the bytes in the buffer and those of the write under way.
InBuffer == IF rw.wroteBuffered THEN 0 ELSE bodyLen["res"]
InWrite == IF pc \in {"phase3", "phase3Done", "write"} /\ pending.kind = "write"
           THEN pending.n ELSE 0

\* The responses whose bytes are counted: no write failed, the status allows a body.
Counted == ~handler.failed /\ rw.statusCode \notin BodylessCodes

\* Bytes in the buffer are going to be copied back.
BufferInv ==
  /\ pc \in {"written", "phase4Done"} => Buffering /\ (link # 0 => Rule.phase \in {0, 4})
  /\ pc \in HandlerLabels /\ interruption = Nil /\ bodyLen["res"] > 0 => rw.wroteBuffered \/ Buffering

\* Every byte the handler wrote was sent, is buffered or is being written.
CountInv ==
  /\ pc \in HandlerLabels \cup {"phase3Done"} /\ interruption = Nil /\ ~rw.wroteHeader
       => handler.wrote = InWrite
  /\ pc \in HandlerLabels /\ interruption = Nil /\ Counted =>
       /\ handler.wrote = down.bytes + InBuffer + InWrite
       /\ down.status = IF rw.isWriteHeaderFlush THEN rw.statusCode ELSE 0
       /\ ~down.length0
  /\ pc = "written" /\ interruption = Nil /\ Counted /\ ret.err = "none"
       => handler.wrote = bodyLen["res"] + (pending.n - ret.n)
  /\ pc = "phase4Done" /\ interruption = Nil /\ Counted => handler.wrote = bodyLen["res"]

IntactInv == BufferInv /\ CountInv /\ ResponseIntact

----------------------------------------------------------------------------
\* No rule is being matched between two calls of the transaction.
LEMMA NoLink ==
  ASSUME Inv', call' = "none"
  PROVE  link' = 0
<1>1. cur' = 0 /\ (link' # 0 => cur' \in 1..Len(Rules)')
  BY Zenon DEF Inv, TypeOK, EvalTypeOK
<1> QED
  BY <1>1

\* Where the interceptor is not at work, and where there is a verdict, nothing is due.
LEMMA IdleIntact ==
  ASSUME pc' \in RequestLabels \cup {"logged", "closed"}
  PROVE  IntactInv'
  BY Zenon DEF IntactInv, BufferInv, CountInv, ResponseIntact, RequestLabels, HandlerLabels

LEMMA DeniedIntact ==
  ASSUME interruption' # Nil, pc' \notin {"written", "phase4Done"}
  PROVE  IntactInv'
  BY Zenon DEF IntactInv, BufferInv, CountInv, ResponseIntact, Undisturbed

LEMMA ServeRawIntact ==
  ASSUME HttpInv, ServeRaw
  PROVE  IntactInv'
<1>1. /\ pc' = "deferred" /\ handler' = [handler EXCEPT !.served = TRUE] /\ UNCHANGED <<rw, down>>
      /\ rw = NewInterceptor /\ down = Untouched /\ handler = NotCalled
  BY Zenon DEF ServeRaw, Goto, HttpInv, RequestInv, RequestLabels
<1>2. handler'.wrote = 0 /\ down'.bytes = 0 /\ down'.status = 0 /\ rw'.statusCode = OK
  BY Zenon, <1>1 DEF NewInterceptor, Untouched, NotCalled
<1> QED
  BY Zenon, <1>1, <1>2 DEF IntactInv, BufferInv, CountInv, ResponseIntact, ClientStatus, HandlerLabels

LEMMA UnservedIntact ==
  ASSUME HttpInv, RefuseRequest \/ FailRequest
  PROVE  IntactInv'
<1>1. pc' = "deferred" /\ handler' = handler /\ pc \in RequestLabels
  BY Zenon DEF RefuseRequest, FailRequest, Returned, Goto, RequestLabels
<1>2. ~handler'.served
  BY <1>1 DEF HttpInv, RequestInv, NotCalled
<1> QED
  BY Zenon, <1>1, <1>2 DEF IntactInv, BufferInv, CountInv, ResponseIntact, Undisturbed, HandlerLabels

LEMMA ServeIntact ==
  ASSUME Inv, HttpInv, Serve
  PROVE  IntactInv'
<1>1. /\ pc = "phase2Done" /\ pc' = "handler" /\ handler' = [handler EXCEPT !.served = TRUE]
      /\ rw' = NewInterceptor /\ down' = down /\ bodyLen' = bodyLen
  BY Zenon, QuietFacts DEF Serve, Returned, Goto
<1>2. down = Untouched /\ handler = NotCalled /\ bodyLen["res"] = 0
  BY Zenon, <1>1, NoResponseYet DEF HttpInv, RequestInv, RequestLabels
<1>3. /\ handler'.wrote = 0 /\ down'.bytes = 0 /\ down'.status = 0 /\ ~down'.length0
      /\ ~rw'.isWriteHeaderFlush /\ bodyLen'["res"] = 0
  BY Zenon, <1>1, <1>2 DEF NewInterceptor, Untouched, NotCalled
<1>4. InWrite' = 0 /\ InBuffer' = 0
  BY Zenon, <1>1, <1>3 DEF InWrite, InBuffer
<1> QED
  BY <1>1, <1>3, <1>4 DEF IntactInv, BufferInv, CountInv, ResponseIntact, HandlerLabels

\* The first write or the header: nothing was written before.
LEMMA BeginWriteHeaderIntact ==
  ASSUME Inv, HttpInv, IntactInv, pc = "handler", NEW code \in Codes \cup {OK}, NEW next \in PendingType,
         BeginWriteHeader(code, next), interruption = Nil,
         handler'.wrote = handler.wrote + (IF next.kind = "write" THEN next.n ELSE 0)
  PROVE  IntactInv'
<1>0. /\ ~rw.wroteHeader /\ rw' = [rw EXCEPT !.statusCode = code] /\ pending' = next
      /\ pc' = "phase3" /\ UNCHANGED <<request, down>>
  BY Zenon DEF BeginWriteHeader, Goto
<1> USE <1>0
<1>a. UNCHANGED <<interruption, bodyLen>>
  BY Zenon DEF BeginWriteHeader, AddResponseHeader, evalVars, histVars
<1>b. rw'.isWriteHeaderFlush = rw.isWriteHeaderFlush /\ rw'.wroteBuffered = rw.wroteBuffered
  BY Zenon DEF HttpInv, ConnType, WriterType
<1>c. Unsent /\ ~rw.wroteBuffered /\ bodyLen["res"] = 0
  BY Zenon DEF HttpInv, UnsentInv, HandlerLabels
<1>d. handler.wrote = 0
  BY Zenon DEF IntactInv, CountInv, InWrite, HandlerLabels
<1>1. handler'.wrote = InWrite' /\ InWrite' \in Nat
  <2>1. next.n \in Nat
    BY Zenon DEF PendingType
  <2> QED
    BY <1>d, <2>1 DEF InWrite
<1>2. /\ InBuffer' = 0 /\ down'.bytes = 0 /\ down'.status = 0 /\ ~down'.length0
      /\ ~rw'.isWriteHeaderFlush
  BY Zenon, <1>a, <1>b, <1>c DEF InBuffer, Unsent, Untouched
<1> QED
  BY <1>a, <1>c, <1>1, <1>2 DEF IntactInv, BufferInv, CountInv, ResponseIntact, HandlerLabels

LEMMA HandlerHeaderIntact ==
  ASSUME Inv, HttpInv, IntactInv, HandlerFlush \/ \E code \in Codes : HandlerWriteHeader(code)
  PROVE  IntactInv'
<1>1. PICK code \in Codes \cup {OK} : BeginWriteHeader(code, Nothing)
  BY Zenon DEF HandlerFlush, HandlerWriteHeader
<1>2. pc = "handler" /\ handler' = handler
  BY Zenon DEF HandlerFlush, HandlerWriteHeader
<1>3. Nothing \in PendingType /\ Nothing.kind # "write" /\ handler.wrote \in Nat
  BY Zenon, ConnFields DEF Nothing, PendingType, HttpInv
<1>4. CASE interruption = Nil
  BY <1>1, <1>2, <1>3, <1>4, BeginWriteHeaderIntact
<1>5. CASE interruption # Nil
  <2>1. interruption' = interruption /\ pc' = "phase3"
    BY Zenon, <1>1 DEF BeginWriteHeader, AddResponseHeader, evalVars, Goto
  <2> QED
    BY Zenon, <1>5, <2>1, DeniedIntact
<1> QED
  BY Zenon, <1>4, <1>5

LEMMA HandlerWriteIntact ==
  ASSUME Inv, HttpInv, IntactInv, NEW n \in Slices, HandlerWrite(n)
  PROVE  IntactInv'
<1> USE QuietFacts
<1>0. pc = "handler" /\ n \in Nat
  BY Zenon, ConnFacts DEF HandlerWrite
<1> USE <1>0
<1>a. /\ handler'.wrote = handler.wrote + n /\ handler'.failed = handler.failed
      /\ handler.wrote \in Nat
  <2>1. handler \in HandlerType /\ handler.wrote \in Nat
    BY Zenon, ConnFields DEF HttpInv, ConnType
  <2>2. handler' = [handler EXCEPT !.wrote = handler.wrote + n]
    BY Zenon DEF HandlerWrite
  <2> QED
    BY Zenon, <2>1, <2>2 DEF HandlerType
<1> DEFINE next == [kind |-> "write", n |-> n]
<1>b. next \in PendingType /\ next.kind = "write" /\ next.n = n
  BY Zenon DEF PendingType
<1> USE <1>b
<1> HIDE DEF next
<1>1. CASE interruption # Nil /\ UNCHANGED <<vars, pc, request, rw, pending, down>>
  BY Zenon, <1>1, DeniedIntact
<1>2. CASE interruption = Nil /\ BeginWriteHeader(OK, next)
  <2>1. OK \in Codes \cup {OK}
    BY Zenon
  <2>2. handler'.wrote = handler.wrote + (IF next.kind = "write" THEN next.n ELSE 0)
    BY Zenon, <1>a
  <2> QED
    BY Zenon, <1>2, <2>1, <2>2, BeginWriteHeaderIntact
<1>3. CASE interruption = Nil /\ ~HeaderDue /\ pending' = next /\ pc' = "write" /\ UNCHANGED <<vars, request, rw, down>>
  <2>1. rw.wroteHeader
    BY Zenon, <1>3 DEF HeaderDue
  <2>2. InWrite = 0 /\ InWrite' = n /\ InBuffer' = InBuffer
    BY Zenon, <1>3 DEF InWrite, InBuffer
  <2>3. BufferInv'
    BY Zenon, <1>3 DEF IntactInv, BufferInv, Buffering, IsResponseBodyProcessable, HandlerLabels
  <2>4. down.bytes \in Nat /\ InBuffer \in Nat
    BY Zenon, ConnFields DEF HttpInv, InBuffer, Inv, TypeOK, Sides
  <2>5. CountInv'
    BY SMTT(40), <1>3, <1>a, <2>1, <2>2, <2>4
    DEF IntactInv, CountInv, Counted, HandlerLabels
  <2> QED
    BY Zenon, <1>3, <2>3, <2>5 DEF IntactInv, ResponseIntact
<1> QED
  BY Zenon, <1>1, <1>2, <1>3 DEF HandlerWrite, Goto, next

----------------------------------------------------------------------------
\* A status that allows a body: what is sent arrives.
LEMMA SendsBytes ==
  ASSUME NEW d \in DownType, NEW n \in Nat, d.status # 0, d.status \notin BodylessCodes, ~d.length0
  PROVE  /\ SendBytes(d, n) \in DownType /\ SendBytes(d, n).bytes = d.bytes + n
         /\ SendBytes(d, n).status = d.status /\ ~SendBytes(d, n).length0
<1>1. SendStatus(d, OK, FALSE) = d
  BY Zenon DEF SendStatus
<1>2. SendBytes(d, n) = [d EXCEPT !.bytes = d.bytes + n]
  BY Zenon, <1>1 DEF SendBytes
<1>3. d.bytes \in Nat
  BY Zenon DEF DownType
<1>4. [d EXCEPT !.bytes = d.bytes + n] \in DownType
  BY <1>3 DEF DownType
<1> QED
  BY Zenon, <1>2, <1>3, <1>4 DEF DownType

LEMMA FlushPlain ==
  ASSUME NEW r \in WriterType, NEW d \in DownType
  PROVE  /\ FlushDown(d, r, FALSE) \in DownType /\ FlushDown(d, r, FALSE).bytes = d.bytes
         /\ r.isWriteHeaderFlush => FlushDown(d, r, FALSE) = d
         /\ ~r.isWriteHeaderFlush /\ d.status = 0
              => FlushDown(d, r, FALSE).status = r.statusCode /\ ~FlushDown(d, r, FALSE).length0
  BY Zenon, FlushDownFacts

LEMMA FlushesStatus ==
  ASSUME NEW r \in WriterType, NEW d \in DownType, ~d.length0,
         d.status = IF r.isWriteHeaderFlush THEN r.statusCode ELSE 0
  PROVE  /\ FlushDown(d, r, FALSE) \in DownType /\ FlushDown(d, r, FALSE).bytes = d.bytes
         /\ FlushDown(d, r, FALSE).status = r.statusCode /\ ~FlushDown(d, r, FALSE).length0
         /\ r.statusCode # 0
<1>1. r.statusCode \in Nat \ {0}
  BY Zenon DEF WriterType
<1>2. CASE r.isWriteHeaderFlush
  BY Zenon, <1>1, <1>2, FlushPlain
<1>3. CASE ~r.isWriteHeaderFlush
  BY Zenon, <1>1, <1>3, FlushPlain
<1> QED
  BY Zenon, <1>2, <1>3

\* writeBufferedResponseBodyToDownstream when nothing was sent before.
LEMMA CopiesBack ==
  ASSUME rw \in WriterType, down \in DownType, bodyLen["res"] \in Nat, NEW n \in Nat, WriteBuffered(n),
         Unsent, rw.statusCode \notin BodylessCodes
  PROVE  /\ down'.bytes = bodyLen["res"] + n /\ down'.status = rw.statusCode /\ ~down'.length0
         /\ rw'.isWriteHeaderFlush /\ rw'.statusCode = rw.statusCode /\ rw'.wroteBuffered
         /\ rw'.wroteHeader = rw.wroteHeader
<1> DEFINE f == FlushDown(down, rw, FALSE)
           d == SendBytes(f, bodyLen["res"])
<1>1. /\ rw' = [FlushHeader(rw) EXCEPT !.wroteBuffered = TRUE]
      /\ down' = IF n = 0 THEN d ELSE SendBytes(d, n)
  BY Zenon DEF WriteBuffered
<1>2. f \in DownType /\ f.bytes = 0 /\ f.status = rw.statusCode /\ ~f.length0 /\ rw.statusCode # 0
  <2>1. ~down.length0 /\ down.status = 0 /\ down.bytes = 0 /\ ~rw.isWriteHeaderFlush
    BY Zenon DEF Unsent, Untouched
  <2> QED
    BY Zenon, <2>1, FlushesStatus
<1> HIDE DEF f
<1>3. d \in DownType /\ d.bytes = bodyLen["res"] /\ d.status = rw.statusCode /\ ~d.length0
  BY <1>2, SendsBytes
<1> HIDE DEF d
<1>4. /\ FlushHeader(rw) \in WriterType /\ FlushHeader(rw).isWriteHeaderFlush
      /\ FlushHeader(rw).statusCode = rw.statusCode /\ FlushHeader(rw).wroteHeader = rw.wroteHeader
  BY Zenon, FlushHeaderFacts
<1>5. /\ rw'.isWriteHeaderFlush /\ rw'.statusCode = rw.statusCode /\ rw'.wroteBuffered
      /\ rw'.wroteHeader = rw.wroteHeader
  BY Zenon, <1>1, <1>4 DEF WriterType
<1>6. CASE n = 0
  BY <1>1, <1>3, <1>5, <1>6
<1>7. CASE n # 0
  BY <1>1, <1>2, <1>3, <1>5, <1>7, SendsBytes
<1> QED
  BY Zenon, <1>6, <1>7

LEMMA PassHeaderIntact ==
  ASSUME Inv, HttpInv, IntactInv, PassHeader
  PROVE  IntactInv'
<1> USE QuietFacts
<1>0. /\ pc = "phase3Done" /\ call = "none" /\ ret.it = Nil
      /\ pc' = (IF pending.kind = "write" THEN "write" ELSE "handler")
      /\ rw' = [rw EXCEPT !.wroteHeader = TRUE]
      /\ UNCHANGED <<vars, request, pending, down, handler>>
  BY Zenon DEF PassHeader, AfterHeader, Returned, Goto
<1> USE <1>0
<1>1. interruption = Nil /\ Unsent /\ ~rw.wroteBuffered /\ bodyLen["res"] = 0
  BY Zenon DEF HttpInv, UnsentInv, CalledLabels
<1>2. ~rw.wroteHeader /\ rw \in WriterType
  BY Zenon DEF HttpInv, ConnType
<1>3. /\ rw'.isWriteHeaderFlush = rw.isWriteHeaderFlush /\ rw'.statusCode = rw.statusCode
      /\ rw'.wroteBuffered = rw.wroteBuffered /\ rw'.wroteHeader
  BY Zenon, <1>2 DEF WriterType
<1>4. InWrite' = InWrite /\ handler.wrote = InWrite /\ InWrite \in Nat
  <2>1. pending.n \in Nat
    BY Zenon, ConnFields DEF HttpInv
  <2> QED
    BY Zenon, <1>1, <1>2, <2>1 DEF InWrite, IntactInv, CountInv
<1>5. InBuffer' = 0 /\ down.bytes = 0 /\ down.status = 0 /\ ~down.length0 /\ ~rw'.isWriteHeaderFlush
  BY Zenon, <1>1, <1>3 DEF InBuffer, Unsent, Untouched
<1>6. BufferInv'
  BY <1>1 DEF BufferInv
<1>7. CountInv'
  BY <1>3, <1>4, <1>5 DEF CountInv
<1> QED
  BY Zenon, <1>6, <1>7 DEF IntactInv, ResponseIntact

LEMMA WriteDirectIntact ==
  ASSUME Inv, HttpInv, IntactInv, WriteDirect, interruption = Nil
  PROVE  IntactInv'
<1> USE QuietFacts
<1>0. /\ pc = "write" /\ ~Buffering /\ pc' = "handler"
      /\ UNCHANGED <<vars, request, pending, handler>>
  BY Zenon DEF WriteDirect, Goto
<1> USE <1>0
<1>1. /\ rw \in WriterType /\ down \in DownType /\ pending.n \in Nat /\ pending.kind = "write"
      /\ down.bytes \in Nat /\ bodyLen["res"] \in Nat
  BY Zenon, ConnFields DEF HttpInv, ConnType, Inv, TypeOK, Sides
<1>2. rw.wroteHeader
  BY Zenon DEF HttpInv, UnsentInv, HandlerLabels
<1>3. InBuffer = 0 /\ InWrite = pending.n /\ InWrite' = 0
  BY <1>1 DEF InBuffer, InWrite, IntactInv, BufferInv, HandlerLabels
<1>4. CASE rw.statusCode \in BodylessCodes /\ UNCHANGED <<rw, down>>
  <2>1. BufferInv'
    BY Zenon, <1>4 DEF IntactInv, BufferInv, Buffering, IsResponseBodyProcessable, HandlerLabels
  <2>2. CountInv'
    BY Zenon, <1>2, <1>4 DEF CountInv, Counted
  <2> QED
    BY Zenon, <2>1, <2>2 DEF IntactInv, ResponseIntact
<1>5. CASE /\ rw.statusCode \notin BodylessCodes /\ rw' = FlushHeader(rw)
           /\ down' = SendBytes(FlushDown(down, rw, FALSE), pending.n)
  <2>1. /\ rw'.isWriteHeaderFlush /\ rw'.statusCode = rw.statusCode
        /\ rw'.wroteHeader = rw.wroteHeader /\ rw'.wroteBuffered = rw.wroteBuffered
    BY Zenon, <1>1, <1>5, FlushHeaderFacts
  <2>2. BufferInv'
    BY Zenon, <2>1 DEF IntactInv, BufferInv, Buffering, IsResponseBodyProcessable, HandlerLabels
  <2>3. InBuffer' = 0
    BY Zenon, <1>3, <2>1 DEF InBuffer
  <2>4. ASSUME Counted
        PROVE  /\ handler.wrote = down'.bytes /\ down'.status = rw.statusCode /\ ~down'.length0
    <3>1. /\ handler.wrote = down.bytes + pending.n /\ ~down.length0
          /\ down.status = IF rw.isWriteHeaderFlush THEN rw.statusCode ELSE 0
      BY <1>1, <1>3, <2>4 DEF IntactInv, CountInv, HandlerLabels
    <3> DEFINE f == FlushDown(down, rw, FALSE)
    <3>2. f \in DownType /\ f.bytes = down.bytes /\ f.status = rw.statusCode /\ ~f.length0 /\ rw.statusCode # 0
      BY Zenon, <1>1, <3>1, FlushesStatus
    <3>3. down' = SendBytes(f, pending.n)
      BY Zenon, <1>5
    <3> HIDE DEF f
    <3>4. f.status # 0 /\ f.status \notin BodylessCodes
      BY Zenon, <1>5, <3>2
    <3> QED
      BY Zenon, <1>1, <3>1, <3>2, <3>3, <3>4, SendsBytes
  <2>5. Counted' => Counted
    BY Zenon, <2>1 DEF Counted
  <2>6. CountInv'
    <3>1. down'.bytes \in Nat \/ ~Counted
      BY Zenon, <1>1, <2>4, ConnFields DEF HttpInv
    <3> QED
      BY SMTT(40), <1>2, <1>3, <2>1, <2>3, <2>4, <2>5, <3>1 DEF CountInv
  <2> QED
    BY Zenon, <2>2, <2>6 DEF IntactInv, ResponseIntact
<1> QED
  BY Zenon, <1>4, <1>5 DEF WriteDirect

LEMMA CallResponseHeadersIntact ==
  ASSUME Inv, HttpInv, IntactInv, CallResponseHeaders
  PROVE  IntactInv'
<1>0. /\ pc = "phase3" /\ pc' = "phase3Done" /\ UNCHANGED <<request, rw, pending, down, handler>>
      /\ ProcessHeaders(3)
  BY Zenon DEF CallResponseHeaders, ProcessResponseHeaders, Goto
<1> USE <1>0
<1>1. interruption' = interruption
  BY Zenon, HeadersCall DEF Inv, Calls
<1>2. InWrite' = InWrite
  BY Zenon DEF InWrite
<1> QED
  BY Zenon, <1>1, <1>2 DEF IntactInv, BufferInv, CountInv, ResponseIntact, HandlerLabels

LEMMA CallWriteBodyIntact ==
  ASSUME Inv, HttpInv, IntactInv, Inv', CallWriteBody
  PROVE  IntactInv'
<1>0. /\ pc = "write" /\ Buffering /\ pc' = "written" /\ UNCHANGED <<request, rw, pending, down, handler>>
      /\ WriteBody("res", pending.n)
  BY Zenon DEF CallWriteBody, WriteResponseBody, Goto
<1> USE <1>0
<1>1. Writes("res", pending.n)
  <2>1. "res" \in Sides /\ pending.n \in Nat /\ WriteStep("res", pending.n)
    BY Zenon, ConnFields DEF HttpInv, Sides, WriteStep
  <2>2. bodyLen["res"] <= Limit("res") /\ TypeOK
    BY Zenon, <2>1 DEF Inv, BodyInv, WithinLimits
  <2> QED
    BY Zenon, <2>1, <2>2, WriteCall
<1>2. Buffering'
  BY Zenon, <1>1 DEF Writes, Buffering, IsResponseBodyProcessable
<1>3. link' = 0
  <2>1. call' = "none" \/ link' = 0
    BY Zenon, <1>1 DEF Writes
  <2> QED
    BY Zenon, <2>1, NoLink
<1>4. ASSUME interruption' = Nil, Counted', ret'.err = "none"
      PROVE  handler.wrote = bodyLen'["res"] + (pending.n - ret'.n)
  <2>1. interruption = Nil /\ bodyLen'["res"] = bodyLen["res"] + ret'.n
    BY Zenon, <1>1, <1>4, LimitVerdictNotNil DEF Writes, Sides
  <2>2. Unsent /\ ~rw.wroteBuffered /\ pending.kind = "write"
    BY Zenon, <2>1 DEF HttpInv, UnsentInv, ConnType, Buffering, HandlerLabels
  <2>3. handler.wrote = down.bytes + InBuffer + InWrite
    BY Zenon, <1>4, <2>1 DEF IntactInv, CountInv, Counted, HandlerLabels
  <2>4. down.bytes = 0 /\ InBuffer = bodyLen["res"] /\ InWrite = pending.n
    BY Zenon, <2>2 DEF Unsent, Untouched, InBuffer, InWrite
  <2>5. bodyLen["res"] \in Nat /\ pending.n \in Nat /\ ret'.n \in Nat
    BY Zenon, <1>1, ConnFields DEF HttpInv, Writes, Inv, TypeOK, Sides
  <2> QED
    BY <2>1, <2>3, <2>4, <2>5
<1> QED
  BY Zenon, <1>2, <1>3, <1>4 DEF IntactInv, BufferInv, CountInv, ResponseIntact, HandlerLabels

LEMMA EndWriteIntact ==
  ASSUME Inv, HttpInv, IntactInv, EndWrite
  PROVE  IntactInv'
<1> USE QuietFacts
<1>0. /\ pc = "written" /\ call = "none" /\ pc' = "handler"
      /\ ret.err # "none" \/ ret.n = pending.n
      /\ handler' = [handler EXCEPT !.failed = handler.failed \/ ret.err # "none"]
      /\ UNCHANGED <<vars, request, rw, pending, down>>
  BY Zenon DEF EndWrite, Returned, Goto
<1> USE <1>0
<1>1. handler'.wrote = handler.wrote /\ (handler'.failed <=> handler.failed \/ ret.err # "none")
  <2>1. handler \in HandlerType
    BY Zenon DEF HttpInv, ConnType
  <2> QED
    BY Zenon, <2>1 DEF HandlerType
<1>2. /\ Buffering /\ pending.n \in Nat /\ ret.n \in Nat /\ bodyLen["res"] \in Nat
      /\ ~rw.wroteBuffered /\ InWrite' = 0
  BY Zenon, ConnFields DEF HttpInv, IntactInv, BufferInv, Buffering, Inv, TypeOK, Returns, Sides, InWrite
<1>3. BufferInv'
  BY Zenon, <1>2 DEF BufferInv, Buffering, IsResponseBodyProcessable
<1>4. CountInv'
  <2> SUFFICES ASSUME interruption = Nil
               PROVE  CountInv'
    BY Zenon DEF CountInv
  <2>1. Unsent /\ rw.wroteHeader
    BY Zenon DEF HttpInv, UnsentInv, CalledLabels
  <2>2. /\ InBuffer' = bodyLen["res"] /\ down.bytes = 0 /\ down.status = 0 /\ ~down.length0
        /\ ~rw.isWriteHeaderFlush
    BY Zenon, <1>2, <2>1 DEF InBuffer, Unsent, Untouched
  <2>3. Counted' => Counted /\ ret.err = "none"
    BY Zenon, <1>1 DEF Counted
  <2>4. Counted' => handler.wrote = bodyLen["res"]
    BY <1>2, <2>3 DEF IntactInv, CountInv
  <2> QED
    BY <1>1, <1>2, <2>1, <2>2, <2>4 DEF CountInv
<1> QED
  BY Zenon, <1>3, <1>4 DEF IntactInv, ResponseIntact

LEMMA OverflowIntact ==
  ASSUME Inv, HttpInv, IntactInv, Overflow
  PROVE  IntactInv'
<1>0. /\ pc = "written" /\ call = "none" /\ pc' = "handler" /\ ret.err = "none"
      /\ UNCHANGED <<vars, request, pending, handler>> /\ WriteBuffered(Rest)
  BY Zenon DEF Overflow, Returned, Goto
<1> USE <1>0
<1>1. /\ rw \in WriterType /\ down \in DownType /\ bodyLen["res"] \in Nat
      /\ Rest \in Nat /\ Rest = pending.n - ret.n
  <2>1. ret.n \in Nat /\ pending.n \in Nat /\ ret.n <= pending.n
    BY Zenon, ConnFields DEF HttpInv, Inv, TypeOK, Returns, ConnType
  <2> QED
    BY <2>1 DEF Rest, HttpInv, ConnType, Inv, TypeOK, Sides
<1>2. rw'.wroteBuffered /\ rw'.wroteHeader = rw.wroteHeader /\ rw'.statusCode = rw.statusCode
  BY Zenon, <1>1, WriteBufferedFacts
<1>3. BufferInv'
  BY Zenon, <1>2 DEF BufferInv
<1>4. CountInv'
  <2> SUFFICES ASSUME interruption = Nil
               PROVE  CountInv'
    BY Zenon, QuietFacts DEF CountInv
  <2>1. Unsent /\ rw.wroteHeader
    BY Zenon DEF HttpInv, UnsentInv, CalledLabels
  <2>2. InWrite' = 0 /\ InBuffer' = 0
    BY Zenon, <1>2 DEF InWrite, InBuffer
  <2>3. Counted' => Counted
    BY Zenon, <1>2 DEF Counted
  <2>4. ASSUME Counted
        PROVE  /\ handler.wrote = down'.bytes /\ down'.status = rw.statusCode /\ ~down'.length0
               /\ rw'.isWriteHeaderFlush /\ down'.bytes \in Nat
    <3>1. handler.wrote = bodyLen["res"] + Rest
      BY Zenon, <1>1, <2>4 DEF IntactInv, CountInv
    <3>2. rw.statusCode \notin BodylessCodes
      BY Zenon, <2>4 DEF Counted
    <3>3. /\ down'.bytes = bodyLen["res"] + Rest /\ down'.status = rw.statusCode /\ ~down'.length0
          /\ rw'.isWriteHeaderFlush
      BY Zenon, <1>1, <2>1, <3>2, CopiesBack
    <3> QED
      BY <1>1, <3>1, <3>3
  <2> QED
    BY SMTT(40), <1>2, <2>1, <2>2, <2>3, <2>4 DEF CountInv
<1> QED
  BY Zenon, <1>3, <1>4 DEF IntactInv, ResponseIntact

LEMMA HandlerEndsIntact ==
  ASSUME Inv, HttpInv, IntactInv, HandlerReturns \/ HandlerPanics
  PROVE  IntactInv'
<1> USE QuietFacts
<1>1. CASE HandlerReturns
  <2>0. /\ pc = "handler" /\ pc' = "respond"
        /\ UNCHANGED <<vars, request, rw, pending, down, handler>>
    BY Zenon, <1>1 DEF HandlerReturns, Goto
  <2>1. BufferInv'
    BY Zenon, <2>0 DEF IntactInv, BufferInv, Buffering, IsResponseBodyProcessable, HandlerLabels
  <2>2. InWrite' = InWrite /\ InBuffer' = InBuffer /\ (Counted' <=> Counted)
    BY Zenon, <2>0 DEF InWrite, InBuffer, Counted
  <2>3. CountInv'
    BY Zenon, <2>0, <2>2 DEF IntactInv, CountInv, HandlerLabels
  <2> QED
    BY Zenon, <2>0, <2>1, <2>3 DEF IntactInv, ResponseIntact
<1>2. CASE HandlerPanics
  <2>0. pc' = "deferred" /\ handler' = [handler EXCEPT !.panicked = TRUE]
    BY Zenon, <1>2 DEF HandlerPanics, Goto
  <2>1. handler'.panicked = TRUE
    BY Zenon, <2>0 DEF HttpInv, ConnType, HandlerType
  <2> QED
    BY Zenon, <2>0, <2>1 DEF IntactInv, BufferInv, CountInv, ResponseIntact, Undisturbed, HandlerLabels
<1> QED
  BY Zenon, <1>1, <1>2

LEMMA CallResponseBodyIntact ==
  ASSUME Inv, HttpInv, IntactInv, Inv', CallResponseBody
  PROVE  IntactInv'
<1>0. /\ pc = "respond" /\ interruption = Nil /\ Buffering /\ pc' = "phase4Done"
      /\ UNCHANGED <<request, rw, pending, down, handler, open, bodyLen, mimeListed>>
      /\ Idle /\ ProcessBody("res", bodyLen["res"], 0)
  BY Zenon DEF CallResponseBody, ProcessResponseBody, Goto
<1> USE <1>0
<1>1. Calls(4)
  BY BodyCall DEF Inv, Sides, HeadersPhase
<1>2. Buffering'
  BY Zenon, <1>1 DEF Calls, Buffering, IsResponseBodyProcessable
<1>3. link' = 0
  <2>1. call' = "none" \/ link' = 0
    BY Zenon, <1>1 DEF Calls
  <2> QED
    BY Zenon, <2>1, NoLink
<1>4. Counted' => handler.wrote = bodyLen["res"]
  <2>1. Unsent /\ ~rw.wroteBuffered
    BY Zenon DEF HttpInv, UnsentInv, Buffering, HandlerLabels
  <2>2. down.bytes = 0 /\ InBuffer = bodyLen["res"] /\ InWrite = 0 /\ bodyLen["res"] \in Nat
    BY Zenon, <2>1 DEF Unsent, Untouched, InBuffer, InWrite, Inv, TypeOK, Sides
  <2> QED
    BY <2>2 DEF IntactInv, CountInv, Counted, HandlerLabels
<1> QED
  BY Zenon, <1>2, <1>3, <1>4 DEF IntactInv, BufferInv, CountInv, ResponseIntact, HandlerLabels

\* The response processor, with the body passed on already or copied back now.
LEMMA RespondWithoutBodyIntact ==
  ASSUME Inv, HttpInv, IntactInv, RespondWithoutBody
  PROVE  IntactInv'
<1>0. /\ pc = "respond" /\ pc' = "deferred" /\ UNCHANGED <<vars, request, pending, handler>>
  BY Zenon DEF RespondWithoutBody, Goto
<1> USE <1>0
<1>1. CASE interruption # Nil
  BY Zenon, <1>1, QuietFacts, DeniedIntact
<1>2. CASE /\ interruption = Nil /\ ~Buffering
           /\ rw' = FlushHeader(rw) /\ down' = FlushDown(down, rw, FALSE)
  <2>1. rw \in WriterType /\ down \in DownType /\ bodyLen["res"] \in Nat /\ down.bytes \in Nat
    BY Zenon, ConnFields DEF HttpInv, ConnType, Inv, TypeOK, Sides
  <2>2. rw'.statusCode = rw.statusCode
    BY Zenon, <1>2, <2>1, FlushHeaderFacts
  <2>3. InBuffer = 0 /\ InWrite = 0
    BY <1>2, <2>1 DEF InBuffer, InWrite, IntactInv, BufferInv, HandlerLabels
  <2>4. ASSUME Counted
        PROVE  down'.bytes = handler.wrote /\ down'.status = rw.statusCode /\ rw.statusCode # 0
    <3>1. /\ handler.wrote = down.bytes /\ ~down.length0
          /\ down.status = IF rw.isWriteHeaderFlush THEN rw.statusCode ELSE 0
      BY <1>2, <2>1, <2>3, <2>4 DEF IntactInv, CountInv, HandlerLabels
    <3> QED
      BY Zenon, <1>2, <2>1, <3>1, FlushesStatus
  <2>5. ResponseIntact'
    BY Zenon, <2>2, <2>4 DEF ResponseIntact, Undisturbed, Counted, ClientStatus
  <2> QED
    BY Zenon, <2>5 DEF IntactInv, BufferInv, CountInv, HandlerLabels
<1> QED
  BY Zenon, <1>1, <1>2 DEF RespondWithoutBody

LEMMA RespondIntact ==
  ASSUME Inv, HttpInv, IntactInv, Respond
  PROVE  IntactInv'
<1>0. pc = "phase4Done" /\ call = "none" /\ pc' = "deferred" /\ UNCHANGED <<vars, request, pending>>
  BY Zenon DEF Respond, Returned, Goto
<1> USE <1>0
<1>1. /\ rw \in WriterType /\ down \in DownType /\ handler \in HandlerType
      /\ bodyLen["res"] \in Nat /\ ret.it = interruption
  BY Zenon DEF HttpInv, ConnType, Inv, TypeOK, Sides, UnsentInv
<1>2. CASE handler' = [handler EXCEPT !.failed = TRUE]
  <2>1. handler'.failed = TRUE
    BY Zenon, <1>1, <1>2 DEF HandlerType
  <2> QED
    BY Zenon, <2>1 DEF IntactInv, BufferInv, CountInv, ResponseIntact, Undisturbed, HandlerLabels
<1>3. CASE ret.it # Nil
  BY Zenon, <1>1, <1>3, QuietFacts, DeniedIntact
<1>4. CASE ret.it = Nil /\ WriteBuffered(0) /\ UNCHANGED handler
  <2>1. Unsent
    BY Zenon, <1>1, <1>4 DEF HttpInv, UnsentInv, CalledLabels
  <2>2. rw'.statusCode = rw.statusCode /\ rw.statusCode # 0
    BY Zenon, <1>1, <1>4, WriteBufferedFacts DEF WriterType
  <2>3. ASSUME Counted
        PROVE  down'.bytes = handler.wrote /\ down'.status = rw.statusCode
    <3>1. handler.wrote = bodyLen["res"]
      BY Zenon, <1>1, <1>4, <2>3 DEF IntactInv, CountInv
    <3>2. rw.statusCode \notin BodylessCodes
      BY Zenon, <2>3 DEF Counted
    <3> QED
      BY SMTT(40), <1>1, <1>4, <2>1, <3>1, <3>2, CopiesBack
  <2>4. ResponseIntact'
    BY Zenon, <1>4, <2>2, <2>3 DEF ResponseIntact, Undisturbed, Counted, ClientStatus
  <2> QED
    BY Zenon, <2>4 DEF IntactInv, BufferInv, CountInv, HandlerLabels
<1> QED
  BY Zenon, <1>2, <1>3, <1>4 DEF Respond

----------------------------------------------------------------------------
\* A rule is evaluated in its phase.
LEMMA EvaluatingPhase ==
  ASSUME Evaluating, link # 0 => Rule.phase \in {0, lastPhase}
  PROVE  link' # 0 => Rule'.phase \in {0, lastPhase}
<1>1. CASE link' = link /\ link = 0
  BY Zenon, <1>1
<1>2. CASE link' = 0
  BY Zenon, <1>2
<1>3. CASE Evaluate
  <2>1. Rule' = Rule
    BY Zenon, <1>3 DEF Evaluate, Rule, Rules, Waf
  <2> QED
    BY Zenon, <1>3, <2>1 DEF Evaluate, Considered, OtherPhase
<1>4. CASE LinkMatches
  <2>1. Rule' = Rule
    BY Zenon, <1>4 DEF LinkMatches, Rule, Rules, Waf
  <2>2. link # 0
    BY <1>4 DEF LinkMatches, AtLink
  <2> QED
    BY Zenon, <2>1, <2>2
<1> QED
  BY Zenon, <1>1, <1>2, <1>3, <1>4 DEF Evaluating, EvalStep, BreakOnInterruption, PassOver, PassUntilMark,
     PassSkipped, BreakOnAllow, LinkFails, RuleMatches, Considered, AtRule

\* The rules of phase 4 leave the response one that is buffered.
LEMMA EvaluatingForced ==
  ASSUME Inv, StaysForced, Evaluating, UNCHANGED connVars, lastPhase = 4,
         link # 0 => Rule.phase \in {0, 4}, Buffering
  PROVE  Buffering'
<1>0. rw' = rw /\ mimeListed' = mimeListed /\ conf \in Confs
  BY Zenon DEF Evaluating, connVars, txVars, bodyVars, Inv, TypeOK, EvalTypeOK
<1> USE <1>0
<1>1. CASE conf' = conf
  BY Zenon, <1>1 DEF Buffering, IsResponseBodyProcessable
<1>2. CASE LinkMatches
  <2> DEFINE c == Rule.links[link].ctl
  <2>1. cur \in 1..Len(Rules) /\ link \in 1..Len(Rule.links) /\ link # 0
    BY <1>2 DEF LinkMatches, AtLink
  <2>2. conf' = IF c.field \notin {"none", "remove"} /\ CtlPermitted(c.field)
                THEN [conf EXCEPT ![c.field] = c.value] ELSE conf
    BY Zenon, <1>2 DEF LinkMatches, Ctl
  <2>3. c.field = "ForceResponseBodyVariable" => c.value = TRUE
    <3>1. waf \in DOMAIN Wafs /\ Rules = Wafs[waf].rules /\ Rule = Rules[cur]
      BY Zenon DEF Inv, TypeOK, EvalTypeOK, Rules, Waf, Rule
    <3>2. /\ cur \in 1..Len(Wafs[waf].rules) /\ Wafs[waf].rules[cur].phase \in {0, 4}
          /\ link \in 1..Len(Wafs[waf].rules[cur].links) /\ c = Wafs[waf].rules[cur].links[link].ctl
      BY Zenon, <2>1, <3>1
    <3> HIDE DEF c
    <3> QED
      BY Zenon, <3>1, <3>2 DEF StaysForced
  <2>4. CtlPermitted(c.field) => c.field # "ResponseBodyAccess"
    BY DEF CtlPermitted
  <2> HIDE DEF c
  <2>5. CASE conf' = [conf EXCEPT ![c.field] = c.value] /\ c.field # "ResponseBodyAccess"
    <3>1. conf'.ResponseBodyAccess = conf.ResponseBodyAccess
      BY Zenon, <2>5 DEF Confs
    <3>2. conf.ForceResponseBodyVariable => conf'.ForceResponseBodyVariable
      BY Zenon, <2>3, <2>5 DEF Confs
    <3> QED
      BY Zenon, <3>1, <3>2 DEF Buffering, IsResponseBodyProcessable
  <2> QED
    BY Zenon, <1>1, <2>2, <2>4, <2>5
<1>3. CASE ~LinkMatches
  <2>1. conf' = conf
    BY Zenon, <1>3 DEF Evaluating, EvalStep, BreakOnInterruption, PassOver, PassUntilMark, PassSkipped,
       BreakOnAllow, Evaluate, LinkFails, RuleMatches
  <2> QED
    BY Zenon, <1>1, <2>1
<1> QED
  BY Zenon, <1>2, <1>3

LEMMA InCallIntact ==
  ASSUME Inv, HttpInv, IntactInv, Inv', StaysForced, InCall
  PROVE  IntactInv'
<1> USE DEF HandlerLabels, CalledLabels, RequestLabels
<1>0. /\ call # "none" /\ UNCHANGED <<pc, request, rw, pending, down, handler, bodyLen>>
  BY Zenon, EvaluatingEffect DEF InCall, Evaluating, ReturnFromEval, EndEval, txVars, bodyVars, connVars, Inv
<1> USE <1>0
<1>a. /\ pc \in {"phase1Done", "bodyRead", "phase2Done"} \cup CalledLabels \cup {"logged"}
      /\ pc \in {"written", "phase4Done"} => lastPhase = 4
  BY Zenon, WaitsUnsent DEF HttpInv, CallInv
<1>1. /\ interruption' = Nil => interruption = Nil
      /\ ret'.n = ret.n /\ ret'.err = ret.err
      /\ pc \in {"written", "phase4Done"} => Buffering' /\ (link' # 0 => Rule'.phase \in {0, 4})
  <2>1. CASE Evaluating
    <3>1. ret' = ret /\ lastPhase' = lastPhase
      BY Zenon, <2>1, EvaluatingEffect DEF Inv, Evaluating, txVars
    <3>2. UNCHANGED interruption \/ RuleMatches
      BY Zenon, <2>1, EvaluatingEffect DEF Inv
    <3>3. interruption' = Nil => interruption = Nil
      <4>1. CASE RuleMatches
        BY Zenon, <2>1, <4>1, MatchDenials
      <4> QED
        BY Zenon, <3>2, <4>1
    <3>4. UNCHANGED connVars
      BY Zenon DEF InCall
    <3>5. ASSUME pc \in {"written", "phase4Done"}
          PROVE  Buffering' /\ (link' # 0 => Rule'.phase \in {0, 4})
      <4>1. lastPhase = 4 /\ Buffering /\ (link # 0 => Rule.phase \in {0, 4})
        BY Zenon, <1>a, <3>5 DEF IntactInv, BufferInv
      <4> QED
        BY Zenon, <2>1, <3>4, <4>1, EvaluatingForced, EvaluatingPhase
    <3> QED
      BY Zenon, <3>1, <3>3, <3>5
  <2>2. CASE ReturnFromEval
    <3>1. /\ UNCHANGED <<conf, interruption, mimeListed, link>> /\ cur = Len(Rules) + 1
          /\ ret' = ret \/ ret' = [ret EXCEPT !.it = interruption]
      BY Zenon, <2>2 DEF ReturnFromEval, EndEval, bodyVars
    <3>a. link' = 0 /\ ret \in Returns
      BY <3>1 DEF Inv, TypeOK, EvalTypeOK
    <3>2. ret'.n = ret.n /\ ret'.err = ret.err
      BY Zenon, <3>1, <3>a DEF Returns
    <3>3. Buffering <=> Buffering'
      BY Zenon, <3>1 DEF Buffering, IsResponseBodyProcessable
    <3> QED
      BY Zenon, <3>1, <3>a, <3>2, <3>3 DEF IntactInv, BufferInv
  <2> QED
    BY Zenon, <2>1, <2>2 DEF InCall
<1>2. CASE pc = "phase3Done"
  BY Zenon, <1>1, <1>2 DEF IntactInv, BufferInv, CountInv, ResponseIntact, InWrite
<1>3. CASE pc \in {"written", "phase4Done"}
  BY Zenon, <1>1, <1>3 DEF IntactInv, BufferInv, CountInv, ResponseIntact, Counted
<1>4. CASE pc \in RequestLabels \cup {"logged"}
  BY Zenon, <1>4, IdleIntact
<1> QED
  BY Zenon, <1>a, <1>2, <1>3, <1>4

----------------------------------------------------------------------------
LEMMA IntactStep ==
  ASSUME StaysForced, Inv, HttpInv, IntactInv, [HttpNext]_allVars
  PROVE  IntactInv'
<1>0. Inv'
  BY Zenon, HttpStepRefines, StepInv DEF HttpInv
<1> USE <1>0
<1>1. CASE ServeRaw \/ RefuseRequest \/ FailRequest \/ Serve
  BY Zenon, <1>1, ServeRawIntact, UnservedIntact, ServeIntact
<1>2. CASE \/ ProcessRequest \/ CallRequestHeaders \/ CallReadBody \/ KeepBody \/ CallRequestBody
           \/ CallLogging \/ CallClose \/ NextRequest
  <2>1. \/ pc' = "start" \/ pc' = "phase1" \/ pc' = "phase1Done" \/ pc' = "bodyRead" \/ pc' = "phase2"
        \/ pc' = "phase2Done" \/ pc' = "logged" \/ pc' = "closed"
    BY Zenon, <1>2 DEF ProcessRequest, CallRequestHeaders, CallReadBody, KeepBody, CallRequestBody, CallLogging,
       CallClose, NextRequest, Goto
  <2> QED
    BY Zenon, <2>1, IdleIntact DEF RequestLabels
<1>3. CASE CallResponseHeaders \/ PassHeader
  BY Zenon, <1>3, CallResponseHeadersIntact, PassHeaderIntact
<1>4. CASE BlockHeader \/ BlockBody
  <2>1. /\ pc \in {"phase3Done", "written"} /\ call = "none" /\ ret.it # Nil /\ UNCHANGED vars
        /\ pc' \in {"handler", "write"}
    BY Zenon, <1>4 DEF BlockHeader, BlockBody, Returned, AfterHeader, Goto
  <2>2. interruption # Nil
    BY Zenon, <2>1 DEF HttpInv, UnsentInv, CalledLabels
  <2> QED
    BY Zenon, <2>1, <2>2, QuietFacts, DeniedIntact
<1>5. CASE CallWriteBody \/ EndWrite \/ Overflow
  BY Zenon, <1>5, CallWriteBodyIntact, EndWriteIntact, OverflowIntact
<1>6. CASE WriteDirect
  <2>1. UNCHANGED vars /\ pc' = "handler"
    BY Zenon, <1>6 DEF WriteDirect, Goto
  <2>2. CASE interruption = Nil
    BY Zenon, <1>6, <2>2, WriteDirectIntact
  <2>3. CASE interruption # Nil
    BY Zenon, <2>1, <2>3, QuietFacts, DeniedIntact
  <2> QED
    BY Zenon, <2>2, <2>3
<1>7. CASE CallResponseBody \/ RespondWithoutBody \/ Respond
  BY Zenon, <1>7, CallResponseBodyIntact, RespondWithoutBodyIntact, RespondIntact
<1>8. CASE Handler
  BY Zenon, <1>8, HandlerHeaderIntact, HandlerWriteIntact, HandlerEndsIntact DEF Handler
<1>9. CASE InCall
  BY Zenon, <1>9, InCallIntact
<1>10. CASE UNCHANGED allVars
  <2>1. UNCHANGED <<vars, pc, request, rw, pending, down, handler>>
    BY Zenon, <1>10 DEF allVars, connVars
  <2>2. UNCHANGED <<interruption, bodyLen, ret, link, conf, mimeListed, waf, cur>>
    BY Zenon, <2>1 DEF vars, evalVars, txVars, bodyVars, histVars
  <2>3. BufferInv'
    BY Zenon, <2>1, <2>2 DEF IntactInv, BufferInv, Buffering, IsResponseBodyProcessable, Rule, Rules, Waf
  <2>4. CountInv' /\ ResponseIntact'
    BY Zenon, <2>1, <2>2 DEF IntactInv, CountInv, Counted, InBuffer, InWrite, ResponseIntact, Undisturbed, ClientStatus
  <2> QED
    BY Zenon, <2>3, <2>4 DEF IntactInv
<1> QED
  BY Zenon, <1>1, <1>2, <1>3, <1>4, <1>5, <1>6, <1>7, <1>8, <1>9, <1>10 DEF HttpNext, Middleware

LEMMA IntactInvariance == ASSUME StaysForced PROVE HttpSpec => []IntactInv
<1>1. HttpInit => IntactInv
  BY Zenon DEF HttpInit, IntactInv, BufferInv, CountInv, ResponseIntact, HandlerLabels
<1>2. Inv /\ HttpInv /\ IntactInv /\ [HttpNext]_allVars => IntactInv'
  BY Zenon, IntactStep
<1> QED
  BY <1>1, <1>2, HttpInvariance, PTL DEF HttpSpec

\* The parts of BodiesIntact that need no bytes counted.
LEMMA ConnectorSound ==
  ASSUME Inv, HttpInv
  PROVE  HttpTypeOK /\ RequestIntact /\ HeadersBeforeBytes
<1>1. HttpTypeOK
  BY Zenon DEF Inv, HttpInv, ConnType, RequestType, WriterType, PendingType, DownType, HandlerType, HttpTypeOK
<1>2. RequestIntact
  BY Zenon DEF HttpInv, ServedInv, RequestIntact
<1>3. HeadersBeforeBytes
  BY Zenon DEF HttpInv, HeadersInv, HeadersEvaluated, HeadersBeforeBytes
<1> QED
  BY Zenon, <1>1, <1>2, <1>3

\* processRequest, rwInterceptor and the response processor: the handler reads the body
\* the client sent; of a response nobody denied the client gets the bytes the handler
\* wrote, with its status, whichever way they took; no byte is sent before the rules of
\* the response headers were evaluated.
THEOREM IntactCorrect == ASSUME StaysForced PROVE HttpSpec => []BodiesIntact
<1>1. Inv /\ HttpInv /\ IntactInv => BodiesIntact
  BY Zenon, ConnectorSound DEF IntactInv, BodiesIntact
<1>2. HttpSpec => []IntactInv
  BY Zenon, IntactInvariance
<1> QED
  BY <1>1, <1>2, HttpInvariance, PTL
=============================================================================
