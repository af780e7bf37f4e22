------------------------- MODULE TransactionProofs -------------------------
(***************************************************************************)
(* Theorems about Transaction, for every rule set, configuration and bound *)
(* that satisfies the assumptions of RuleGroup and Transaction.            *)
(***************************************************************************)
EXTENDS Transaction, TLAPS

\* What WafsAssumption says of the configuration and of the rule at cur.
LEMMA WafFacts ==
  ASSUME waf \in DOMAIN Wafs
  PROVE  /\ Waf.conf \in Confs
         /\ DOMAIN Rules = 1..Len(Rules) /\ Len(Rules) \in Nat
         /\ \A i \in 1..Len(Rules) : IsRule(Rules[i])
  BY Zenon, WafsAssumption DEF Waf, Rules

LEMMA RuleFacts ==
  ASSUME EvalTypeOK, cur \in 1..Len(Rules)
  PROVE  IsRule(Rule)
  BY Zenon, WafFacts DEF EvalTypeOK, Rule

\* A ctl action keeps the settings of the transaction well formed.
LEMMA CtlType ==
  ASSUME NEW c, IsCtl(c), conf \in Confs, ruleRemoveByID \subseteq RuleIds, Ctl(c)
  PROVE  conf' \in Confs /\ ruleRemoveByID' \subseteq RuleIds
  BY Zenon DEF Ctl, IsCtl, Confs

LEMMA VerdictType ==
  ASSUME NEW r, IsRule(r), r.disruptive \in Interrupting
  PROVE  Verdict(r) \in Verdicts
  BY SMTT(30), IdsAssumption DEF IsRule, Verdict, Verdicts

\* One step of Eval keeps the type of everything Eval works on.
LEMMA EvalStepType ==
  ASSUME EvalTypeOK, lastPhase # 0, EvalStep
  PROVE  EvalTypeOK'
<1> USE DEF EvalTypeOK
<1>0. Len(Rules) \in Nat /\ (cur \in 1..Len(Rules) => IsRule(Rule))
  BY Zenon, WafFacts, RuleFacts
<1> USE <1>0
<1>1. CASE BreakOnInterruption
  BY <1>1 DEF BreakOnInterruption, AtRule, BreakLoop, Rules, Rule, Waf
<1>2. CASE PassOver
  BY <1>2 DEF PassOver, AtRule, NextRule, Rules, Rule, Waf
<1>3. CASE PassUntilMark
  BY <1>3 DEF PassUntilMark, Considered, AtRule, NextRule, Rules, Rule, Waf
<1>4. CASE PassSkipped
  BY <1>4 DEF PassSkipped, SkipPending, Considered, AtRule, NextRule, Rules, Rule, Waf
<1>5. CASE BreakOnAllow
  BY SMTT(30), <1>5 DEF BreakOnAllow, Considered, AtRule, BreakLoop, AllowTypes, Rules, Rule, Waf
<1>6. CASE Evaluate
  BY <1>6 DEF Evaluate, Considered, AtRule, IsRule, Rules, Rule, Waf
<1>7. CASE LinkFails
  BY <1>7 DEF LinkFails, AtLink, NextRule, Rules, Rule, Waf
<1>8. CASE LinkMatches
  <2>1. IsCtl(Rule.links[link].ctl) /\ Len(Rule.links) \in Nat
    BY Zenon, <1>8 DEF LinkMatches, AtLink, IsRule
  <2>2. conf' \in Confs /\ ruleRemoveByID' \subseteq RuleIds
    BY Zenon, <1>8, <2>1, CtlType DEF LinkMatches
  <2>3. link' = link + 1 /\ link \in 1..Len(Rule.links) /\ cur \in 1..Len(Rules)
    BY Zenon, <1>8 DEF LinkMatches, AtLink
  <2>4. /\ UNCHANGED <<waf, lastPhase, interruption, Skip, SkipAfter, AllowType>>
        /\ UNCHANGED <<audit, matchedRules, cur, origin, jumps>>
    BY Zenon, <1>8 DEF LinkMatches
  <2>5. Rules' = Rules /\ Rule' = Rule
    BY Zenon, <2>4 DEF Rules, Rule, Waf
  <2> QED
    BY <2>1, <2>2, <2>3, <2>4, <2>5
<1>9. CASE RuleMatches
  <2>1. IsRule(Rule) /\ cur \in 1..Len(Rules)
    BY Zenon, <1>9 DEF RuleMatches
  <2>2. interruption' \in Verdicts
    <3>1. CASE Denies(Rule)
      BY Zenon, <1>9, <2>1, <3>1, VerdictType DEF RuleMatches, Denies
    <3>2. CASE ~Denies(Rule)
      BY Zenon, <1>9, <3>2 DEF RuleMatches
    <3> QED BY Zenon, <3>1, <3>2
  <2>3. Skip' \in Nat /\ SkipAfter' \in Marks \cup {NoMark} /\ AllowType' \in AllowTypes
    BY Zenon, <1>9, <2>1 DEF RuleMatches, IsRule, Allows
  <2>4. audit' \in BOOLEAN
    BY Zenon, <1>9, <2>1 DEF RuleMatches, IsRule
  <2>5. matchedRules' \in Seq(Matches)
    <3>1. CASE Rule.id = 0
      BY Zenon, <1>9, <3>1 DEF RuleMatches
    <3>2. CASE Rule.id # 0
      <4>1. [phase |-> lastPhase, id |-> Rule.id, denied |-> Denies(Rule)] \in Matches
        BY <2>1, <3>2 DEF IsRule, Matches, Phases, Denies
      <4> QED
        BY <1>9, <3>2, <4>1 DEF RuleMatches
    <3> QED BY Zenon, <3>1, <3>2
  <2>6. origin' \in Origins
    BY Zenon, <1>9 DEF RuleMatches, Origins
  <2>7. waf' \in DOMAIN Wafs /\ Rules' = Rules /\ conf' \in Confs /\ lastPhase' \in 0..5
    BY Zenon, <1>9 DEF RuleMatches, Rules, Waf
  <2>8. ruleRemoveByID' \subseteq RuleIds /\ link' = 0 /\ cur' \in 0..(Len(Rules) + 1)
    BY <1>9, <2>1 DEF RuleMatches, NextRule
  <2> QED
    BY Zenon, <2>2, <2>3, <2>4, <2>5, <2>6, <2>7, <2>8
<1> QED
  BY Zenon, <1>1, <1>2, <1>3, <1>4, <1>5, <1>6, <1>7, <1>8, <1>9 DEF EvalStep

LEMMA BeginEvalType ==
  ASSUME EvalTypeOK, NEW p \in Phases, cur = 0, BeginEval(p)
  PROVE  EvalTypeOK'
  BY WafFacts DEF EvalTypeOK, BeginEval, Phases, Rules, Rule, Waf

LEMMA EndEvalType ==
  ASSUME EvalTypeOK, EndEval
  PROVE  EvalTypeOK'
  BY WafFacts DEF EvalTypeOK, EndEval, EndAllowPhase, ResetSkip, AllowTypes, Rules, Rule, Waf

LEMMA InitType == Init => TypeOK
<1> SUFFICES ASSUME Init PROVE TypeOK
  BY Zenon
<1>1. waf \in DOMAIN Wafs /\ Waf.conf \in Confs /\ Len(Rules) \in Nat
  BY Zenon, WafFacts DEF Init, EvalInit
<1>2. Nil \in Verdicts /\ origin \in Origins
  BY DEF Init, EvalInit, Nil, Verdicts, Origins
<1>3. matchedRules \in Seq(Matches)
  BY DEF Init, EvalInit
<1>4. EvalTypeOK
  <2>1. audit \in BOOLEAN
    BY Zenon DEF Init, EvalInit
  <2>2. cur \in 0..(Len(Rules) + 1) /\ link = 0
    BY <1>1 DEF Init, EvalInit
  <2>3. ruleRemoveByID \subseteq RuleIds
    BY Zenon DEF Init, EvalInit
  <2> QED
    BY <1>1, <1>2, <1>3, <2>1, <2>2, <2>3 DEF Init, EvalInit, EvalTypeOK, AllowTypes
<1> QED
  BY Zenon, <1>2, <1>4 DEF Init, EvalInit, TypeOK, Sides, Phases, Returns

LEMMA LimitType ==
  ASSUME EvalTypeOK, NEW s \in Sides
  PROVE  BufferLimit(s) \in Nat /\ Limit(s) \in Nat
  BY Zenon, WafFacts DEF EvalTypeOK, BufferLimit, Limit, Confs

LEMMA BufferWritesType ==
  ASSUME TypeOK, NEW s \in Sides, NEW n \in Nat, NEW b \in BufferWrites(s, n)
  PROVE  /\ b.len \in Nat /\ b.err \in {"none", "limit", "io"}
         /\ bodyLen[s] <= b.len /\ b.len <= bodyLen[s] + n
         /\ b.len <= bodyLen[s] \/ b.len <= BufferLimit(s)
<1>1. BufferLimit(s) \in Nat /\ bodyLen[s] \in Nat
  BY Zenon, LimitType DEF TypeOK
<1>2. CASE n = 0
  BY <1>1, <1>2 DEF BufferWrites
<1>3. CASE n # 0 /\ bodyLen[s] + n > BufferLimit(s)
  BY <1>1, <1>3 DEF BufferWrites
<1>4. CASE n # 0 /\ ~(bodyLen[s] + n > BufferLimit(s))
  <2>1. \/ b = [len |-> bodyLen[s] + n, err |-> "none"]
        \/ \E l \in {bodyLen[s], bodyLen[s] + n} : b = [len |-> l, err |-> "io"]
    BY Zenon, <1>4 DEF BufferWrites
  <2> QED
    BY <1>1, <1>4, <2>1
<1> QED
  BY Zenon, <1>1, <1>2, <1>3, <1>4

LEMMA BufferCopiesType ==
  ASSUME TypeOK, NEW s \in Sides, NEW n \in Nat, NEW breaks \in BOOLEAN,
         NEW b \in BufferCopies(s, n, breaks)
  PROVE  /\ b.len \in Nat /\ b.err \in {"none", "limit", "io"}
         /\ bodyLen[s] <= b.len /\ b.len <= bodyLen[s] + n
         /\ b.len <= BufferLimit(s)
<1>1. BufferLimit(s) \in Nat /\ bodyLen[s] \in Nat
  BY Zenon, LimitType DEF TypeOK
<1>2. CASE bodyLen[s] + n > BufferLimit(s)
  <2>1. PICK l \in bodyLen[s]..BufferLimit(s) : b = [len |-> l, err |-> "limit"]
    BY Zenon, <1>2 DEF BufferCopies
  <2> QED
    BY <1>1, <1>2, <2>1
<1>3. CASE ~(bodyLen[s] + n > BufferLimit(s))
  <2>1. \/ b.len = bodyLen[s] + n /\ b.err \in {"none", "io"}
        \/ \E l \in bodyLen[s]..(bodyLen[s] + n) : b = [len |-> l, err |-> "io"]
    BY <1>3 DEF BufferCopies
  <2> QED
    BY <1>1, <1>3, <2>1
<1> QED
  BY Zenon, <1>2, <1>3

----------------------------------------------------------------------------
\* The part of TypeOK that beginning a call and returning from it can disturb.
CallTypeOK ==
  /\ EvalTypeOK
  /\ cur # 0 <=> call # "none"
  /\ call # "none" => lastPhase # 0
  /\ call \in {"none", "phase", "log"}
  /\ ret \in Returns
  /\ evals \in [Phases -> Nat]

Errors == {"none", "limit", "io", "processor"}

LEMMA ReturnType ==
  ASSUME TypeOK, Idle, NEW it \in Verdicts, NEW n \in Nat, NEW err \in Errors,
         Return(it, n, err), UNCHANGED evalVars, UNCHANGED evals
  PROVE  CallTypeOK'
<1>1. EvalTypeOK'
  BY Zenon DEF TypeOK, EvalTypeOK, evalVars, Rules, Rule, Waf
<1>2. ret' \in Returns
  BY Zenon DEF Return, Returns, Errors
<1> QED
  BY Zenon, <1>1, <1>2 DEF TypeOK, Idle, Return, CallTypeOK, evalVars

LEMMA EnterEvalType ==
  ASSUME TypeOK, Idle, NEW p \in Phases, NEW kind \in {"phase", "log"},
         EnterEval(p, kind), ret' \in Returns
  PROVE  CallTypeOK'
<1>1. EvalTypeOK'
  BY Zenon, BeginEvalType DEF TypeOK, Idle, EnterEval
<1>2. cur' = 1 /\ call' = kind /\ lastPhase' = p
  BY Zenon DEF EnterEval, BeginEval
<1>3. evals' \in [Phases -> Nat]
  BY DEF TypeOK, EnterEval
<1> QED
  BY <1>1, <1>2, <1>3 DEF CallTypeOK, Phases

LEMMA NilType == Nil \in Verdicts /\ \A s \in Sides : LimitVerdict(s) \in Verdicts
  BY DEF Nil, Verdicts, LimitVerdict, Interrupting

LEMMA ProcessHeadersType ==
  ASSUME TypeOK, NEW p \in Phases, ProcessHeaders(p)
  PROVE  CallTypeOK'
<1>0. interruption \in Verdicts /\ Idle
  BY Zenon DEF TypeOK, EvalTypeOK, ProcessHeaders
<1>1. CASE Return(Nil, 0, "none") /\ UNCHANGED <<evalVars, evals>>
  BY Zenon, <1>0, <1>1, ReturnType, NilType DEF Errors
<1>2. CASE Return(interruption, 0, "none") /\ UNCHANGED <<evalVars, evals>>
  BY Zenon, <1>0, <1>2, ReturnType DEF Errors
<1>3. CASE EnterEval(p, "phase") /\ ret' = [it |-> Nil, n |-> 0, err |-> "none"]
  BY Zenon, <1>0, <1>3, EnterEvalType, NilType DEF Returns
<1> QED
  BY Zenon, <1>1, <1>2, <1>3 DEF ProcessHeaders

LEMMA OutcomesType ==
  ASSUME NEW len, NEW o \in RequestBodyOutcomes(len) \cup ResponseBodyOutcomes
  PROVE  o.err \in Errors
  BY DEF RequestBodyOutcomes, ResponseBodyOutcomes, Errors

LEMMA ProcessBodyType ==
  ASSUME TypeOK, Idle, NEW s \in Sides, NEW len \in Nat, NEW n \in Nat, ProcessBody(s, len, n)
  PROVE  /\ CallTypeOK'
         /\ bodyError' \in [Sides -> BOOLEAN] /\ inspected' \in [Sides -> Nat]
<1>0. interruption \in Verdicts
  BY Zenon DEF TypeOK, EvalTypeOK
<1>1. CASE /\ Return(IF EngineOff THEN Nil ELSE interruption, n, "none")
           /\ UNCHANGED <<evalVars, bodyError, evals, inspected>>
  <2>1. CallTypeOK'
    BY Zenon, <1>0, <1>1, ReturnType, NilType DEF Errors
  <2> QED
    BY Zenon, <1>1, <2>1 DEF TypeOK
<1>2. CASE /\ \E o \in IF s = "req" THEN RequestBodyOutcomes(len) ELSE ResponseBodyOutcomes :
                 /\ bodyError' = [bodyError EXCEPT ![s] = @ \/ o.failed]
                 /\ inspected' = [inspected EXCEPT ![s] = IF o.read THEN len ELSE @]
                 /\ ret' = [it |-> Nil, n |-> n, err |-> o.err]
           /\ EnterEval(HeadersPhase(s) + 1, "phase")
  <2>1. PICK o \in RequestBodyOutcomes(len) \cup ResponseBodyOutcomes :
                 /\ bodyError' = [bodyError EXCEPT ![s] = @ \/ o.failed]
                 /\ inspected' = [inspected EXCEPT ![s] = IF o.read THEN len ELSE @]
                 /\ ret' = [it |-> Nil, n |-> n, err |-> o.err]
    BY Zenon, <1>2
  <2>2. ret' \in Returns
    BY Zenon, <2>1, OutcomesType, NilType DEF Returns, Errors
  <2>3. HeadersPhase(s) + 1 \in Phases
    BY DEF HeadersPhase, Phases
  <2>4. CallTypeOK'
    BY Zenon, <1>2, <2>2, <2>3, EnterEvalType
  <2>5. bodyError' \in [Sides -> BOOLEAN] /\ inspected' \in [Sides -> Nat]
    BY Zenon, <2>1, OutcomesType DEF TypeOK
  <2> QED
    BY Zenon, <2>4, <2>5
<1> QED
  BY Zenon, <1>1, <1>2 DEF ProcessBody

\* What the branches of a body write leave behind, whichever is taken.
WriteTypeOK ==
  /\ CallTypeOK
  /\ bodyLen \in [Sides -> Nat]
  /\ dataError \in [Sides -> BOOLEAN]
  /\ bodyError \in [Sides -> BOOLEAN]
  /\ inspected \in [Sides -> Nat]

LEMMA IgnoreBodyType ==
  ASSUME TypeOK, Idle, NEW s \in Sides, IgnoreBody(s), UNCHANGED bodyLen
  PROVE  WriteTypeOK'
<1>1. CallTypeOK'
  BY SMTT(30), ReturnType, NilType DEF TypeOK, EvalTypeOK, IgnoreBody, Errors
<1> QED
  BY Zenon, <1>1 DEF TypeOK, IgnoreBody, WriteTypeOK

LEMMA RejectBodyType ==
  ASSUME TypeOK, Idle, NEW s \in Sides, RejectBody(s), bodyLen' \in [Sides -> Nat]
  PROVE  WriteTypeOK'
<1>1. EvalTypeOK'
  BY Zenon, NilType DEF TypeOK, EvalTypeOK, RejectBody, Interrupt, Rules, Rule, Waf
<1>2. ret' \in Returns /\ call' = "none"
  BY Zenon, NilType DEF RejectBody, Return, Returns
<1>3. CallTypeOK'
  BY Zenon, <1>1, <1>2 DEF TypeOK, Idle, CallTypeOK, RejectBody
<1> QED
  BY Zenon, <1>3 DEF TypeOK, RejectBody, WriteTypeOK

LEMMA FillBodyType ==
  ASSUME TypeOK, Idle, NEW s \in Sides, Room(s) \in Nat, FillBody(s)
  PROVE  WriteTypeOK'
<1>1. PICK b \in BufferWrites(s, Room(s)) :
         /\ dataError' = [dataError EXCEPT ![s] = TRUE]
         /\ bodyLen' = [bodyLen EXCEPT ![s] = b.len]
         /\ \/ /\ b.err # "none"
               /\ Return(Nil, 0, b.err)
               /\ UNCHANGED <<evalVars, bodyError, evals, inspected>>
            \/ b.err = "none" /\ ProcessBody(s, b.len, Room(s))
  BY Zenon DEF FillBody
<1>2. b.len \in Nat /\ b.err \in Errors
  BY Zenon, BufferWritesType DEF Errors
<1>3. CallTypeOK' /\ bodyError' \in [Sides -> BOOLEAN] /\ inspected' \in [Sides -> Nat]
  BY Zenon, <1>1, <1>2, ReturnType, NilType, ProcessBodyType DEF TypeOK
<1>4. bodyLen' \in [Sides -> Nat] /\ dataError' \in [Sides -> BOOLEAN]
  BY Zenon, <1>1, <1>2 DEF TypeOK
<1> QED
  BY Zenon, <1>3, <1>4 DEF WriteTypeOK

LEMMA AppendBodyType ==
  ASSUME TypeOK, Idle, NEW s \in Sides, NEW n \in Nat, AppendBody(s, n)
  PROVE  WriteTypeOK'
<1>1. PICK b \in BufferWrites(s, n) :
         /\ bodyLen' = [bodyLen EXCEPT ![s] = b.len]
         /\ IF b.err = "none" THEN Return(interruption, n, "none") ELSE Return(Nil, 0, b.err)
         /\ UNCHANGED <<evalVars, dataError, bodyError, evals, inspected>>
  BY Zenon DEF AppendBody
<1>2. b.len \in Nat /\ b.err \in Errors
  BY SMTT(30), BufferWritesType DEF Errors
<1>3. CallTypeOK'
  BY SMTT(30), <1>1, <1>2, ReturnType, NilType DEF TypeOK, EvalTypeOK, Errors
<1>4. bodyLen' \in [Sides -> Nat]
  BY Zenon, <1>1, <1>2 DEF TypeOK
<1> QED
  BY Zenon, <1>1, <1>3, <1>4 DEF TypeOK, WriteTypeOK

LEMMA CopyBodyType ==
  ASSUME TypeOK, Idle, NEW s \in Sides, NEW n \in Nat, NEW sized \in BOOLEAN,
         NEW breaks \in BOOLEAN, Room(s) \in Nat, CopyBody(s, n, sized, breaks)
  PROVE  WriteTypeOK'
<1> DEFINE k == IF n < Room(s) THEN n ELSE Room(s)
<1>0. k \in Nat /\ (breaks /\ n < Room(s)) \in BOOLEAN
  BY Zenon
<1> HIDE DEF k
<1>1. PICK b \in BufferCopies(s, k, breaks /\ n < Room(s)) :
     /\ bodyLen' = [bodyLen EXCEPT ![s] = b.len]
     /\ \/ /\ b.err # "none"
           /\ dataError' = [dataError EXCEPT ![s] = @ \/ (sized /\ n >= Room(s))]
           /\ Return(Nil, b.len - bodyLen[s], b.err)
           /\ UNCHANGED <<evalVars, bodyError, evals, inspected>>
        \/ /\ b.err = "none" /\ b.len < Limit(s)
           /\ Return(interruption, k, "none")
           /\ UNCHANGED <<evalVars, dataError, bodyError, evals, inspected>>
        \/ /\ b.err = "none" /\ b.len = Limit(s) /\ LimitAction(s) = "Reject"
           /\ RejectBody(s)
        \/ /\ b.err = "none" /\ b.len = Limit(s) /\ LimitAction(s) = "ProcessPartial"
           /\ dataError' = [dataError EXCEPT ![s] = TRUE]
           /\ ProcessBody(s, b.len, k)
  BY Zenon DEF CopyBody, k
<1>2. /\ b.len \in Nat /\ b.err \in Errors /\ b.len - bodyLen[s] \in Nat
      /\ bodyLen' \in [Sides -> Nat]
  <2>1. /\ b.len \in Nat /\ b.err \in {"none", "limit", "io"}
        /\ bodyLen[s] <= b.len
    BY ZenonT(60), <1>0, BufferCopiesType
  <2> QED
    BY <1>1, <2>1 DEF Errors, TypeOK
<1>3. CASE /\ dataError' = [dataError EXCEPT ![s] = @ \/ (sized /\ n >= Room(s))]
           /\ Return(Nil, b.len - bodyLen[s], b.err)
           /\ UNCHANGED <<evalVars, bodyError, evals, inspected>>
  <2>1. CallTypeOK'
    BY Zenon, <1>2, <1>3, ReturnType, NilType
  <2> QED
    BY Zenon, <1>2, <1>3, <2>1 DEF TypeOK, WriteTypeOK
<1>4. CASE /\ Return(interruption, k, "none")
           /\ UNCHANGED <<evalVars, dataError, bodyError, evals, inspected>>
  <2>0. interruption \in Verdicts /\ k \in Nat /\ "none" \in Errors
    BY Zenon, <1>0 DEF TypeOK, EvalTypeOK, Errors
  <2>1. CallTypeOK'
    BY Zenon, <1>4, <2>0, ReturnType
  <2> QED
    BY SMTT(30), <1>2, <1>4, <2>1 DEF TypeOK, WriteTypeOK
<1>5. CASE RejectBody(s)
  BY Zenon, <1>2, <1>5, RejectBodyType
<1>6. CASE dataError' = [dataError EXCEPT ![s] = TRUE] /\ ProcessBody(s, b.len, k)
  <2>1. CallTypeOK' /\ bodyError' \in [Sides -> BOOLEAN] /\ inspected' \in [Sides -> Nat]
    BY Zenon, <1>0, <1>2, <1>6, ProcessBodyType
  <2> QED
    BY ZenonT(60), <1>2, <1>6, <2>1 DEF TypeOK, WriteTypeOK
<1> QED
  BY Zenon, <1>1, <1>3, <1>4, <1>5, <1>6

\* A write or a read of a body, in all its branches.
WriteStep(s, n) ==
  \/ WriteBody(s, n)
  \/ \E sized, breaks \in BOOLEAN : ReadBodyFrom(s, n, sized, breaks)

LEMMA WriteStepType ==
  ASSUME TypeOK, NEW s \in Sides, NEW n \in Nat, WriteStep(s, n), bodyLen[s] <= Limit(s)
  PROVE  TypeOK'
<1>0. Idle /\ Room(s) \in Nat /\ Offer(s, n) /\ NoteFailure(s)
  BY SMTT(30), LimitType DEF TypeOK, Room, WriteStep, WriteBody, ReadBodyFrom, Offer
<1>1. WriteTypeOK'
  BY Zenon, <1>0, IgnoreBodyType, RejectBodyType, FillBodyType, AppendBodyType, CopyBodyType
  DEF WriteStep, WriteBody, ReadBodyFrom, TypeOK
<1>2. offered' \in [Sides -> Nat] /\ writeFailed' \in [Sides -> BOOLEAN]
  BY <1>0 DEF Offer, NoteFailure, TypeOK
<1> QED
  BY Zenon, <1>0, <1>1, <1>2 DEF Idle, Offer, TypeOK, WriteTypeOK, CallTypeOK

----------------------------------------------------------------------------
\* No byte of a body is buffered before the evaluation of its headers phase ended,
\* nor in an object that is in the pool.
NothingBuffered(s) ==
  \/ ~open
  \/ lastPhase < HeadersPhase(s)
  \/ lastPhase = HeadersPhase(s) /\ call # "none"

\* WithinLimits is inductive only together with this: ctl may lower a limit as long
\* as, and only as long as, nothing has been buffered.
BodyInv ==
  /\ WithinLimits
  /\ \A s \in Sides : NothingBuffered(s) => bodyLen[s] = 0

LEMMA EvaluatingType ==
  ASSUME TypeOK, Evaluating
  PROVE  TypeOK'
<1>1. EvalTypeOK'
  BY Zenon, EvalStepType DEF TypeOK, Evaluating
<1>2. cur' # 0
  <2>1. Len(Rules) \in Nat /\ cur \in Nat
    BY SMTT(30), WafFacts DEF TypeOK, EvalTypeOK
  <2>2. cur # 0 /\ cur' \in {cur, cur + 1, Len(Rules) + 1}
    BY ZenonT(60), <2>1 DEF TypeOK, Evaluating, EvalStep, BreakOnInterruption, PassOver, PassUntilMark,
       PassSkipped, BreakOnAllow, Evaluate, LinkFails, LinkMatches, RuleMatches, NextRule, BreakLoop
  <2> QED
    BY <2>1, <2>2
<1>3. lastPhase' = lastPhase
  BY Zenon DEF Evaluating, EvalStep, BreakOnInterruption, PassOver, PassUntilMark,
     PassSkipped, BreakOnAllow, Evaluate, LinkFails, LinkMatches, RuleMatches
<1> QED
  BY Zenon, <1>1, <1>2, <1>3 DEF TypeOK, Evaluating, txVars, bodyVars, histVars

LEMMA ReturnFromEvalType ==
  ASSUME TypeOK, ReturnFromEval
  PROVE  TypeOK'
<1>1. EvalTypeOK' /\ cur' = 0 /\ call' = "none"
  BY Zenon, EndEvalType DEF TypeOK, ReturnFromEval, EndEval
<1>2. ret' \in Returns
  BY Zenon DEF TypeOK, EvalTypeOK, ReturnFromEval, Returns
<1> QED
  BY Zenon, <1>1, <1>2 DEF TypeOK, ReturnFromEval, bodyVars, histVars

\* Close and newTransaction leave a well-formed object.
LEMMA PoolType ==
  ASSUME TypeOK, Close \/ newTransaction
  PROVE  TypeOK'
<1>1. CASE Close
  <2>1. conf' \in Confs
    BY Zenon, <1>1 DEF Close, TypeOK, EvalTypeOK, Confs, Processors
  <2>2. EvalTypeOK'
    BY Zenon, <1>1, <2>1 DEF Close, TypeOK, EvalTypeOK, Rules, Rule, Waf
  <2> QED
    BY Zenon, <1>1, <2>2 DEF Close, TypeOK, Idle, Sides, histVars
<1>2. CASE newTransaction
  <2>1. conf' \in Confs
    BY Zenon, <1>2, WafFacts DEF newTransaction, TypeOK, EvalTypeOK, Confs
  <2>2. matchedRules' \in Seq(Matches) /\ ruleRemoveByID' \subseteq RuleIds
    BY <1>2 DEF newTransaction, ClearExclusions
  <2>3. origin' \in Origins /\ interruption' \in Verdicts /\ AllowType' \in AllowTypes
    BY <1>2, NilType DEF newTransaction, Origins, AllowTypes
  <2>4. EvalTypeOK'
    <3>1. audit' \in BOOLEAN /\ SkipAfter' \in Marks \cup {NoMark}
      BY Zenon, <1>2 DEF newTransaction
    <3>2. Rules' = Rules /\ Rule' = Rule /\ UNCHANGED <<waf, cur, link>> /\ Skip' = 0 /\ lastPhase' = 0
      BY Zenon, <1>2 DEF newTransaction, Rules, Rule, Waf
    <3> QED
      BY <2>1, <2>2, <2>3, <3>1, <3>2 DEF TypeOK, EvalTypeOK
  <2>5. ret' \in Returns
    BY Zenon, <1>2, NilType DEF newTransaction, Returns
  <2>6. call' = "none"
    BY Zenon, <1>2 DEF newTransaction, TypeOK
  <2> QED
    BY Zenon, <1>2, <2>4, <2>5, <2>6 DEF newTransaction, TypeOK, Sides, bodyVars
<1> QED
  BY Zenon, <1>1, <1>2

\* The calls that neither write a body nor end an evaluation.
LEMMA CallStepType ==
  ASSUME TypeOK,
         \/ AddRequestHeader
         \/ \E listed \in BOOLEAN : AddResponseHeader(listed)
         \/ ProcessRequestHeaders
         \/ ProcessRequestBody
         \/ \E code \in Statuses : ProcessResponseHeaders(code)
         \/ ProcessResponseBody
         \/ ProcessLogging
  PROVE  TypeOK'
<1>1. CASE AddRequestHeader
  <2>1. conf' \in Confs
    BY ZenonT(60), <1>1 DEF AddRequestHeader, TypeOK, EvalTypeOK, Confs, Processors
  <2>2. EvalTypeOK'
    BY SMTT(30), <1>1, <2>1 DEF AddRequestHeader, TypeOK, EvalTypeOK, Rules, Rule, Waf
  <2> QED
    BY Zenon, <1>1, <2>2 DEF AddRequestHeader, TypeOK, txVars, bodyVars, histVars
<1>2. ASSUME NEW listed \in BOOLEAN, AddResponseHeader(listed)
      PROVE  TypeOK'
  BY SMTT(30), <1>2 DEF AddResponseHeader, TypeOK, EvalTypeOK, evalVars, histVars, Rules, Rule, Waf
<1>3. CASE ProcessRequestHeaders
  <2>1. CallTypeOK' /\ open
    BY <1>3, ProcessHeadersType DEF ProcessRequestHeaders, ProcessHeaders, Idle, Phases
  <2> QED
    BY SMTT(30), <1>3, <2>1 DEF ProcessRequestHeaders, ProcessHeaders, CallTypeOK, TypeOK
<1>4. CASE ProcessRequestBody
  <2>1. /\ CallTypeOK' /\ open
        /\ bodyError' \in [Sides -> BOOLEAN] /\ inspected' \in [Sides -> Nat]
    BY SMTT(30), <1>4, ProcessBodyType DEF ProcessRequestBody, Idle, Sides, TypeOK
  <2> QED
    BY Zenon, <1>4, <2>1 DEF ProcessRequestBody, CallTypeOK, TypeOK
<1>5. ASSUME NEW code \in Statuses, ProcessResponseHeaders(code)
      PROVE  TypeOK'
  <2>1. CallTypeOK' /\ open
    BY <1>5, ProcessHeadersType DEF ProcessResponseHeaders, ProcessHeaders, Idle, Phases
  <2>2. responseStatus' \in Nat
    BY SMTT(30), <1>5, BoundsAssumption DEF ProcessResponseHeaders, TypeOK
  <2> QED
    BY SMTT(30), <1>5, <2>1, <2>2 DEF ProcessResponseHeaders, ProcessHeaders, CallTypeOK, TypeOK
<1>6. CASE ProcessResponseBody
  <2>1. /\ CallTypeOK' /\ open
        /\ bodyError' \in [Sides -> BOOLEAN] /\ inspected' \in [Sides -> Nat]
    BY SMTT(30), <1>6, ProcessBodyType DEF ProcessResponseBody, Idle, Sides, TypeOK
  <2> QED
    BY SMTT(30), <1>6, <2>1 DEF ProcessResponseBody, CallTypeOK, TypeOK
<1>7. CASE ProcessLogging
  <2>1. CallTypeOK' /\ open
    <3>1. CASE UNCHANGED <<evalVars, call, evals>>
      BY SMTT(30), <1>7, <3>1 DEF ProcessLogging, Idle, CallTypeOK, TypeOK, EvalTypeOK, evalVars, Rules, Rule, Waf
    <3>2. CASE EnterEval(Logging, "log")
      BY SMTT(30), <1>7, <3>2, EnterEvalType DEF ProcessLogging, Idle, TypeOK, Logging, Phases
    <3> QED
      BY SMTT(30), <1>7, <3>1, <3>2 DEF ProcessLogging
  <2> QED
    BY Zenon, <1>7, <2>1 DEF ProcessLogging, CallTypeOK, TypeOK, bodyVars
<1> QED
  BY Zenon, <1>1, <1>2, <1>3, <1>4, <1>5, <1>6, <1>7

LEMMA StepType ==
  ASSUME TypeOK, BodyInv, [Next]_vars
  PROVE  TypeOK'
<1>1. ASSUME NEW s \in Sides, NEW n \in Chunks, WriteStep(s, n)
      PROVE  TypeOK'
  BY SMTT(30), <1>1, WriteStepType, BoundsAssumption DEF BodyInv, WithinLimits
<1>2. CASE UNCHANGED vars
  BY SMTT(30), <1>2 DEF vars, evalVars, txVars, bodyVars, histVars, TypeOK, EvalTypeOK, Rules, Rule, Waf
<1> QED
  BY Zenon, <1>1, <1>2, CallStepType, EvaluatingType, ReturnFromEvalType, PoolType
  DEF Next, WriteStep, WriteRequestBody, WriteResponseBody, ReadRequestBodyFrom,
      ReadResponseBodyFrom, Sides

----------------------------------------------------------------------------
\* When the evaluation of phase p may begin.
Due(p) ==
  \/ p = Logging
  \/ p \in {1, 3} /\ lastPhase < p /\ interruption = Nil
  \/ p \in {2, 4} /\ lastPhase = p - 1 /\ interruption = Nil

\* What a call does to the position of the transaction: nothing, or it begins the
\* evaluation of a phase that is due.
Begins(p) ==
  /\ open /\ Due(p)
  /\ lastPhase' = p /\ call' # "none"
  /\ evals' = [evals EXCEPT ![p] = @ + 1]
  /\ UNCHANGED <<waf, conf, interruption, matchedRules, link, open>>

Stays ==
  /\ call' = call
  /\ UNCHANGED <<lastPhase, evals>>

LEMMA ProcessHeadersEffect ==
  ASSUME NEW p \in {1, 3}, ProcessHeaders(p), TypeOK
  PROVE  /\ Idle
         /\ UNCHANGED <<waf, conf, interruption, matchedRules, link, open, bodyLen>>
         /\ Begins(p) \/ Stays
<1>1. CASE UNCHANGED <<evalVars, evals>> /\ call' = "none"
  BY SMTT(30), <1>1 DEF ProcessHeaders, Idle, evalVars, Stays
<1>2. CASE ~NotDue(p) /\ EnterEval(p, "phase")
  <2>1. Due(p)
    BY SMTT(30), <1>2 DEF NotDue, Due, TypeOK, EvalTypeOK
  <2> QED
    BY <1>2, <2>1 DEF ProcessHeaders, Idle, EnterEval, BeginEval, Begins, TypeOK, EvalTypeOK
<1> QED
  BY Zenon, <1>1, <1>2 DEF ProcessHeaders, Return

LEMMA ProcessBodyEffect ==
  ASSUME NEW s \in Sides, NEW len, NEW n, ProcessBody(s, len, n), TypeOK, Idle, open' = open
  PROVE  /\ UNCHANGED <<waf, conf, interruption, matchedRules, link>>
         /\ Begins(HeadersPhase(s) + 1) \/ Stays
<1>1. CASE UNCHANGED <<evalVars, evals>> /\ call' = "none"
  BY Zenon, <1>1 DEF Idle, evalVars, Stays
<1>2. CASE /\ interruption = Nil /\ lastPhase = HeadersPhase(s)
           /\ EnterEval(HeadersPhase(s) + 1, "phase")
  <2>1. Due(HeadersPhase(s) + 1)
    BY SMTT(30), <1>2 DEF Due, HeadersPhase, Sides
  <2>2. link' = link
    BY SMTT(30), <1>2 DEF EnterEval, BeginEval, Idle, TypeOK, EvalTypeOK
  <2> QED
    BY Zenon, <1>2, <2>1, <2>2 DEF Idle, EnterEval, BeginEval, Begins
<1> QED
  BY Zenon, <1>1, <1>2 DEF ProcessBody, Return

\* A call that returns at once keeps the verdict, or sets the one of a body limit.
Quiet == Stays /\ UNCHANGED <<waf, open, interruption, matchedRules, link>>
Rejects ==
  /\ Idle /\ Stays
  /\ \E s \in Sides : interruption' = LimitVerdict(s)
  /\ UNCHANGED <<waf, open, matchedRules, link>>

LEMMA WriteStepEffect ==
  ASSUME TypeOK, NEW s \in Sides, NEW n \in Nat, WriteStep(s, n), bodyLen[s] <= Limit(s)
  PROVE  /\ Idle /\ UNCHANGED <<waf, conf, open>>
         /\ \/ Begins(HeadersPhase(s) + 1)
            \/ Quiet
            \/ Rejects
         /\ \/ UNCHANGED bodyLen
            \/ /\ Accepting(s) /\ WriteOrder(s)
               /\ \E l \in Nat : /\ bodyLen' = [bodyLen EXCEPT ![s] = l]
                                 /\ l <= Limit(s) /\ (l <= bodyLen[s] \/ l <= BufferLimit(s))
<1>0. Idle /\ WriteOrder(s) /\ open' = open /\ Room(s) \in Nat /\ Limit(s) \in Nat /\ bodyLen[s] \in Nat
  BY SMTT(30), LimitType DEF TypeOK, Room, WriteStep, WriteBody, ReadBodyFrom, Offer
<1> USE <1>0
<1>1. CASE IgnoreBody(s) /\ UNCHANGED bodyLen
  BY SMTT(30), <1>1 DEF IgnoreBody, Return, Idle, evalVars, Quiet, Stays
<1>2. ASSUME RejectBody(s)
      PROVE  Rejects /\ UNCHANGED <<waf, conf, open>>
  BY Zenon, <1>2 DEF RejectBody, Interrupt, Return, Idle, Rejects, Stays
<1>3. CASE Accepting(s) /\ FillBody(s)
  <2>1. PICK b \in BufferWrites(s, Room(s)) :
           /\ bodyLen' = [bodyLen EXCEPT ![s] = b.len]
           /\ \/ UNCHANGED <<evalVars, evals>> /\ call' = "none"
              \/ ProcessBody(s, b.len, Room(s))
    BY ZenonT(60), <1>3 DEF FillBody, Return
  <2>2. /\ b.len \in Nat /\ b.len <= bodyLen[s] + Room(s)
        /\ b.len <= bodyLen[s] \/ b.len <= BufferLimit(s)
    BY Zenon, BufferWritesType
  <2>3. b.len <= Limit(s)
    BY SMTT(30), <2>2 DEF Room
  <2>4. /\ UNCHANGED <<waf, conf>>
        /\ Begins(HeadersPhase(s) + 1) \/ Quiet
    BY Zenon, <2>1, ProcessBodyEffect DEF Quiet, Stays, evalVars, Idle
  <2> QED
    BY Zenon, <1>3, <2>1, <2>2, <2>3, <2>4
<1>4. CASE Accepting(s) /\ n < Room(s) /\ AppendBody(s, n)
  <2>1. PICK b \in BufferWrites(s, n) :
           /\ bodyLen' = [bodyLen EXCEPT ![s] = b.len]
           /\ UNCHANGED <<evalVars, evals>> /\ call' = "none"
    BY Zenon, <1>4 DEF AppendBody, Return
  <2>2. /\ b.len \in Nat /\ b.len <= bodyLen[s] + n
        /\ b.len <= bodyLen[s] \/ b.len <= BufferLimit(s)
    BY Zenon, BufferWritesType
  <2>3. b.len <= Limit(s)
    BY <1>4, <2>2 DEF Room
  <2>4. Quiet /\ UNCHANGED <<waf, conf>>
    BY Zenon, <2>1 DEF Quiet, Stays, evalVars, Idle
  <2> QED
    BY Zenon, <1>4, <2>1, <2>2, <2>3, <2>4
<1>5. ASSUME NEW sized \in BOOLEAN, NEW breaks \in BOOLEAN, Accepting(s), CopyBody(s, n, sized, breaks)
      PROVE  /\ \E l \in Nat : /\ bodyLen' = [bodyLen EXCEPT ![s] = l]
                               /\ l <= Limit(s) /\ (l <= bodyLen[s] \/ l <= BufferLimit(s))
             /\ UNCHANGED <<waf, conf>>
             /\ Begins(HeadersPhase(s) + 1) \/ Quiet \/ Rejects
  <2> DEFINE k == IF n < Room(s) THEN n ELSE Room(s)
             br == breaks /\ n < Room(s)
  <2>0. k \in Nat /\ k <= Room(s) /\ br \in BOOLEAN
    OBVIOUS
  <2>1. PICK b \in BufferCopies(s, k, br) :
           /\ bodyLen' = [bodyLen EXCEPT ![s] = b.len]
           /\ \/ UNCHANGED <<evalVars, evals>> /\ call' = "none"
              \/ RejectBody(s)
              \/ ProcessBody(s, b.len, k)
    BY Zenon, <1>5 DEF CopyBody, Return
  <2> HIDE DEF k, br
  <2>2. b.len \in Nat /\ b.len <= bodyLen[s] + k /\ b.len <= BufferLimit(s)
    BY Zenon, <2>0, BufferCopiesType
  <2>3. b.len <= Limit(s)
    BY SMTT(30), <2>0, <2>2 DEF Room
  <2>4. /\ UNCHANGED <<waf, conf>>
        /\ Begins(HeadersPhase(s) + 1) \/ Quiet \/ Rejects
    BY SMTT(30), <1>2, <2>1, ProcessBodyEffect DEF Quiet, Stays, evalVars, Idle
  <2> QED
    BY Zenon, <2>1, <2>2, <2>3, <2>4
<1> QED
  BY SMTT(30), <1>1, <1>2, <1>3, <1>4, <1>5 DEF WriteStep, WriteBody, ReadBodyFrom

\* Every step, reduced to what it does to phase, verdict and matches.
LEMMA StepShape ==
  ASSUME TypeOK, BodyInv, [Next]_vars
  PROVE  \/ \E p \in Phases : Begins(p)
         \/ Quiet
         \/ Rejects
         \/ Evaluating
         \/ ReturnFromEval
         \/ Close
         \/ newTransaction
<1>1. ASSUME NEW s \in Sides, NEW n \in Chunks, WriteStep(s, n)
      PROVE  (\E p \in Phases : Begins(p)) \/ Quiet \/ Rejects
  <2>1. n \in Nat /\ bodyLen[s] <= Limit(s)
    BY Zenon, BoundsAssumption DEF BodyInv, WithinLimits
  <2>2. HeadersPhase(s) + 1 \in Phases
    BY SMTT(30) DEF HeadersPhase, Phases
  <2> QED
    BY Zenon, <1>1, <2>1, <2>2, WriteStepEffect
<1>2. CASE UNCHANGED vars
  BY Zenon, <1>2 DEF vars, evalVars, txVars, bodyVars, histVars, Quiet, Stays
<1>3. CASE AddRequestHeader \/ \E listed \in BOOLEAN : AddResponseHeader(listed)
  BY Zenon, <1>3 DEF AddRequestHeader, AddResponseHeader, evalVars, txVars, histVars, Quiet, Stays
<1>4. CASE ProcessRequestHeaders \/ \E code \in Statuses : ProcessResponseHeaders(code)
  BY SMTT(30), <1>4, ProcessHeadersEffect DEF ProcessRequestHeaders, ProcessResponseHeaders, Quiet, Phases
<1>5. CASE ProcessRequestBody \/ ProcessResponseBody
  BY SMTT(30), <1>5, ProcessBodyEffect DEF ProcessRequestBody, ProcessResponseBody, Quiet, Phases, Sides, HeadersPhase
<1>6. CASE ProcessLogging
  BY SMTT(30), <1>6 DEF ProcessLogging, EnterEval, BeginEval, evalVars, Quiet, Stays, Begins, Due, Phases,
     Logging, TypeOK, EvalTypeOK, Idle
<1> QED
  BY SMTT(30), <1>1, <1>2, <1>3, <1>4, <1>5, <1>6
  DEF Next, WriteStep, WriteRequestBody, WriteResponseBody, ReadRequestBodyFrom,
      ReadResponseBodyFrom, Sides

\* An evaluation step moves neither the phase nor the counts, and changes the
\* verdict only by matching a rule that denies.
LEMMA EvaluatingEffect ==
  ASSUME TypeOK, Evaluating
  PROVE  /\ UNCHANGED <<waf, open, call, lastPhase, evals, bodyLen>>
         /\ \/ /\ UNCHANGED <<interruption, matchedRules>>
               /\ link' # 0 => (link # 0 \/ ~AlreadyInterrupted)
            \/ RuleMatches
<1> USE DEF Evaluating, txVars, bodyVars, histVars
<1>1. CASE BreakOnInterruption
  BY Zenon, <1>1 DEF BreakOnInterruption
<1>2. CASE PassOver
  BY Zenon, <1>2 DEF PassOver
<1>3. CASE PassUntilMark
  BY Zenon, <1>3 DEF PassUntilMark
<1>4. CASE PassSkipped
  BY SMTT(30), <1>4 DEF PassSkipped
<1>5. CASE BreakOnAllow
  BY SMTT(30), <1>5 DEF BreakOnAllow
<1>6. CASE Evaluate
  BY SMTT(30), <1>6 DEF Evaluate, Considered
<1>7. CASE LinkFails
  BY SMTT(30), <1>7 DEF LinkFails
<1>8. CASE LinkMatches
  <2>1. link # 0
    BY SMTT(30), <1>8 DEF LinkMatches, AtLink
  <2> QED
    BY SMTT(30), <1>8, <2>1 DEF LinkMatches
<1>9. CASE RuleMatches
  BY ZenonT(60), <1>9 DEF RuleMatches
<1> QED
  BY SMTT(30), <1>1, <1>2, <1>3, <1>4, <1>5, <1>6, <1>7, <1>8, <1>9 DEF EvalStep

----------------------------------------------------------------------------
\* PhasesOnceInOrder, strengthened with what lastPhase remembers of the counts.
PhaseInv ==
  /\ PhasesOnceInOrder
  /\ \A p \in 1..4 : evals[p] = 1 => p <= lastPhase
  /\ \A p \in {1, 3} : lastPhase = p => evals[p] = 1

LEMMA PhaseInvStep ==
  ASSUME TypeOK, BodyInv, PhaseInv, [Next]_vars
  PROVE  PhaseInv'
<1> USE DEF PhaseInv, PhasesOnceInOrder
<1>0. evals \in [Phases -> Nat] /\ lastPhase \in 0..5
  BY SMTT(30) DEF TypeOK, EvalTypeOK
<1> USE <1>0
<1>1. ASSUME NEW p \in Phases, Begins(p)
      PROVE  PhaseInv'
  <2>1. CASE p \in {1, 3}
    <3>1. evals[p] = 0
      BY SMTT(30), <1>1, <2>1 DEF Begins, Due, Phases, Logging
    <3> QED
      BY SMTT(30), <1>1, <2>1, <3>1 DEF Begins, Due, Phases, Logging
  <2>2. CASE p \in {2, 4}
    <3>1. evals[p] = 0 /\ evals[p - 1] = 1
      BY <1>1, <2>2 DEF Begins, Due, Phases, Logging
    <3> QED
      BY <1>1, <2>2, <3>1 DEF Begins, Due, Phases, Logging
  <2>3. CASE p = 5
    BY <1>1, <2>3 DEF Begins, Phases
  <2> QED
    BY SMTT(30), <2>1, <2>2, <2>3 DEF Phases
<1>2. CASE Quiet \/ Rejects
  BY <1>2 DEF Quiet, Rejects, Stays
<1>3. CASE Evaluating
  BY <1>3, EvaluatingEffect
<1>4. CASE ReturnFromEval
  BY Zenon, <1>4 DEF ReturnFromEval, EndEval, histVars
<1>5. CASE Close
  BY Zenon, <1>5 DEF Close, histVars
<1>6. CASE newTransaction
  BY <1>6 DEF newTransaction, Phases
<1> QED
  BY SMTT(30), <1>1, <1>2, <1>3, <1>4, <1>5, <1>6, StepShape

\* DenyIsFinal and VerdictExplained, strengthened: a recorded deny means that the
\* transaction is interrupted, and outside logging the rule being evaluated was
\* reached without an interruption.
VerdictInv ==
  /\ DenyIsFinal
  /\ VerdictExplained
  /\ \A i \in DOMAIN matchedRules :
        matchedRules[i].denied /\ matchedRules[i].phase # Logging => interruption # Nil
  /\ link # 0 /\ lastPhase # Logging => interruption = Nil

LEMMA LimitVerdictNotNil == \A s \in Sides : LimitVerdict(s) # Nil
  BY Zenon DEF LimitVerdict, Nil

LEMMA VerdictNotNil ==
  ASSUME NEW r, r.disruptive \in Interrupting
  PROVE  Verdict(r) # Nil
  BY Zenon DEF Verdict, Nil, Interrupting

\* A rule that matches has at least one link behind it.
LEMMA MatchedLink ==
  ASSUME EvalTypeOK, RuleMatches
  PROVE  IsRule(Rule) /\ link # 0
<1>1. cur \in 1..Len(Rules) /\ link = Len(Rule.links) + 1
  BY Zenon DEF RuleMatches
<1>2. IsRule(Rule)
  BY SMTT(30), <1>1, RuleFacts
<1>3. Len(Rule.links) \in Nat
  BY Zenon, <1>2 DEF IsRule
<1> QED
  BY <1>1, <1>2, <1>3

\* The one step that both records a match and may set the verdict.
LEMMA RuleMatchesVerdict ==
  ASSUME TypeOK, VerdictInv, Evaluating, RuleMatches
  PROVE  VerdictInv'
<1>a. lastPhase' = lastPhase /\ link' = 0
  BY Zenon DEF RuleMatches
<1>b. IsRule(Rule) /\ link # 0
  BY SMTT(30), MatchedLink DEF TypeOK
<1>0. /\ matchedRules \in Seq(Matches) /\ IsRule(Rule)
      /\ lastPhase' = lastPhase /\ link' = 0 /\ link # 0 /\ lastPhase \in Phases
  BY SMTT(30), <1>a, <1>b DEF TypeOK, EvalTypeOK, Evaluating, Phases
<1> USE <1>0
<1>1. CASE Rule.id = 0
  <2>1. ~Denies(Rule)
    BY SMTT(30), <1>1 DEF IsRule, Denies, Interrupting
  <2>2. UNCHANGED <<matchedRules, interruption>>
    BY ZenonT(60), <1>1, <2>1 DEF RuleMatches
  <2> QED
    BY SMTT(30), <2>2 DEF VerdictInv, DenyIsFinal, VerdictExplained, LimitVerdict
<1>2. CASE Rule.id # 0
  <2> DEFINE m == [phase |-> lastPhase, id |-> Rule.id, denied |-> Denies(Rule)]
             len == Len(matchedRules)
  <2>1. m \in Matches
    BY SMTT(30), <1>2 DEF IsRule, Matches, Denies
  <2>2. matchedRules' = Append(matchedRules, m)
    BY Zenon, <1>2 DEF RuleMatches
  <2> HIDE DEF m
  <2>3. /\ len \in Nat /\ DOMAIN matchedRules = 1..len
        /\ DOMAIN matchedRules' = 1..(len + 1)
        /\ matchedRules'[len + 1] = m
        /\ \A i \in 1..len : matchedRules'[i] = matchedRules[i]
    BY <2>1, <2>2
  <2>4. m.phase = lastPhase /\ m.id = Rule.id /\ (m.denied <=> Denies(Rule))
    BY SMTT(30) DEF m
  <2>a. Denies(Rule) => Verdict(Rule) # Nil
    BY Zenon, VerdictNotNil DEF Denies
  <2>b. interruption' = IF Denies(Rule) THEN Verdict(Rule) ELSE interruption
    BY Zenon DEF RuleMatches
  <2>5. interruption # Nil => interruption' # Nil
    BY Zenon, <2>a, <2>b
  <2>6. Denies(Rule) => interruption' = Verdict(Rule) /\ interruption' # Nil
    BY Zenon, <2>a, <2>b
  <2>c. \A i \in 1..len : matchedRules[i].denied /\ matchedRules[i].phase # Logging
                            => lastPhase = Logging
    BY Zenon, <2>3 DEF VerdictInv
  <2>d. \A i, j \in 1..len : i < j /\ matchedRules[i].denied /\ matchedRules[i].phase # Logging
                               => matchedRules[j].phase = Logging
    BY Zenon, <2>3 DEF VerdictInv, DenyIsFinal
  <2>7. DenyIsFinal'
    <3> SUFFICES ASSUME NEW i \in 1..(len + 1), NEW j \in 1..(len + 1), i < j,
                        matchedRules'[i].denied, matchedRules'[i].phase # Logging
                 PROVE  matchedRules'[j].phase = Logging
      BY Zenon, <2>3 DEF DenyIsFinal
    <3>1. i \in 1..len
      BY <2>3
    <3>2. matchedRules[i].denied /\ matchedRules[i].phase # Logging
      BY Zenon, <2>3, <3>1
    <3>3. CASE j = len + 1
      BY Zenon, <2>3, <2>4, <2>c, <3>1, <3>2, <3>3
    <3>4. CASE j \in 1..len
      BY Zenon, <2>3, <2>d, <3>1, <3>2, <3>4
    <3> QED
      BY <2>3, <3>3, <3>4
  <2>8. VerdictExplained'
    <3>1. CASE Denies(Rule)
      <4>1. matchedRules'[len + 1].denied /\ matchedRules'[len + 1].id = interruption'.rule
        BY SMTT(30), <2>3, <2>4, <2>6, <3>1 DEF Verdict
      <4> QED
        BY <2>3, <4>1 DEF VerdictExplained
    <3>2. CASE ~Denies(Rule)
      <4>1. interruption' = interruption
        BY Zenon, <3>2 DEF RuleMatches
      <4> QED
        BY SMTT(30), <2>3, <4>1 DEF VerdictInv, VerdictExplained, LimitVerdict
    <3> QED BY SMTT(30), <3>1, <3>2
  <2>9. \A i \in DOMAIN matchedRules' :
          matchedRules'[i].denied /\ matchedRules'[i].phase # Logging => interruption' # Nil
    BY SMTT(30), <2>3, <2>4, <2>5, <2>6 DEF VerdictInv
  <2> QED
    BY SMTT(30), <2>7, <2>8, <2>9 DEF VerdictInv
<1> QED
  BY SMTT(30), <1>1, <1>2

\* A step that changes neither the verdict nor the matches.
LEMMA VerdictFrame ==
  ASSUME VerdictInv, UNCHANGED <<interruption, matchedRules>>,
         link' # 0 /\ lastPhase' # Logging => interruption = Nil
  PROVE  VerdictInv'
<1>1. DenyIsFinal'
  BY SMTT(30) DEF VerdictInv, DenyIsFinal
<1>2. VerdictExplained'
  BY DEF VerdictInv, VerdictExplained, LimitVerdict
<1> QED
  BY SMTT(30), <1>1, <1>2 DEF VerdictInv

LEMMA RejectsVerdict ==
  ASSUME TypeOK, VerdictInv, Rejects
  PROVE  VerdictInv'
<1>1. link' = 0 /\ matchedRules' = matchedRules
  BY DEF Rejects, Idle, TypeOK, EvalTypeOK
<1>2. PICK s \in Sides : interruption' = LimitVerdict(s)
  BY Zenon DEF Rejects
<1>3. interruption' # Nil
  BY Zenon, <1>2, LimitVerdictNotNil
<1>4. DenyIsFinal'
  BY SMTT(30), <1>1 DEF VerdictInv, DenyIsFinal
<1>5. VerdictExplained'
  BY <1>2 DEF VerdictExplained, LimitVerdict
<1> QED
  BY SMTT(30), <1>1, <1>3, <1>4, <1>5 DEF VerdictInv

LEMMA VerdictInvStep ==
  ASSUME TypeOK, BodyInv, VerdictInv, [Next]_vars
  PROVE  VerdictInv'
<1>0. link # 0 /\ lastPhase # Logging => interruption = Nil
  BY Zenon DEF VerdictInv
<1> USE <1>0
<1>1. ASSUME NEW p \in Phases, Begins(p)
      PROVE  VerdictInv'
  <2>1. link' # 0 /\ lastPhase' # Logging => interruption = Nil
    BY Zenon, <1>1 DEF Begins, Due
  <2> QED
    BY Zenon, <1>1, <2>1, VerdictFrame DEF Begins
<1>2. CASE Quiet
  BY Zenon, <1>2, VerdictFrame DEF Quiet, Stays
<1>3. CASE Rejects
  BY Zenon, <1>3, RejectsVerdict
<1>4. CASE Evaluating /\ ~RuleMatches
  <2>1. UNCHANGED <<lastPhase, interruption, matchedRules>>
    BY Zenon, <1>4, EvaluatingEffect
  <2>2. link' # 0 => (link # 0 \/ ~AlreadyInterrupted)
    BY Zenon, <1>4, EvaluatingEffect
  <2> QED
    BY Zenon, <2>1, <2>2, VerdictFrame DEF AlreadyInterrupted
<1>5. CASE Evaluating /\ RuleMatches
  BY Zenon, <1>5, RuleMatchesVerdict
<1>6. CASE ReturnFromEval
  BY Zenon, <1>6, VerdictFrame DEF ReturnFromEval, EndEval
<1>7. CASE Close
  BY Zenon, <1>7, VerdictFrame DEF Close
<1>8. CASE newTransaction
  BY SMTT(30), <1>8 DEF newTransaction, VerdictInv, DenyIsFinal, VerdictExplained
<1> QED
  BY Zenon, <1>1, <1>2, <1>3, <1>4, <1>5, <1>6, <1>7, <1>8, StepShape

----------------------------------------------------------------------------
\* Nothing is written and no limit changes.
LEMMA BodyInvFrame ==
  ASSUME BodyInv, UNCHANGED <<waf, bodyLen>>,
         conf'.RequestBodyLimit = conf.RequestBodyLimit,
         conf'.ResponseBodyLimit = conf.ResponseBodyLimit,
         \A s \in Sides : NothingBuffered(s)' => NothingBuffered(s)
  PROVE  BodyInv'
<1>1. \A s \in Sides : Limit(s)' = Limit(s) /\ BufferLimit(s)' = BufferLimit(s)
  BY SMTT(30) DEF Limit, BufferLimit, Waf
<1>2. WithinLimits'
  BY SMTT(30), <1>1 DEF BodyInv, WithinLimits
<1> QED
  BY SMTT(30), <1>2 DEF BodyInv

LEMMA BeginsBuffered ==
  ASSUME TypeOK, NEW p \in Phases, Begins(p), NEW s \in Sides, NothingBuffered(s)'
  PROVE  NothingBuffered(s)
<1>1. lastPhase' = p /\ open' = open /\ lastPhase \in 0..5 /\ Due(p)
  BY Zenon DEF Begins, TypeOK, EvalTypeOK
<1>2. CASE ~open
  BY Zenon, <1>2 DEF NothingBuffered
<1>3. CASE open /\ p <= HeadersPhase(s)
  <2>1. lastPhase < HeadersPhase(s)
    BY SMTT(30), <1>1, <1>3 DEF Due, HeadersPhase, Logging, Phases
  <2> QED
    BY Zenon, <2>1 DEF NothingBuffered
<1> QED
  BY SMTT(30), <1>1, <1>2, <1>3 DEF NothingBuffered, HeadersPhase, Phases

LEMMA WriteStepBody ==
  ASSUME TypeOK, BodyInv, NEW s \in Sides, NEW n \in Nat, WriteStep(s, n)
  PROVE  BodyInv'
<1>0. bodyLen[s] <= Limit(s) /\ bodyLen[s] <= BufferLimit(s) /\ bodyLen \in [Sides -> Nat]
  BY SMTT(30) DEF BodyInv, WithinLimits, TypeOK
<1> USE <1>0
<1>1. /\ Idle /\ UNCHANGED <<waf, conf, open>>
      /\ Begins(HeadersPhase(s) + 1) \/ (Stays /\ Idle)
  BY SMTT(30), WriteStepEffect DEF Quiet, Rejects
<1>2. \A t \in Sides : NothingBuffered(t)' => NothingBuffered(t)
  <2>1. HeadersPhase(s) + 1 \in Phases
    BY DEF HeadersPhase, Phases
  <2> QED
    BY Zenon, <1>1, <2>1, BeginsBuffered DEF Stays, NothingBuffered
<1>3. CASE UNCHANGED bodyLen
  BY SMTT(30), <1>1, <1>2, <1>3, BodyInvFrame
<1>4. ASSUME Accepting(s), WriteOrder(s), NEW l \in Nat, bodyLen' = [bodyLen EXCEPT ![s] = l],
             l <= Limit(s), l <= bodyLen[s] \/ l <= BufferLimit(s)
      PROVE  BodyInv'
  <2>1. ~NothingBuffered(s)
    BY SMTT(30), <1>1, <1>4 DEF Accepting, Ignored, WriteOrder, NothingBuffered, Idle, HeadersPhase, TypeOK, EvalTypeOK
  <2>2. \A t \in Sides : Limit(t)' = Limit(t) /\ BufferLimit(t)' = BufferLimit(t)
    BY SMTT(30), <1>1 DEF Limit, BufferLimit, Waf
  <2>3. l <= BufferLimit(s)
    BY SMTT(30), <1>4, LimitType DEF TypeOK
  <2>4. WithinLimits'
    BY SMTT(30), <1>4, <2>2, <2>3 DEF BodyInv, WithinLimits
  <2> QED
    BY SMTT(30), <1>2, <1>4, <2>1, <2>4 DEF BodyInv
<1> QED
  BY SMTT(30), <1>3, <1>4, WriteStepEffect

\* ctl changes the limit of a body only while nothing of it is buffered.
LEMMA EvaluatingLimits ==
  ASSUME TypeOK, BodyInv, Evaluating, NEW s \in Sides, Limit(s)' # Limit(s)
  PROVE  bodyLen[s] = 0
<1>0. call # "none" /\ lastPhase # 0
  BY Zenon DEF Evaluating, TypeOK
<1>1. CASE conf' = conf
  BY Zenon, <1>1 DEF Limit
<1>2. CASE LinkMatches
  <2>0. conf \in Confs /\ conf' \in Confs /\ lastPhase \in 0..5
    BY Zenon, EvaluatingType DEF TypeOK, EvalTypeOK
  <2>1. conf'.RequestBodyLimit # conf.RequestBodyLimit => lastPhase <= 1
    BY Zenon, <1>2, <2>0 DEF LinkMatches, Ctl, CtlPermitted, Confs
  <2>2. conf'.ResponseBodyLimit # conf.ResponseBodyLimit => lastPhase <= 3
    BY ZenonT(60), <1>2, <2>0 DEF LinkMatches, Ctl, CtlPermitted, Confs
  <2>3. lastPhase <= HeadersPhase(s)
    BY SMTT(30), <2>1, <2>2 DEF Limit, HeadersPhase
  <2>4. NothingBuffered(s)
    BY SMTT(30), <1>0, <2>0, <2>3 DEF NothingBuffered, HeadersPhase
  <2> QED
    BY Zenon, <2>4 DEF BodyInv
<1> QED
  BY ZenonT(60), <1>1, <1>2 DEF Evaluating, EvalStep, BreakOnInterruption, PassOver, PassUntilMark,
     PassSkipped, BreakOnAllow, Evaluate, LinkFails, RuleMatches

LEMMA EvaluatingBody ==
  ASSUME TypeOK, BodyInv, Evaluating
  PROVE  BodyInv'
<1>0. /\ UNCHANGED <<waf, open, call, lastPhase, bodyLen>>
      /\ \A s \in Sides : NothingBuffered(s)' <=> NothingBuffered(s)
  <2>1. UNCHANGED <<waf, open, call, lastPhase, bodyLen>>
    BY Zenon, EvaluatingEffect
  <2> QED
    BY Zenon, <2>1 DEF NothingBuffered, HeadersPhase
<1>1. conf' \in Confs /\ bodyLen \in [Sides -> Nat]
  BY Zenon, EvaluatingType DEF TypeOK, EvalTypeOK
<1>2. \A s \in Sides : Limit(s)' # Limit(s) => bodyLen[s] = 0
  BY Zenon, EvaluatingLimits
<1>3. \A s \in Sides : Limit(s)' \in Nat /\ BufferLimit(s)' = BufferLimit(s)
  <2>1. conf'.RequestBodyLimit \in Nat /\ conf'.ResponseBodyLimit \in Nat
    BY Zenon, <1>1 DEF Confs
  <2>2. Waf' = Waf
    BY Zenon, <1>0 DEF Waf
  <2> QED
    BY Zenon, <2>1, <2>2 DEF Limit, BufferLimit
<1>4. WithinLimits'
  BY SMTT(30), <1>0, <1>1, <1>2, <1>3 DEF BodyInv, WithinLimits
<1> QED
  BY SMTT(30), <1>0, <1>4 DEF BodyInv

LEMMA BodyInvStep ==
  ASSUME TypeOK, BodyInv, [Next]_vars
  PROVE  BodyInv'
<1>1. ASSUME NEW s \in Sides, NEW n \in Chunks, WriteStep(s, n)
      PROVE  BodyInv'
  BY SMTT(30), <1>1, WriteStepBody, BoundsAssumption
<1>2. CASE UNCHANGED vars
  BY Zenon, <1>2, BodyInvFrame DEF vars, evalVars, txVars, bodyVars, NothingBuffered
<1>3. CASE AddRequestHeader
  <2>1. conf'.RequestBodyLimit = conf.RequestBodyLimit /\ conf'.ResponseBodyLimit = conf.ResponseBodyLimit
    BY SMTT(30), <1>3 DEF AddRequestHeader, TypeOK, EvalTypeOK, Confs
  <2> QED
    BY Zenon, <1>3, <2>1, BodyInvFrame DEF AddRequestHeader, txVars, bodyVars, NothingBuffered
<1>4. ASSUME NEW listed \in BOOLEAN, AddResponseHeader(listed)
      PROVE  BodyInv'
  BY Zenon, <1>4, BodyInvFrame DEF AddResponseHeader, evalVars, NothingBuffered
<1>5. ASSUME NEW p \in {1, 3}, ProcessHeaders(p)
      PROVE  BodyInv'
  <2>1. \A s \in Sides : NothingBuffered(s)' => NothingBuffered(s)
    BY <1>5, ProcessHeadersEffect, BeginsBuffered DEF Stays, NothingBuffered, Phases
  <2> QED
    BY SMTT(30), <1>5, <2>1, ProcessHeadersEffect, BodyInvFrame
<1>6. CASE ProcessRequestBody \/ ProcessResponseBody
  <2>1. UNCHANGED <<waf, conf, bodyLen>> /\ \A s \in Sides : NothingBuffered(s)' => NothingBuffered(s)
    BY <1>6, ProcessBodyEffect, BeginsBuffered
    DEF ProcessRequestBody, ProcessResponseBody, Stays, NothingBuffered, Phases, Sides, HeadersPhase
  <2> QED
    BY SMTT(30), <2>1, BodyInvFrame
<1>7. CASE ProcessLogging
  <2>1. UNCHANGED <<waf, conf, bodyLen, open>> /\ (lastPhase' = 5 \/ UNCHANGED <<lastPhase, call>>)
    BY Zenon, <1>7 DEF ProcessLogging, EnterEval, BeginEval, evalVars, bodyVars, Logging
  <2>2. \A s \in Sides : NothingBuffered(s)' => NothingBuffered(s)
    BY <2>1 DEF NothingBuffered, HeadersPhase
  <2> QED
    BY SMTT(30), <2>1, <2>2, BodyInvFrame
<1>8. CASE ReturnFromEval
  BY SMTT(30), <1>8, BodyInvFrame DEF ReturnFromEval, EndEval, bodyVars, NothingBuffered
<1>9. CASE Close
  <2>1. \A s \in Sides : bodyLen'[s] = 0
    BY SMTT(30), <1>9 DEF Close
  <2>2. \A s \in Sides : Limit(s)' \in Nat /\ BufferLimit(s)' \in Nat
    BY SMTT(30), <1>9, PoolType, WafFacts DEF Close, TypeOK, EvalTypeOK, Limit, BufferLimit, Confs, Waf
  <2>3. WithinLimits'
    BY <2>1, <2>2 DEF WithinLimits
  <2> QED
    BY Zenon, <2>1, <2>3 DEF BodyInv
<1>10. CASE newTransaction
  <2>1. \A s \in Sides : bodyLen'[s] = 0
    BY Zenon, <1>10 DEF newTransaction, BodyInv, NothingBuffered, bodyVars
  <2>2. \A s \in Sides : Limit(s)' \in Nat /\ BufferLimit(s)' \in Nat
    BY SMTT(30), <1>10, PoolType, WafFacts DEF newTransaction, TypeOK, EvalTypeOK, Limit, BufferLimit, Confs, Waf
  <2>3. WithinLimits'
    BY <2>1, <2>2 DEF WithinLimits
  <2> QED
    BY Zenon, <2>1, <2>3 DEF BodyInv
<1> QED
  BY SMTT(30), <1>1, <1>2, <1>3, <1>4, <1>5, <1>6, <1>7, <1>8, <1>9, <1>10, EvaluatingBody
  DEF Next, WriteStep, WriteRequestBody, WriteResponseBody, ReadRequestBodyFrom,
      ReadResponseBodyFrom, ProcessRequestHeaders, ProcessResponseHeaders, Sides

\* What Close leaves in an object, and newTransaction relies on.
PoolInv ==
  ~open => /\ conf.reqbodyProcessor = "none" /\ conf.resBodyProcessor = "none"
           /\ ~dataError["req"] /\ ~dataError["res"]

LEMMA PoolInvStep ==
  ASSUME TypeOK, PoolInv, [Next]_vars
  PROVE  PoolInv'
<1>1. CASE Close
  BY SMTT(30), <1>1 DEF Close, PoolInv, Sides, TypeOK, EvalTypeOK, Confs
<1>2. CASE UNCHANGED vars
  BY Zenon, <1>2 DEF vars, evalVars, txVars, bodyVars, PoolInv
<1>3. CASE Next /\ ~Close
  <2>1. CASE newTransaction
    BY Zenon, <2>1 DEF newTransaction, PoolInv
  <2>2. CASE Evaluating \/ ReturnFromEval
    BY Zenon, <2>2 DEF Evaluating, ReturnFromEval, txVars, TypeOK, PoolInv
  <2>3. CASE open /\ open' = open
    BY SMTT(30), <2>3 DEF PoolInv
  <2>4. Next => newTransaction \/ Evaluating \/ ReturnFromEval \/ Close \/ (open /\ open' = open)
    BY Zenon DEF Next, AddRequestHeader, AddResponseHeader, ProcessRequestHeaders,
       ProcessRequestBody, ProcessResponseHeaders, ProcessResponseBody, ProcessHeaders,
       WriteRequestBody, WriteResponseBody, ReadRequestBodyFrom, ReadResponseBodyFrom,
       WriteBody, ReadBodyFrom, Offer, ProcessLogging, Idle, txVars
  <2> QED
    BY Zenon, <1>3, <2>1, <2>2, <2>3, <2>4
<1> QED
  BY Zenon, <1>1, <1>2, <1>3

----------------------------------------------------------------------------
\* FlowStaysInPhase, strengthened: a skip or an allow:phase is pending only inside the
\* evaluation of the phase it was executed in.
FlowInv ==
  /\ FlowStaysInPhase
  /\ Skip # 0 => origin.skip = lastPhase /\ call # "none"
  /\ AllowType = "phase" => origin.allow = lastPhase /\ call # "none"

FlowKept == UNCHANGED <<Skip, AllowType, origin, jumps>>

LEMMA ProcessBodyFlow ==
  ASSUME NEW s, NEW len, NEW n, ProcessBody(s, len, n)
  PROVE  FlowKept
  BY Zenon DEF ProcessBody, EnterEval, BeginEval, evalVars, FlowKept

LEMMA WriteStepFlow ==
  ASSUME NEW s, NEW n, WriteStep(s, n)
  PROVE  FlowKept /\ Idle
<1>0. Idle
  BY Zenon DEF WriteStep, WriteBody, ReadBodyFrom, Offer
<1> USE <1>0
<1>1. CASE IgnoreBody(s)
  BY Zenon, <1>1 DEF IgnoreBody, evalVars, FlowKept
<1>2. CASE RejectBody(s)
  BY Zenon, <1>2 DEF RejectBody, FlowKept
<1>3. CASE FillBody(s)
  BY Zenon, <1>3, ProcessBodyFlow DEF FillBody, evalVars, FlowKept
<1>4. CASE AppendBody(s, n)
  BY Zenon, <1>4 DEF AppendBody, evalVars, FlowKept
<1>5. ASSUME NEW sized, NEW breaks, CopyBody(s, n, sized, breaks)
      PROVE  FlowKept
  <2>1. UNCHANGED evalVars \/ RejectBody(s) \/ \E len, k : ProcessBody(s, len, k)
    BY Zenon, <1>5 DEF CopyBody
  <2> QED
    BY Zenon, <2>1, ProcessBodyFlow DEF RejectBody, evalVars, FlowKept
<1> QED
  BY Zenon, <1>1, <1>2, <1>3, <1>4, <1>5 DEF WriteStep, WriteBody, ReadBodyFrom

\* Only the evaluation of rules and the reuse of the object touch the flow fields.
LEMMA StepFlow ==
  ASSUME [Next]_vars
  PROVE  \/ Evaluating \/ ReturnFromEval \/ newTransaction \/ UNCHANGED vars
         \/ FlowKept /\ Idle
<1>1. ASSUME NEW p, ProcessHeaders(p)
      PROVE  FlowKept /\ Idle
  BY Zenon, <1>1 DEF ProcessHeaders, EnterEval, BeginEval, evalVars, FlowKept
<1>2. CASE ProcessRequestBody \/ ProcessResponseBody
  BY Zenon, <1>2, ProcessBodyFlow DEF ProcessRequestBody, ProcessResponseBody
<1>3. CASE ProcessLogging
  BY Zenon, <1>3 DEF ProcessLogging, EnterEval, BeginEval, evalVars, FlowKept
<1>4. CASE AddRequestHeader \/ \E listed \in BOOLEAN : AddResponseHeader(listed)
  BY Zenon, <1>4 DEF AddRequestHeader, AddResponseHeader, evalVars, FlowKept
<1>5. CASE Close
  BY Zenon, <1>5 DEF Close, FlowKept
<1> QED
  BY Zenon, <1>1, <1>2, <1>3, <1>4, <1>5, WriteStepFlow
  DEF Next, WriteStep, WriteRequestBody, WriteResponseBody, ReadRequestBodyFrom,
      ReadResponseBodyFrom, ProcessRequestHeaders, ProcessResponseHeaders

\* A jump that is recorded where what caused it was executed, or that is not
\* restricted to a phase.
LEMMA JumpFlow ==
  ASSUME FlowStaysInPhase, NEW kind, NEW setIn, Jump(kind, setIn),
         kind \in {"skip", "phase"} => setIn = lastPhase,
         kind = "request" => lastPhase \in {1, 2}
  PROVE  FlowStaysInPhase'
<1>1. jumps' = jumps \cup {[kind |-> kind, setIn |-> setIn, at |-> lastPhase]}
  BY Zenon DEF Jump
<1>2. SkipStaysInPhase'
  BY <1>1 DEF FlowStaysInPhase, SkipStaysInPhase
<1>3. AllowScope'
  BY <1>1 DEF FlowStaysInPhase, AllowScope
<1> QED
  BY Zenon, <1>2, <1>3 DEF FlowStaysInPhase

LEMMA EvaluatingFlow ==
  ASSUME TypeOK, FlowInv, Evaluating
  PROVE  FlowInv'
<1>0. /\ UNCHANGED <<call, lastPhase>> /\ call # "none"
      /\ Skip \in Nat /\ AllowType \in AllowTypes /\ origin \in Origins
      /\ FlowStaysInPhase
      /\ Skip # 0 => origin.skip = lastPhase
      /\ AllowType = "phase" => origin.allow = lastPhase
  <2>1. UNCHANGED <<call, lastPhase>> /\ call # "none"
    BY Zenon, EvaluatingEffect DEF Evaluating
  <2>2. Skip \in Nat /\ AllowType \in AllowTypes /\ origin \in Origins
    BY Zenon DEF TypeOK, EvalTypeOK
  <2> QED
    BY Zenon, <2>1, <2>2 DEF FlowInv
<1> USE <1>0
<1>1. CASE FlowKept
  BY Zenon, <1>1 DEF FlowKept, FlowInv, FlowStaysInPhase, SkipStaysInPhase, AllowScope
<1>2. CASE PassUntilMark
  <2>1. UNCHANGED <<Skip, AllowType, origin>>
    BY Zenon, <1>2 DEF PassUntilMark
  <2>2. Jump("skipAfter", origin.skipAfter) \/ UNCHANGED jumps
    BY Zenon, <1>2 DEF PassUntilMark
  <2>3. FlowStaysInPhase'
    BY Zenon, <2>2, JumpFlow DEF FlowStaysInPhase, SkipStaysInPhase, AllowScope
  <2> QED
    BY Zenon, <2>1, <2>3 DEF FlowInv
<1>3. CASE PassSkipped
  <2>1. /\ UNCHANGED <<AllowType, origin>> /\ Skip' = Skip - 1 /\ Skip > 0
        /\ Jump("skip", origin.skip)
    BY Zenon, <1>3 DEF PassSkipped, SkipPending
  <2>2. FlowStaysInPhase'
    BY <2>1, JumpFlow
  <2> QED
    BY <2>1, <2>2 DEF FlowInv
<1>4. CASE BreakOnAllow
  <2>1. /\ UNCHANGED <<Skip, origin>> /\ AllowBreaks /\ Jump(AllowType, origin.allow)
        /\ AllowType' = IF AllowType = "request" /\ lastPhase = 2 THEN "unset" ELSE AllowType
    BY Zenon, <1>4 DEF BreakOnAllow
  <2>2. AllowType = "request" => lastPhase \in {1, 2}
    BY Zenon, <2>1 DEF AllowBreaks
  <2>3. AllowType # "skip"
    BY Zenon DEF AllowTypes
  <2>4. FlowStaysInPhase'
    BY Zenon, <2>1, <2>2, <2>3, JumpFlow
  <2> QED
    BY Zenon, <2>1, <2>4 DEF FlowInv
<1>5. CASE RuleMatches
  <2>1. /\ Skip' = IF Rule.skip > 0 THEN Rule.skip ELSE Skip
        /\ AllowType' = IF Allows(Rule) THEN Rule.disruptive ELSE AllowType
        /\ origin' = [skip |-> IF Rule.skip > 0 THEN lastPhase ELSE origin.skip,
                      skipAfter |-> IF Rule.skipAfter # NoMark THEN lastPhase ELSE origin.skipAfter,
                      allow |-> IF Allows(Rule) THEN lastPhase ELSE origin.allow]
        /\ UNCHANGED jumps
    BY Zenon, <1>5 DEF RuleMatches
  <2>2. /\ origin'.skip = IF Rule.skip > 0 THEN lastPhase ELSE origin.skip
        /\ origin'.allow = IF Allows(Rule) THEN lastPhase ELSE origin.allow
    BY Zenon, <2>1
  <2>3. FlowStaysInPhase'
    BY Zenon, <2>1 DEF FlowStaysInPhase, SkipStaysInPhase, AllowScope
  <2> QED
    BY Zenon, <2>1, <2>2, <2>3 DEF FlowInv
<1> QED
  BY Zenon, <1>1, <1>2, <1>3, <1>4, <1>5 DEF Evaluating, EvalStep, BreakOnInterruption, PassOver,
     Evaluate, LinkFails, LinkMatches, FlowKept

LEMMA FlowInvStep ==
  ASSUME TypeOK, FlowInv, [Next]_vars
  PROVE  FlowInv'
<1> USE DEF FlowInv, FlowStaysInPhase, SkipStaysInPhase, AllowScope
<1>1. CASE Evaluating
  BY Zenon, <1>1, EvaluatingFlow
<1>2. CASE ReturnFromEval
  <2>1. Skip' = 0 /\ AllowType' # "phase" /\ UNCHANGED jumps
    BY Zenon, <1>2 DEF ReturnFromEval, EndEval, EndAllowPhase, ResetSkip
  <2> QED
    BY Zenon, <2>1
<1>3. CASE newTransaction
  BY Zenon, <1>3 DEF newTransaction
<1>4. CASE UNCHANGED vars
  BY Zenon, <1>4 DEF vars, evalVars, txVars
<1>5. CASE FlowKept /\ Idle
  BY Zenon, <1>5 DEF FlowKept, Idle
<1> QED
  BY Zenon, <1>1, <1>2, <1>3, <1>4, <1>5, StepFlow

----------------------------------------------------------------------------
\* RejectIsNotSilent for every limit but 0, which the body of a request reaches
\* before its first byte.
RejectInv ==
  \A s \in Sides : open /\ bodyLen[s] = Limit(s) /\ Limit(s) # 0 /\ LimitAction(s) = "Reject"
                     => interruption # Nil \/ writeFailed[s]

\* What a write of the body of side s does to the verdict and to the failures.
LEMMA WriteStepReject ==
  ASSUME TypeOK, NEW s \in Sides, NEW n \in Nat, WriteStep(s, n), bodyLen[s] <= Limit(s)
  PROVE  /\ interruption # Nil => interruption' # Nil
         /\ \A t \in Sides : writeFailed[t] => writeFailed'[t]
         /\ LimitAction(s) = "Reject" /\ bodyLen'[s] = Limit(s)
              => bodyLen[s] = Limit(s) \/ interruption' # Nil \/ writeFailed'[s]
<1>0. /\ NoteFailure(s) /\ writeFailed \in [Sides -> BOOLEAN] /\ bodyLen \in [Sides -> Nat]
      /\ Limit(s) \in Nat /\ Room(s) \in Nat
  <2>1. NoteFailure(s)
    BY Zenon DEF WriteStep, WriteBody, ReadBodyFrom
  <2>2. writeFailed \in [Sides -> BOOLEAN] /\ bodyLen \in [Sides -> Nat] /\ EvalTypeOK
    BY Zenon DEF TypeOK
  <2>3. Limit(s) \in Nat
    BY Zenon, <2>2, LimitType
  <2> QED
    BY <2>1, <2>2, <2>3 DEF Room
<1> USE <1>0
<1>1. interruption # Nil => interruption' # Nil
  <2>1. Begins(HeadersPhase(s) + 1) \/ Quiet \/ Rejects
    BY Zenon, WriteStepEffect
  <2> QED
    BY Zenon, <2>1, LimitVerdictNotNil DEF Begins, Quiet, Rejects
<1>2. \A t \in Sides : writeFailed[t] => writeFailed'[t]
  BY Zenon DEF NoteFailure
<1>3. ret'.err \in {"io", "limit"} => writeFailed'[s]
  BY Zenon DEF NoteFailure
<1>4. ASSUME LimitAction(s) = "Reject", bodyLen'[s] = Limit(s), bodyLen[s] # Limit(s)
      PROVE  interruption' # Nil \/ writeFailed'[s]
  <2>1. CASE RejectBody(s)
    BY Zenon, <2>1, LimitVerdictNotNil DEF RejectBody, Interrupt
  <2>2. CASE AppendBody(s, n) /\ n < Room(s)
    <3>1. PICK b \in BufferWrites(s, n) : bodyLen' = [bodyLen EXCEPT ![s] = b.len]
      BY Zenon, <2>2 DEF AppendBody
    <3>2. b.len <= bodyLen[s] + n /\ b.len \in Nat
      BY Zenon, BufferWritesType
    <3> QED
      BY <1>4, <2>2, <3>1, <3>2 DEF Room
  <2>3. ASSUME NEW sized \in BOOLEAN, NEW breaks \in BOOLEAN, CopyBody(s, n, sized, breaks)
        PROVE  interruption' # Nil \/ writeFailed'[s]
    <3> DEFINE k == IF n < Room(s) THEN n ELSE Room(s)
               br == breaks /\ n < Room(s)
    <3>1. PICK b \in BufferCopies(s, k, br) :
            /\ bodyLen' = [bodyLen EXCEPT ![s] = b.len]
            /\ \/ b.err # "none" /\ Return(Nil, b.len - bodyLen[s], b.err)
               \/ b.len < Limit(s)
               \/ RejectBody(s)
               \/ LimitAction(s) = "ProcessPartial"
      BY Zenon, <2>3 DEF CopyBody
    <3>2. k \in Nat /\ br \in BOOLEAN
      BY Zenon
    <3> HIDE DEF k, br
    <3>3. b.err \in {"none", "limit", "io"} /\ b.len \in Nat
      BY Zenon, <3>2, BufferCopiesType
    <3>4. b.len = Limit(s)
      BY Zenon, <1>4, <3>1
    <3>5. CASE b.err # "none" /\ Return(Nil, b.len - bodyLen[s], b.err)
      BY Zenon, <1>3, <3>3, <3>5 DEF Return
    <3> QED
      BY <1>4, <2>1, <3>1, <3>3, <3>4, <3>5
  <2>4. CASE UNCHANGED bodyLen
    BY Zenon, <1>4, <2>4
  <2> QED
    BY Zenon, <1>4, <2>1, <2>2, <2>3, <2>4 DEF WriteStep, WriteBody, ReadBodyFrom
<1> QED
  BY Zenon, <1>1, <1>2, <1>4

\* Nothing RejectInv speaks of changes.
LEMMA RejectFrame ==
  ASSUME RejectInv, UNCHANGED <<waf, open, bodyLen, writeFailed, interruption>>,
         conf'.RequestBodyLimit = conf.RequestBodyLimit,
         conf'.ResponseBodyLimit = conf.ResponseBodyLimit
  PROVE  RejectInv'
<1>1. \A s \in Sides : Limit(s)' = Limit(s) /\ LimitAction(s)' = LimitAction(s)
  BY Zenon DEF Limit, LimitAction, Waf
<1> QED
  BY Zenon, <1>1 DEF RejectInv

LEMMA RejectInvStep ==
  ASSUME TypeOK, BodyInv, RejectInv, [Next]_vars
  PROVE  RejectInv'
<1>1. ASSUME NEW s \in Sides, NEW n \in Chunks, WriteStep(s, n)
      PROVE  RejectInv'
  <2>0. bodyLen[s] <= Limit(s) /\ n \in Nat /\ bodyLen \in [Sides -> Nat]
    BY Zenon, BoundsAssumption DEF BodyInv, WithinLimits, TypeOK
  <2>1. /\ UNCHANGED <<waf, conf, open>>
        /\ \A t \in Sides : t # s => bodyLen'[t] = bodyLen[t]
    BY Zenon, <1>1, <2>0, WriteStepEffect
  <2>2. \A t \in Sides : Limit(t)' = Limit(t) /\ LimitAction(t)' = LimitAction(t)
    BY Zenon, <2>1 DEF Limit, LimitAction, Waf
  <2>3. /\ interruption # Nil => interruption' # Nil
        /\ \A t \in Sides : writeFailed[t] => writeFailed'[t]
        /\ LimitAction(s) = "Reject" /\ bodyLen'[s] = Limit(s)
             => bodyLen[s] = Limit(s) \/ interruption' # Nil \/ writeFailed'[s]
    BY Zenon, <1>1, <2>0, WriteStepReject
  <2> SUFFICES ASSUME NEW t \in Sides, open', bodyLen'[t] = Limit(t)', Limit(t)' # 0,
                      LimitAction(t)' = "Reject"
               PROVE  interruption' # Nil \/ writeFailed'[t]
    BY Zenon DEF RejectInv
  <2>4. CASE bodyLen[t] = Limit(t)
    BY Zenon, <2>1, <2>2, <2>3, <2>4 DEF RejectInv
  <2>5. CASE bodyLen[t] # Limit(t)
    BY Zenon, <2>1, <2>2, <2>3, <2>5
  <2> QED
    BY Zenon, <2>4, <2>5
<1>2. CASE UNCHANGED vars
  BY Zenon, <1>2, RejectFrame DEF vars, evalVars, txVars, bodyVars, histVars
<1>3. CASE AddRequestHeader
  <2>1. conf'.RequestBodyLimit = conf.RequestBodyLimit /\ conf'.ResponseBodyLimit = conf.ResponseBodyLimit
    BY Zenon, <1>3 DEF AddRequestHeader, TypeOK, EvalTypeOK, Confs
  <2> QED
    BY Zenon, <1>3, <2>1, RejectFrame DEF AddRequestHeader, txVars, bodyVars, histVars
<1>4. ASSUME NEW listed \in BOOLEAN, AddResponseHeader(listed)
      PROVE  RejectInv'
  BY Zenon, <1>4, RejectFrame DEF AddResponseHeader, evalVars, histVars
<1>5. ASSUME NEW p \in {1, 3}, ProcessHeaders(p)
      PROVE  RejectInv'
  <2>1. UNCHANGED <<waf, conf, interruption, open, bodyLen, writeFailed>>
    BY Zenon, <1>5, ProcessHeadersEffect DEF ProcessHeaders
  <2> QED
    BY Zenon, <2>1, RejectFrame
<1>6. CASE ProcessRequestBody \/ ProcessResponseBody
  <2>1. UNCHANGED <<waf, conf, interruption, open, bodyLen, writeFailed>>
    BY Zenon, <1>6, ProcessBodyEffect DEF ProcessRequestBody, ProcessResponseBody, Sides
  <2> QED
    BY Zenon, <2>1, RejectFrame
<1>7. CASE ProcessLogging
  BY Zenon, <1>7, RejectFrame DEF ProcessLogging, EnterEval, BeginEval, evalVars, bodyVars
<1>8. CASE ReturnFromEval
  BY Zenon, <1>8, RejectFrame DEF ReturnFromEval, EndEval, bodyVars, histVars
<1>9. CASE Close
  BY Zenon, <1>9 DEF Close, RejectInv
<1>10. CASE newTransaction
  <2>1. \A s \in Sides : bodyLen'[s] = 0
    BY Zenon, <1>10 DEF newTransaction, BodyInv, NothingBuffered, bodyVars
  <2> QED
    BY Zenon, <2>1 DEF RejectInv
<1>11. CASE Evaluating
  <2>1. UNCHANGED <<waf, open, bodyLen, writeFailed>>
    BY Zenon, <1>11 DEF Evaluating, txVars, bodyVars, histVars, EvalStep, BreakOnInterruption, PassOver,
       PassUntilMark, PassSkipped, BreakOnAllow, Evaluate, LinkFails, LinkMatches, RuleMatches
  <2>2. interruption # Nil => interruption' # Nil
    BY Zenon, <1>11, EvaluatingEffect, VerdictNotNil DEF RuleMatches, Denies
  <2>3. \A s \in Sides : Limit(s)' # Limit(s) => bodyLen[s] = 0
    BY Zenon, <1>11, EvaluatingLimits
  <2>4. \A s \in Sides : LimitAction(s)' = LimitAction(s)
    BY Zenon, <2>1 DEF LimitAction, Waf
  <2> QED
    BY Zenon, <2>1, <2>2, <2>3, <2>4 DEF RejectInv
<1> QED
  BY SMTT(30), <1>1, <1>2, <1>3, <1>4, <1>5, <1>6, <1>7, <1>8, <1>9, <1>10, <1>11
  DEF Next, WriteStep, WriteRequestBody, WriteResponseBody, ReadRequestBodyFrom,
      ReadResponseBodyFrom, ProcessRequestHeaders, ProcessResponseHeaders, Sides

----------------------------------------------------------------------------
\* The inductive invariant.
Inv ==
  /\ TypeOK /\ BodyInv /\ PhaseInv /\ VerdictInv
  /\ PoolInv /\ FlowInv /\ RejectInv

LEMMA InitInv == Init => Inv
<1> SUFFICES ASSUME Init PROVE Inv
  BY Zenon
<1>1. TypeOK
  BY SMTT(30), InitType
<1>2. BodyInv
  <2>1. \A s \in Sides : bodyLen[s] = 0
    BY Zenon DEF Init
  <2>2. \A s \in Sides : Limit(s) \in Nat /\ BufferLimit(s) \in Nat
    BY Zenon, <1>1, LimitType DEF TypeOK
  <2>3. WithinLimits
    BY <2>1, <2>2 DEF WithinLimits
  <2> QED
    BY Zenon, <2>1, <2>3 DEF BodyInv
<1>3. PhaseInv
  <2>1. evals = [p \in Phases |-> 0] /\ lastPhase = 0
    BY Zenon DEF Init, EvalInit
  <2> QED
    BY <2>1 DEF PhaseInv, PhasesOnceInOrder, Phases
<1>4. VerdictInv
  <2>1. interruption = Nil /\ link = 0 /\ matchedRules = <<>>
    BY Zenon DEF Init, EvalInit
  <2>2. DOMAIN matchedRules = {}
    BY <2>1
  <2> QED
    BY Zenon, <2>1, <2>2 DEF VerdictInv, DenyIsFinal, VerdictExplained
<1>5. PoolInv
  BY Zenon DEF Init, PoolInv
<1>6. FlowInv
  <2>1. Skip = 0 /\ AllowType = "unset" /\ jumps = {}
    BY Zenon DEF Init, EvalInit
  <2> QED
    BY Zenon, <2>1 DEF FlowInv, FlowStaysInPhase, SkipStaysInPhase, AllowScope
<1>7. RejectInv
  <2>1. \A s \in Sides : bodyLen[s] = 0
    BY Zenon DEF Init
  <2> QED
    BY Zenon, <2>1 DEF RejectInv
<1> QED
  BY Zenon, <1>1, <1>2, <1>3, <1>4, <1>5, <1>6, <1>7 DEF Inv

LEMMA StepInv == Inv /\ [Next]_vars => Inv'
  BY Zenon, StepType, BodyInvStep, PhaseInvStep, VerdictInvStep, PoolInvStep, FlowInvStep, RejectInvStep DEF Inv

LEMMA Invariance == Spec => []Inv
  BY InitInv, StepInv, PTL DEF Spec

\* Whatever the rules and however a connector orders its calls, every field of a
\* Transaction keeps its type and Eval never leaves the bounds of the rule list.
THEOREM TypeCorrect == Spec => []TypeOK
<1>1. Inv => TypeOK
  BY Zenon DEF Inv
<1> QED
  BY <1>1, Invariance, PTL

\* Each of the phases 1 to 4 is evaluated at most once per transaction, a body
\* phase only after its headers phase, for every rule set and order of calls.
THEOREM PhasesCorrect == Spec => []PhasesOnceInOrder
<1>1. Inv => PhasesOnceInOrder
  BY Zenon DEF Inv, PhaseInv
<1> QED
  BY <1>1, Invariance, PTL

\* Once a rule has denied, only rules of the logging phase can still match.
THEOREM DenyCorrect == Spec => []DenyIsFinal
<1>1. Inv => DenyIsFinal
  BY Zenon DEF Inv, VerdictInv
<1> QED
  BY <1>1, Invariance, PTL

\* An interruption is that of a body limit or names a rule recorded as denying.
THEOREM ExplainedCorrect == Spec => []VerdictExplained
<1>1. Inv => VerdictExplained
  BY Zenon DEF Inv, VerdictInv
<1> QED
  BY <1>1, Invariance, PTL

\* The buffered bytes stay within the limit of the transaction and of the buffer,
\* although ctl can change the former while the transaction runs.
THEOREM LimitsCorrect == Spec => []WithinLimits
<1>1. Inv => WithinLimits
  BY Zenon DEF Inv, BodyInv
<1> QED
  BY <1>1, Invariance, PTL

\* Whatever rules skip, allow and jump, skip passes over rules of its own phase only,
\* allow:phase ends its own phase only and allow:request request phases only (Eval
\* clears tx.Skip and allow:phase when it leaves the loop).
THEOREM FlowCorrect == Spec => []FlowStaysInPhase
<1>1. Inv => FlowStaysInPhase
  BY Zenon DEF Inv, FlowInv
<1> QED
  BY <1>1, Invariance, PTL

\* No ctl action of the rules gives a body the limit 0.  ctl.go does not refuse one.
NoZeroLimit ==
  \A w \in DOMAIN Wafs : \A i \in 1..Len(Wafs[w].rules) :
    \A k \in 1..Len(Wafs[w].rules[i].links) :
      LET c == Wafs[w].rules[i].links[k].ctl
      IN  c.field \in {"RequestBodyLimit", "ResponseBodyLimit"} => c.value # 0

LimitsPositive == conf.RequestBodyLimit # 0 /\ conf.ResponseBodyLimit # 0

\* The limits of a configuration are positive.
LEMMA LimitNotZero ==
  ASSUME waf \in DOMAIN Wafs
  PROVE  Waf.conf.RequestBodyLimit # 0 /\ Waf.conf.ResponseBodyLimit # 0
<1>1. Waf.conf.RequestBodyLimit > 0 /\ Waf.conf.ResponseBodyLimit > 0
  BY Zenon, LimitsAssumption DEF Waf
<1> QED
  BY <1>1

\* Only a ctl action changes a limit.
LEMMA LimitsPositiveStep ==
  ASSUME NoZeroLimit, Inv, LimitsPositive, [Next]_vars
  PROVE  LimitsPositive'
<1>0. TypeOK /\ BodyInv /\ conf \in Confs /\ waf \in DOMAIN Wafs
  BY Zenon DEF Inv, TypeOK, EvalTypeOK
<1> USE <1>0
<1>1. ASSUME NEW s \in Sides, NEW n \in Chunks, WriteStep(s, n)
      PROVE  LimitsPositive'
  <2>1. n \in Nat /\ bodyLen[s] <= Limit(s)
    BY Zenon, BoundsAssumption DEF BodyInv, WithinLimits
  <2>2. conf' = conf
    BY Zenon, <1>1, <2>1, WriteStepEffect
  <2> QED
    BY Zenon, <2>2 DEF LimitsPositive
<1>2. CASE LinkMatches
  <2>1. /\ cur \in 1..Len(Rules) /\ link \in 1..Len(Rule.links)
        /\ Ctl(Rule.links[link].ctl)
    BY Zenon, <1>2 DEF LinkMatches, AtLink
  <2> DEFINE c == Rule.links[link].ctl
  <2>2. c.field \in {"RequestBodyLimit", "ResponseBodyLimit"} => c.value # 0
    BY Zenon, <2>1 DEF NoZeroLimit, Rule, Rules, Waf
  <2> HIDE DEF c
  <2>3. conf' = conf \/ (c.field \notin {"none", "remove"} /\ conf' = [conf EXCEPT ![c.field] = c.value])
    BY Zenon, <2>1 DEF Ctl, c
  <2> QED
    BY Zenon, <2>2, <2>3 DEF LimitsPositive, Confs
<1>3. CASE newTransaction
  <2>1. Waf.conf \in Confs /\ Waf.conf.RequestBodyLimit # 0 /\ Waf.conf.ResponseBodyLimit # 0
    BY Zenon, WafFacts, LimitNotZero
  <2> QED
    BY Zenon, <1>3, <2>1 DEF newTransaction, LimitsPositive, Confs
<1>4. CASE Close \/ AddRequestHeader
  <2>1. CASE Close
    BY Zenon, <2>1 DEF Close, LimitsPositive, Confs
  <2>2. CASE AddRequestHeader
    BY Zenon, <2>2 DEF AddRequestHeader, LimitsPositive, Confs
  <2> QED
    BY Zenon, <1>4, <2>1, <2>2
<1>5. CASE conf' = conf
  BY Zenon, <1>5 DEF LimitsPositive
<1>6. CASE Evaluating /\ ~LinkMatches
  BY Zenon, <1>5, <1>6 DEF Evaluating, EvalStep, BreakOnInterruption, PassOver,
     PassUntilMark, PassSkipped, BreakOnAllow, Evaluate, LinkFails, RuleMatches
<1>7. CASE ReturnFromEval \/ ProcessLogging \/ UNCHANGED vars
  BY Zenon, <1>5, <1>7 DEF ReturnFromEval, EndEval, ProcessLogging, EnterEval, BeginEval, vars, evalVars
<1>8. ASSUME NEW p \in {1, 3}, ProcessHeaders(p)
      PROVE  LimitsPositive'
  BY Zenon, <1>5, <1>8, ProcessHeadersEffect
<1>9. CASE ProcessRequestBody \/ ProcessResponseBody
  BY Zenon, <1>5, <1>9, ProcessBodyEffect DEF ProcessRequestBody, ProcessResponseBody, Sides
<1>10. ASSUME NEW listed \in BOOLEAN, AddResponseHeader(listed)
       PROVE  LimitsPositive'
  BY Zenon, <1>5, <1>10 DEF AddResponseHeader, evalVars
<1> QED
  BY SMTT(30), <1>1, <1>2, <1>3, <1>4, <1>6, <1>7, <1>8, <1>9, <1>10
  DEF Next, WriteStep, WriteRequestBody, WriteResponseBody, ReadRequestBodyFrom,
      ReadResponseBodyFrom, ProcessRequestHeaders, ProcessResponseHeaders, Sides

\* A limit reached with SecRequestBodyLimitAction Reject is never silent, as long as no
\* rule sets a limit to 0: the comment of WriteRequestBody relies on "tx.RequestBodyLimit
\* will never be zero", which ctl.go does not enforce.
THEOREM RejectCorrect ==
  ASSUME NoZeroLimit
  PROVE  Spec => []RejectIsNotSilent
<1>1. Init => LimitsPositive
  <2> SUFFICES ASSUME Init PROVE LimitsPositive
    BY Zenon
  <2>1. waf \in DOMAIN Wafs /\ conf = Waf.conf /\ Waf.conf \in Confs
    BY Zenon, WafFacts DEF Init, EvalInit
  <2> QED
    BY Zenon, <2>1, LimitNotZero DEF LimitsPositive
<1>2. Inv /\ LimitsPositive /\ [Next]_vars => LimitsPositive'
  BY Zenon, LimitsPositiveStep
<1>3. Inv /\ LimitsPositive => RejectIsNotSilent
  BY Zenon DEF Inv, RejectInv, LimitsPositive, RejectIsNotSilent, LimitReached, Limit
<1> QED
  BY <1>1, <1>2, <1>3, Invariance, PTL DEF Spec

\* An interruption is never withdrawn while the transaction is open, and only a
\* body limit or a rule of the logging phase replaces it.
THEOREM VerdictKeptCorrect == Spec => VerdictKept
<1>1. ASSUME Inv, [Next]_vars
      PROVE  [open /\ open' /\ interruption # Nil /\ interruption' # interruption
                => \/ \E s \in Sides : interruption' = LimitVerdict(s)
                   \/ lastPhase = Logging /\ interruption' # Nil]_vars
  <2>1. CASE Evaluating /\ RuleMatches
    <3>1. link # 0
      BY Zenon, <1>1, <2>1, MatchedLink DEF Inv, TypeOK
    <3> QED
      BY ZenonT(60), <1>1, <2>1, <3>1, VerdictNotNil DEF Inv, VerdictInv, RuleMatches, Denies
  <2>2. CASE Evaluating /\ UNCHANGED interruption
    BY Zenon, <2>2
  <2>3. CASE Rejects
    BY Zenon, <2>3 DEF Rejects
  <2>4. CASE (\E p \in Phases : Begins(p)) \/ Quiet \/ ReturnFromEval \/ Close \/ newTransaction
    BY Zenon, <2>4 DEF Begins, Quiet, ReturnFromEval, EndEval, Close, newTransaction
  <2> QED
    BY SMTT(30), <1>1, <2>1, <2>2, <2>3, <2>4, StepShape, EvaluatingEffect DEF Inv
<1> QED
  BY <1>1, Invariance, PTL DEF Spec, VerdictKept

\* An object taken back from the pool starts like a new one except, possibly, for
\* ForceResponseBodyVariable.
THEOREM ReuseCorrect == Spec => ReuseIsFresh
<1>1. ASSUME Inv, [Next]_vars
      PROVE  [~open /\ open' =>
                /\ conf' \in {Waf.conf, [Waf.conf EXCEPT !.ForceResponseBodyVariable = TRUE]}
                /\ bodyLen' = [s \in Sides |-> 0] /\ ~dataError'["req"] /\ ~dataError'["res"]
                /\ interruption' = Nil /\ lastPhase' = 0 /\ ~audit' /\ matchedRules' = <<>>
                /\ Skip' = 0 /\ SkipAfter' = NoMark /\ AllowType' = "unset"
                /\ ruleRemoveByID' = {}]_vars
  <2> SUFFICES ASSUME ~open, open'
               PROVE  /\ conf' \in {Waf.conf, [Waf.conf EXCEPT !.ForceResponseBodyVariable = TRUE]}
                      /\ bodyLen' = [s \in Sides |-> 0] /\ ~dataError'["req"] /\ ~dataError'["res"]
                      /\ interruption' = Nil /\ lastPhase' = 0 /\ ~audit' /\ matchedRules' = <<>>
                      /\ Skip' = 0 /\ SkipAfter' = NoMark /\ AllowType' = "unset"
                      /\ ruleRemoveByID' = {}
    BY Zenon
  <2>1. newTransaction
    <3>1. ~Evaluating /\ ~ReturnFromEval /\ ~Close
      BY ZenonT(60), <1>1 DEF Inv, TypeOK, Evaluating, ReturnFromEval, Close, Idle
    <3> QED
      BY Zenon, <1>1, <3>1, StepShape DEF Inv, Begins, Quiet, Rejects
  <2>2. /\ conf.reqbodyProcessor = "none" /\ conf.resBodyProcessor = "none"
        /\ ~dataError["req"] /\ ~dataError["res"]
    BY Zenon, <1>1 DEF Inv, PoolInv
  <2>3. /\ Waf.conf \in Confs /\ conf \in Confs
        /\ Waf.conf.reqbodyProcessor = "none" /\ Waf.conf.resBodyProcessor = "none"
        /\ Waf.conf.ForceResponseBodyVariable = FALSE
    BY Zenon, <1>1, WafFacts, LimitsAssumption DEF Inv, TypeOK, EvalTypeOK, Waf, Confs
  <2>4. conf' \in {Waf.conf, [Waf.conf EXCEPT !.ForceResponseBodyVariable = TRUE]}
    <3>1. CASE conf.ForceResponseBodyVariable = TRUE
      BY Zenon, <2>1, <2>2, <2>3, <3>1 DEF newTransaction, Confs
    <3>2. CASE conf.ForceResponseBodyVariable = FALSE
      BY ZenonT(60), <2>1, <2>2, <2>3, <3>2 DEF newTransaction, Confs
    <3> QED
      BY Zenon, <2>3, <3>1, <3>2 DEF Confs
  <2>5. bodyLen' = [s \in Sides |-> 0]
    BY Zenon, <1>1, <2>1 DEF Inv, BodyInv, NothingBuffered, TypeOK, newTransaction, bodyVars
  <2> QED
    BY Zenon, <2>1, <2>2, <2>4, <2>5 DEF newTransaction, ClearExclusions, bodyVars
<1> QED
  BY <1>1, Invariance, PTL DEF Spec, ReuseIsFresh

\* The detailed transaction, with its rules, buffers and pool, implements the
\* contract that PhaseContract states for connectors.
THEOREM ContractCorrect == Spec => ImplementsContract
<1>1. Init => Contract!Init
  BY Zenon DEF Init, EvalInit, Contract!Init
<1>2. ASSUME Inv, [Next]_vars
      PROVE  [Contract!Next]_(Contract!vars)
  <2>1. ASSUME NEW p \in Phases, Begins(p)
        PROVE  Contract!Next \/ UNCHANGED Contract!vars
    <3>1. open /\ UNCHANGED <<open, interruption>> /\ lastPhase' = p /\ Due(p)
      BY Zenon, <2>1 DEF Begins
    <3>2. CASE p = Logging
      BY Zenon, <3>1, <3>2 DEF Logging, Contract!Next, Contract!StartLogging
    <3>3. CASE p \in {1, 3} /\ lastPhase < p /\ interruption = Nil
      BY <3>1, <3>3 DEF Contract!Next, Contract!StartHeaders
    <3>4. CASE p \in {2, 4} /\ lastPhase = p - 1 /\ interruption = Nil
      BY <3>1, <3>4 DEF Contract!Next, Contract!StartBody
    <3> QED
      BY SMTT(30), <3>1, <3>2, <3>3, <3>4 DEF Due
  <2>2. CASE Quiet
    BY Zenon, <2>2 DEF Quiet, Stays, Contract!vars
  <2>3. CASE Rejects
    BY Zenon, <2>3, LimitVerdictNotNil DEF Rejects, Stays, Idle, Contract!Next, Contract!Interrupt
  <2>4. CASE Evaluating
    <3>1. open /\ UNCHANGED <<open, lastPhase>>
      BY Zenon, <1>2, <2>4, EvaluatingEffect DEF Inv, Evaluating, TypeOK
    <3>2. interruption' = interruption \/ interruption' # Nil
      BY Zenon, <1>2, <2>4, EvaluatingEffect, VerdictNotNil DEF Inv, RuleMatches, Denies
    <3> QED
      BY SMTT(30), <3>1, <3>2 DEF Contract!Next, Contract!Interrupt, Contract!vars
  <2>5. CASE ReturnFromEval
    BY Zenon, <2>5 DEF ReturnFromEval, EndEval, Contract!vars
  <2>6. CASE Close
    BY Zenon, <2>6 DEF Close, Idle, Contract!Next, Contract!GiveBack
  <2>7. CASE newTransaction
    BY Zenon, <2>7 DEF newTransaction, Contract!Next, Contract!Renew
  <2> QED
    BY SMTT(30), <1>2, <2>1, <2>2, <2>3, <2>4, <2>5, <2>6, <2>7, StepShape DEF Inv
<1> QED
  BY <1>1, <1>2, Invariance, PTL DEF Spec, ImplementsContract, Contract!Spec
=============================================================================
