----------------------------- MODULE RuleGroup -----------------------------
(***************************************************************************)
(* The rule engine of internal/corazawaf: RuleGroup.Eval (rulegroup.go),   *)
(* Rule.doEvaluate (rule.go), Transaction.MatchRule (transaction.go) and   *)
(* the flow, disruptive and ctl actions (internal/actions) acting on one   *)
(* transaction.                                                            *)
(*                                                                         *)
(* The loop of Eval is modelled one iteration at a time: cur is the index  *)
(* of the rule the loop is at (0 outside Eval), link the member of that    *)
(* rule's chain being evaluated (0 at the head of the loop body).  Whether *)
(* an operator matches depends on the traffic and is a free choice.  The   *)
(* build without the multiphase tag is modelled.                           *)
(***************************************************************************)
EXTENDS Integers, Sequences, FiniteSets

CONSTANTS
  Wafs,      \* a sequence of WAF configurations; a behaviour uses one of them
  RuleIds,   \* the identifiers of rules; 0 stands for "no id" (SecMarker)
  Marks      \* the names a SecMarker or a skipAfter can give

VARIABLES
  waf,             \* the index in Wafs of the configuration in use
  conf,            \* the fields of the Transaction that ctl can change
  lastPhase,       \* tx.lastPhase
  interruption,    \* tx.interruption
  Skip,            \* tx.Skip
  SkipAfter,       \* tx.SkipAfter
  AllowType,       \* tx.AllowType
  ruleRemoveByID,  \* tx.ruleRemoveByID, as a set
  audit,           \* tx.audit
  matchedRules,    \* tx.matchedRules, reduced to phase, id and whether it denied
  cur, link,       \* where the evaluation of the rules is
  origin,          \* history: the phase in which Skip, SkipAfter, AllowType were set
  jumps            \* history: what the flow actions made Eval jump over, and where

evalVars == <<waf, conf, lastPhase, interruption, Skip, SkipAfter, AllowType,
              ruleRemoveByID, audit, matchedRules, cur, link, origin, jumps>>

\* The empty marker name.
NoMark == "none"

Phases == 1..5
Logging == 5

Engines == {"On", "Off", "DetectionOnly"}
AuditEngines == {"On", "Off", "RelevantOnly"}
Processors == {"none", "known", "unknown"}
AllowTypes == {"unset", "phase", "request", "all"}
Interrupting == {"deny", "drop", "redirect"}
Disruptive == Interrupting \cup AllowTypes

Verdicts == [action : Interrupting \cup {"none"}, status : Nat, rule : Nat]
Nil == [action |-> "none", status |-> 0, rule |-> 0]

Confs == [RuleEngine : Engines, AuditEngine : AuditEngines,
          RequestBodyAccess : BOOLEAN, RequestBodyLimit : Nat,
          ResponseBodyAccess : BOOLEAN, ResponseBodyLimit : Nat,
          ForceRequestBodyVariable : BOOLEAN,
          ForceResponseBodyVariable : BOOLEAN,
          reqbodyProcessor : Processors, resBodyProcessor : Processors]

\* The values a ctl action may carry, by the field it assigns.  "remove" is
\* ruleRemoveById, ByMsg and ByTag once resolved to rule ids; "none" is a link
\* of a chain without ctl.  A negative body limit is not modelled; neither are
\* ruleRemoveTargetById, ByMsg and ByTag, which only narrow what a link inspects (a
\* link matches freely here), and auditLogParts and debugLogLevel, which change
\* only what is logged.
IsCtl(c) ==
  \/ c.field = "none"
  \/ c.field = "remove" /\ c.value \in SUBSET RuleIds
  \/ c.field = "RuleEngine" /\ c.value \in Engines
  \/ c.field = "AuditEngine" /\ c.value \in AuditEngines
  \/ c.field \in {"RequestBodyAccess", "ResponseBodyAccess",
                  "ForceRequestBodyVariable", "ForceResponseBodyVariable"}
       /\ c.value \in BOOLEAN
  \/ c.field \in {"RequestBodyLimit", "ResponseBodyLimit"} /\ c.value \in Nat
  \/ c.field \in {"reqbodyProcessor", "resBodyProcessor"} /\ c.value \in Processors

\* A rule as RuleGroup.Add accepts it (only a SecMarker has no id, and it has no
\* disruptive action): links is the rule followed by the rules chained to it; a forced link
\* has no operator (SecAction, SecMarker) and always matches.
IsRule(r) ==
  /\ r.id \in RuleIds \cup {0}
  /\ r.phase \in 0..5
  /\ r.mark \in Marks \cup {NoMark}
  /\ DOMAIN r.links = 1..Len(r.links) /\ Len(r.links) \in Nat \ {0}
  /\ \A i \in 1..Len(r.links) : r.links[i].forced \in BOOLEAN /\ IsCtl(r.links[i].ctl)
  /\ r.skip \in Nat
  /\ r.skipAfter \in Marks \cup {NoMark}
  /\ r.disruptive \in Disruptive
  /\ r.id = 0 => r.disruptive = "unset"
  /\ r.status \in Nat
  /\ r.audit \in BOOLEAN

ASSUME IdsAssumption == RuleIds \subseteq Nat \ {0}

\* RuleGroup.Add refuses a rule whose id another rule has.
ASSUME WafsAssumption ==
  \A w \in DOMAIN Wafs :
     /\ DOMAIN Wafs[w].rules = 1..Len(Wafs[w].rules) /\ Len(Wafs[w].rules) \in Nat
     /\ \A i \in 1..Len(Wafs[w].rules) : IsRule(Wafs[w].rules[i])
     /\ \A i, j \in 1..Len(Wafs[w].rules) :
           Wafs[w].rules[i].id = Wafs[w].rules[j].id /\ Wafs[w].rules[i].id # 0 => i = j
     /\ Wafs[w].conf \in Confs

Waf == Wafs[waf]
Rules == Waf.rules
Rule == Rules[cur]

----------------------------------------------------------------------------
\* The fields newTransaction gives a transaction taken from the pool.
EvalInit ==
  /\ waf \in DOMAIN Wafs
  /\ conf = Waf.conf
  /\ lastPhase = 0
  /\ interruption = Nil
  /\ Skip = 0
  /\ SkipAfter = NoMark
  /\ AllowType = "unset"
  /\ ruleRemoveByID = {}
  /\ audit = FALSE
  /\ matchedRules = <<>>
  /\ cur = 0 /\ link = 0
  /\ origin = [skip |-> 0, skipAfter |-> 0, allow |-> 0]
  /\ jumps = {}

\* The call Rules.Eval(phase, tx).
BeginEval(phase) ==
  /\ lastPhase' = phase
  /\ cur' = 1
  /\ link' = 0
  /\ UNCHANGED <<waf, conf, interruption, Skip, SkipAfter, AllowType,
                 ruleRemoveByID, audit, matchedRules, origin, jumps>>

AtRule == cur \in 1..Len(Rules) /\ link = 0
\* Mutant: Eval goes on after a deny.
AlreadyInterruptedNever == FALSE

AlreadyInterrupted == interruption # Nil /\ lastPhase # Logging
OtherPhase == Rule.phase \notin {0, lastPhase}
Excluded == Rule.id \in ruleRemoveByID

Considered == AtRule /\ ~AlreadyInterrupted /\ ~OtherPhase /\ ~Excluded

\* Mutant: an iteration of the loop that does not advance.
NextRuleStays == cur' = cur

NextRule == cur' = cur + 1
BreakLoop == cur' = Len(Rules) + 1

Jump(kind, setIn) == jumps' = jumps \cup {[kind |-> kind, setIn |-> setIn, at |-> lastPhase]}

BreakOnInterruption ==
  /\ AtRule /\ AlreadyInterrupted
  /\ BreakLoop
  /\ UNCHANGED <<waf, conf, lastPhase, interruption, Skip, SkipAfter, AllowType,
                 ruleRemoveByID, audit, matchedRules, link, origin, jumps>>

PassOver ==
  /\ AtRule /\ ~AlreadyInterrupted
  /\ OtherPhase \/ Excluded
  /\ NextRule
  /\ UNCHANGED <<waf, conf, lastPhase, interruption, Skip, SkipAfter, AllowType,
                 ruleRemoveByID, audit, matchedRules, link, origin, jumps>>

PassUntilMark ==
  /\ Considered /\ SkipAfter # NoMark
  /\ SkipAfter' = IF Rule.mark = SkipAfter THEN NoMark ELSE SkipAfter
  /\ IF Rule.mark = NoMark THEN Jump("skipAfter", origin.skipAfter) ELSE UNCHANGED jumps
  /\ NextRule
  /\ UNCHANGED <<waf, conf, lastPhase, interruption, Skip, AllowType,
                 ruleRemoveByID, audit, matchedRules, link, origin>>

SkipPending == Skip > 0

PassSkipped ==
  /\ Considered /\ SkipAfter = NoMark /\ SkipPending
  /\ Skip' = Skip - 1
  /\ Jump("skip", origin.skip)
  /\ NextRule
  /\ UNCHANGED <<waf, conf, lastPhase, interruption, SkipAfter, AllowType,
                 ruleRemoveByID, audit, matchedRules, link, origin>>

AllowBreaks == \/ AllowType \in {"phase", "all"}
               \/ AllowType = "request" /\ lastPhase \in {1, 2}

BreakOnAllow ==
  /\ Considered /\ SkipAfter = NoMark /\ Skip = 0 /\ AllowBreaks
  /\ AllowType' = IF AllowType = "request" /\ lastPhase = 2 THEN "unset" ELSE AllowType
  /\ Jump(AllowType, origin.allow)
  /\ BreakLoop
  /\ UNCHANGED <<waf, conf, lastPhase, interruption, Skip, SkipAfter,
                 ruleRemoveByID, audit, matchedRules, link, origin>>

Evaluate ==
  /\ Considered /\ SkipAfter = NoMark /\ Skip = 0 /\ ~AllowBreaks
  /\ link' = 1
  /\ UNCHANGED <<waf, conf, lastPhase, interruption, Skip, SkipAfter, AllowType,
                 ruleRemoveByID, audit, matchedRules, cur, origin, jumps>>

----------------------------------------------------------------------------
\* Mutant: body settings can be changed in every phase.
CtlPermittedAlways(field) == TRUE

\* ctlFn.Evaluate: the request settings are frozen after phase 1, the response
\* settings after phase 3; a refused change is only logged.
CtlPermitted(field) ==
  /\ field \in {"RequestBodyAccess", "RequestBodyLimit", "reqbodyProcessor"} => lastPhase <= 1
  /\ field \in {"ResponseBodyAccess", "ResponseBodyLimit", "resBodyProcessor"} => lastPhase <= 3

Ctl(c) ==
  /\ conf' = IF c.field \notin {"none", "remove"} /\ CtlPermitted(c.field)
             THEN [conf EXCEPT ![c.field] = c.value] ELSE conf
  /\ ruleRemoveByID' = IF c.field = "remove" THEN ruleRemoveByID \cup c.value
                       ELSE ruleRemoveByID

AtLink == cur \in 1..Len(Rules) /\ link \in 1..Len(Rule.links)

\* No value matched: the rule and whatever is chained to it is left.
LinkFails ==
  /\ AtLink /\ ~Rule.links[link].forced
  /\ link' = 0
  /\ NextRule
  /\ UNCHANGED <<waf, conf, lastPhase, interruption, Skip, SkipAfter, AllowType,
                 ruleRemoveByID, audit, matchedRules, origin, jumps>>

\* A value matched: the non-disruptive actions of the link run at once, whether
\* or not the rest of the chain will match.
LinkMatches ==
  /\ AtLink
  /\ Ctl(Rule.links[link].ctl)
  /\ link' = link + 1
  /\ UNCHANGED <<waf, lastPhase, interruption, Skip, SkipAfter, AllowType,
                 audit, matchedRules, cur, origin, jumps>>

\* Mutant: the verdict does not carry the rule.
VerdictAnonymous(r) == [action |-> r.disruptive, status |-> 403, rule |-> 0]

\* What deny, drop and redirect put in tx.interruption.
Verdict(r) ==
  [action |-> r.disruptive,
   status |-> CASE r.disruptive = "deny" -> IF r.status = 0 THEN 403 ELSE r.status
                [] r.disruptive = "redirect" ->
                     IF r.status \in {301, 302, 303, 307} THEN r.status ELSE 302
                [] OTHER -> r.status,
   rule |-> r.id]

Denies(r) == r.disruptive \in Interrupting /\ conf.RuleEngine = "On"
Allows(r) == r.disruptive \in AllowTypes \ {"unset"} /\ conf.RuleEngine = "On"

\* The whole chain matched: flow actions, then (engine On only) the disruptive
\* one, then MatchRule for a rule that has an id.
RuleMatches ==
  /\ cur \in 1..Len(Rules) /\ link = Len(Rule.links) + 1
  /\ Skip' = IF Rule.skip > 0 THEN Rule.skip ELSE Skip
  /\ SkipAfter' = IF Rule.skipAfter # NoMark THEN Rule.skipAfter ELSE SkipAfter
  /\ interruption' = IF Denies(Rule) THEN Verdict(Rule) ELSE interruption
  /\ AllowType' = IF Allows(Rule) THEN Rule.disruptive ELSE AllowType
  /\ audit' = (audit \/ (Rule.id # 0 /\ Rule.audit))
  /\ matchedRules' = IF Rule.id = 0 THEN matchedRules
                     ELSE Append(matchedRules, [phase |-> lastPhase, id |-> Rule.id,
                                                denied |-> Denies(Rule)])
  /\ origin' = [skip |-> IF Rule.skip > 0 THEN lastPhase ELSE origin.skip,
                skipAfter |-> IF Rule.skipAfter # NoMark THEN lastPhase ELSE origin.skipAfter,
                allow |-> IF Allows(Rule) THEN lastPhase ELSE origin.allow]
  /\ link' = 0
  /\ NextRule
  /\ UNCHANGED <<waf, conf, lastPhase, ruleRemoveByID, jumps>>

\* Mutant: the phase ends without clearing skip.
ResetSkipNot == UNCHANGED Skip

ResetSkip == Skip' = 0
EndAllowPhase == AllowType' = IF AllowType = "phase" THEN "unset" ELSE AllowType

\* After the loop.
EndEval ==
  /\ cur = Len(Rules) + 1
  /\ EndAllowPhase
  /\ ResetSkip
  /\ cur' = 0
  /\ UNCHANGED <<waf, conf, lastPhase, interruption, SkipAfter, ruleRemoveByID,
                 audit, matchedRules, link, origin, jumps>>

EvalStep ==
  \/ BreakOnInterruption
  \/ PassOver
  \/ PassUntilMark
  \/ PassSkipped
  \/ BreakOnAllow
  \/ Evaluate
  \/ LinkFails
  \/ LinkMatches
  \/ RuleMatches

----------------------------------------------------------------------------
Origins == [skip : 0..5, skipAfter : 0..5, allow : 0..5]
Matches == [phase : Phases, id : RuleIds, denied : BOOLEAN]

\* Type invariant of the fields Eval reads and writes, and of its position: link is
\* nonzero only while the chain of an existing rule is evaluated.
EvalTypeOK ==
  /\ waf \in DOMAIN Wafs
  /\ conf \in Confs
  /\ lastPhase \in 0..5
  /\ interruption \in Verdicts
  /\ Skip \in Nat
  /\ SkipAfter \in Marks \cup {NoMark}
  /\ AllowType \in AllowTypes
  /\ ruleRemoveByID \subseteq RuleIds
  /\ audit \in BOOLEAN
  /\ matchedRules \in Seq(Matches)
  /\ cur \in 0..(Len(Rules) + 1)
  /\ link \in Nat
  /\ link # 0 => cur \in 1..Len(Rules) /\ link <= Len(Rule.links) + 1
  /\ origin \in Origins
=============================================================================
