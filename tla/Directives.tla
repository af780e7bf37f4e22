----------------------------- MODULE Directives -----------------------------
(***************************************************************************)
(* What the directives of internal/seclang do to a WAF under construction: *)
(* SecRule, SecAction and SecMarker (ParseRule, ParseActions, mergeActions *)
(* and RuleGroup.Add), SecDefaultAction, the directives that remove and    *)
(* update rules, the settings, and NewWAF with Validate at the end.        *)
(*                                                                         *)
(* An action of a rule is its key: a disruptive one (deny, pass, block),   *)
(* or another.  Messages, transformations and operators are left out.      *)
(***************************************************************************)
EXTENDS Integers, Sequences, FiniteSets, SequencesExt, FiniteSetsExt

CONSTANTS
  Ids, Tags, Phases,   \* identifiers (0 is none), tags and phases of rules
  Actions,             \* the lists of actions a rule may be written with
  Defaults,            \* the SecDefaultActions: phase and actions
  Allowed,             \* the directives of this instance
  Limits, Gib,         \* values for limits in bytes, and the hard limit
  MaxDirectives        \* bound: directives

VARIABLES
  rules,      \* WAF.Rules
  defaults,   \* Parser.RuleDefaultActions
  ignore,     \* Parser.IgnoreRuleCompilationErrors
  mime,       \* WAF.ResponseBodyMimeTypes
  limit,      \* RequestBodyLimit, requestBodyInMemoryLimit (NoLimit: nil) and ResponseBodyLimit
  status,     \* loading, loaded or failed
  n,          \* directives read
  asked       \* history: targets and MIME types asked for, identifiers and phases declared

vars == <<rules, defaults, ignore, mime, limit, status, n, asked>>

NoLimit == -1
Disruptive == {"deny", "pass", "block"}
IsDa(a) == a \in Disruptive
Das(acts) == SelectSeq(acts, IsDa)
Marker == 0

Init ==
  /\ rules = <<>> /\ defaults = <<>> /\ ignore = FALSE /\ mime = <<>>
  /\ limit = [req |-> 2, mem |-> NoLimit, resp |-> 1]
  /\ status = "loading" /\ n = 0
  /\ asked = [targets |-> {}, mimes |-> {}, declared |-> <<>>]

Read(d) == /\ status = "loading" /\ n < MaxDirectives /\ d \in Allowed /\ n' = n + 1
Fails == status' = "failed"

----------------------------------------------------------------------------
\* appendRuleAction: a second disruptive action takes the place of the first.
AppendRuleAction(acts, a) ==
  IF IsDa(a) /\ Das(acts) # <<>>
  THEN [i \in DOMAIN acts |-> IF IsDa(acts[i]) THEN a ELSE acts[i]]
  ELSE Append(acts, a)
ParseActions(acts) == FoldLeft(AppendRuleAction, <<>>, acts)

Overrides(a) == IsDa(a) /\ a # "block"

\* mergeActions: the defaults without their disruptive action, the rule's
\* actions without "block", and the default disruptive action if none is left.
MergeActions(origin, dflt) ==
  LET own == SelectSeq(origin, LAMBDA a : ~IsDa(a) \/ Overrides(a))
  IN SelectSeq(dflt, LAMBDA a : ~IsDa(a)) \o own
       \o IF Das(own) # <<>> THEN <<>> ELSE Das(dflt)

HardcodedPhase2 == [phase |-> 2, acts |-> <<"log", "pass">>]

\* ParseDefaultActions of every SecDefaultAction so far: each has a phase of its
\* own and a disruptive action.
DefaultsOk ==
  /\ \A i \in DOMAIN defaults : Das(defaults[i].acts) # <<>>
  /\ \A i, j \in DOMAIN defaults : defaults[i].phase = defaults[j].phase => i = j
DefaultsOf(phase) ==
  LET all == IF \E i \in DOMAIN defaults : defaults[i].phase = 2 THEN defaults ELSE Append(defaults, HardcodedPhase2)
      hit == SelectSeq(all, LAMBDA d : d.phase = phase)
  IN IF hit = <<>> THEN <<>> ELSE hit[1].acts

\* The actions a rule is compiled to.
Compiled(r) ==
  LET own == ParseActions(r.acts) d == DefaultsOf(r.phase)
  IN IF d = <<>> THEN own ELSE MergeActions(own, d)

----------------------------------------------------------------------------
\* getLastRuleExpectingChain.
Expecting(rule) == IF rule.chain = <<>> THEN rule.hasChain ELSE Last(rule.chain).hasChain
ExpectsChain == rules # <<>> /\ Expecting(Last(rules))

\* Mutant: only the rule added last is compared.
IdTakenByLast(id) == rules # <<>> /\ Last(rules).id = id
IdTaken(id) == \E i \in DOMAIN rules : rules[i].id = id

\* RuleGroup.Add; identifiers are mandatory for all but markers.
AddFails(rule) == ~rule.mark /\ (rule.id = 0 \/ IdTaken(rule.id))

\* SecRule and SecAction; bad: the rule does not compile.  Only SecRule looks at
\* SecIgnoreRuleCompilationErrors.
SecRule(r, bad, isAction) ==
  LET rule == [id |-> r.id, mark |-> FALSE, tag |-> r.tag, phase |-> r.phase, hasChain |-> r.hasChain,
               acts |-> Compiled(r), vars |-> {}, not |-> {}, chain |-> <<>>]
      link == [hasChain |-> r.hasChain, acts |-> Compiled(r), own |-> r.acts]
  IN /\ Read(IF isAction THEN "SecAction" ELSE "SecRule")
     /\ IF bad \/ ~DefaultsOk \/ (~ExpectsChain /\ AddFails(rule))
        THEN (IF ignore /\ ~isAction THEN UNCHANGED status ELSE Fails) /\ UNCHANGED <<rules, asked>>
        ELSE /\ rules' = IF ExpectsChain THEN [rules EXCEPT ![Len(rules)].chain = Append(@, link)]
                         ELSE Append(rules, rule)
             /\ asked' = IF ExpectsChain THEN asked
                         ELSE [asked EXCEPT !.declared = Append(@, <<r.id, r.phase>>)]
             /\ UNCHANGED status
     /\ UNCHANGED <<defaults, ignore, mime, limit>>

SecMarker ==
  /\ Read("SecMarker")
  /\ rules' = Append(rules, [id |-> Marker, mark |-> TRUE, tag |-> "", phase |-> 0, hasChain |-> FALSE,
                             acts |-> <<>>, vars |-> {}, not |-> {}, chain |-> <<>>])
  /\ asked' = [asked EXCEPT !.declared = Append(@, <<Marker, 0>>)]
  /\ UNCHANGED <<defaults, ignore, mime, limit, status>>

\* SecDefaultAction is only kept; it is parsed with every rule that follows.
SecDefaultAction(d) ==
  /\ Read("SecDefaultAction")
  /\ defaults' = Append(defaults, d)
  /\ UNCHANGED <<rules, ignore, mime, limit, status, asked>>

SecIgnoreRuleCompilationErrors(b) ==
  /\ Read("SecIgnoreRuleCompilationErrors")
  /\ ignore' = b
  /\ UNCHANGED <<rules, defaults, mime, limit, status, asked>>

----------------------------------------------------------------------------
\* The rules without the ones at the given places.
Delete(gone) ==
  LET kept == SetToSortSeq(DOMAIN rules \ gone, LAMBDA a, b : a < b)
  IN /\ rules' = [i \in DOMAIN kept |-> rules[kept[i]]]
     /\ asked' = [asked EXCEPT !.declared = [i \in DOMAIN kept |-> asked.declared[kept[i]]]]
     /\ UNCHANGED <<defaults, ignore, mime, limit, status>>

\* DeleteByID removes the first match.
SecRuleRemoveById(id) ==
  /\ Read("SecRuleRemoveById")
  /\ LET hits == {i \in DOMAIN rules : rules[i].id = id} IN Delete(IF hits = {} THEN {} ELSE {Min(hits)})

\* DeleteByRange; a range that ends before it starts is an error.
SecRuleRemoveByRange(start, end) ==
  /\ Read("SecRuleRemoveById")
  /\ IF start > end THEN Fails /\ UNCHANGED <<rules, defaults, ignore, mime, limit, asked>>
     ELSE Delete({i \in DOMAIN rules : rules[i].id >= start /\ rules[i].id <= end})

SecRuleRemoveByTag(tag) ==
  /\ Read("SecRuleRemoveByTag")
  /\ Delete({i \in DOMAIN rules : rules[i].tag = tag})

\* ParseVariables on a rule of the group: a variable is added, an exception is
\* put on the variables there are.
WithVariable(r, v, negated) ==
  IF negated THEN [r EXCEPT !.not = IF r.vars = {} THEN @ ELSE @ \cup {v}] ELSE [r EXCEPT !.vars = @ \cup {v}]

\* ParseVariables on the copy of a rule that a range statement makes: the variable
\* is appended to the slice of the copy; exceptions go into the shared array.
WithVariableOnCopy(r, v, negated) == IF negated THEN WithVariable(r, v, negated) ELSE r

Wanted(i, v, negated) == IF negated THEN {} ELSE {<<rules[i].id, v>>}

SecRuleUpdateTargetById(id, v, negated) ==
  /\ Read("SecRuleUpdateTargetById")
  /\ LET hits == {i \in DOMAIN rules : rules[i].id = id} IN
       IF hits = {} THEN Fails /\ UNCHANGED <<rules, asked>>
       ELSE /\ rules' = [rules EXCEPT ![Min(hits)] = WithVariable(@, v, negated)]
            /\ asked' = [asked EXCEPT !.targets = @ \cup Wanted(Min(hits), v, negated)]
            /\ UNCHANGED status
  /\ UNCHANGED <<defaults, ignore, mime, limit>>

SecRuleUpdateTargetByRange(start, end, v, negated) ==
  /\ Read("SecRuleUpdateTargetByRange")
  /\ LET hits == {i \in DOMAIN rules : rules[i].id >= start /\ rules[i].id <= end} IN
       IF start > end THEN Fails /\ UNCHANGED <<rules, asked>>
       ELSE /\ start # end
            /\ rules' = [i \in DOMAIN rules |-> IF i \in hits THEN WithVariableOnCopy(rules[i], v, negated) ELSE rules[i]]
            /\ asked' = [asked EXCEPT !.targets = @ \cup UNION {Wanted(i, v, negated) : i \in hits}]
            /\ UNCHANGED status
  /\ UNCHANGED <<defaults, ignore, mime, limit>>

SecRuleUpdateTargetByTag(tag, v, negated) ==
  /\ Read("SecRuleUpdateTargetByTag")
  /\ LET hits == {i \in DOMAIN rules : rules[i].tag = tag} IN
       /\ rules' = [i \in DOMAIN rules |-> IF i \in hits THEN WithVariableOnCopy(rules[i], v, negated) ELSE rules[i]]
       /\ asked' = [asked EXCEPT !.targets = @ \cup UNION {Wanted(i, v, negated) : i \in hits}]
  /\ UNCHANGED <<defaults, ignore, mime, limit, status>>

\* SecRuleUpdateActionById on one rule: ParseActions runs the metadata actions
\* (id and phase among them; NoId and NoPhase when not given) on the rule and
\* appends the others.  On a range it works on copies and changes nothing.
NoId == -1
NoPhase == -1
SecRuleUpdateActionById(id, acts, newId, newPhase) ==
  /\ Read("SecRuleUpdateActionById")
  /\ LET hits == {i \in DOMAIN rules : rules[i].id = id} IN
       IF hits = {} THEN Fails /\ UNCHANGED rules
       ELSE /\ rules' = [rules EXCEPT ![Min(hits)].acts = @ \o ParseActions(acts),
                                      ![Min(hits)].id = IF newId = NoId THEN @ ELSE newId,
                                      ![Min(hits)].phase = IF newPhase = NoPhase THEN @ ELSE newPhase]
            /\ UNCHANGED status
  /\ UNCHANGED <<defaults, ignore, mime, limit, asked>>

----------------------------------------------------------------------------
\* SecResponseBodyMimeType and SecResponseBodyMimeTypesClear.
SecResponseBodyMimeType(types) ==
  /\ Read("SecResponseBodyMimeType")
  /\ mime' = types
  /\ asked' = [asked EXCEPT !.mimes = @ \cup ToSet(types)]
  /\ UNCHANGED <<rules, defaults, ignore, limit, status>>

SecResponseBodyMimeTypesClear ==
  /\ Read("SecResponseBodyMimeType")
  /\ mime' = <<>>
  /\ asked' = [asked EXCEPT !.mimes = {}]
  /\ UNCHANGED <<rules, defaults, ignore, limit, status>>

\* SecRequestBodyLimit, SecRequestBodyInMemoryLimit and SecResponseBodyLimit
\* take any number.
SecBodyLimit(which, bytes) ==
  /\ Read("SecBodyLimit")
  /\ limit' = [limit EXCEPT ![which] = bytes]
  /\ UNCHANGED <<rules, defaults, ignore, mime, status, asked>>

\* The limits that Validate looks at.
LimitsSet(l) == l

Validate(l) ==
  /\ l.req > 0 /\ l.req <= Gib
  /\ l.mem # NoLimit => l.mem > 0 /\ l.req >= l.mem
  /\ l.resp > 0 /\ l.resp <= Gib

\* NewWAF, after the directives: the configuration may set a limit of its own.
NewWAF ==
  /\ status = "loading" /\ "NewWAF" \in Allowed
  /\ limit' \in {limit} \cup {[limit EXCEPT ![w] = b] : w \in DOMAIN limit, b \in Limits}
  /\ status' = IF Validate(LimitsSet(limit')) THEN "loaded" ELSE "failed"
  /\ UNCHANGED <<rules, defaults, ignore, mime, n, asked>>

----------------------------------------------------------------------------
RuleTexts == [id : Ids, tag : Tags, phase : Phases, hasChain : BOOLEAN, acts : Actions]
Variables == {"ARGS"}
MimeTypes == {"text/html", "text/xml"}

Next ==
  \/ \E r \in RuleTexts, bad, isAction \in BOOLEAN : SecRule(r, bad, isAction)
  \/ SecMarker
  \/ \E d \in Defaults : SecDefaultAction(d)
  \/ \E b \in BOOLEAN : SecIgnoreRuleCompilationErrors(b)
  \/ \E id \in Ids : SecRuleRemoveById(id)
  \/ \E a, b \in Ids : SecRuleRemoveByRange(a, b)
  \/ \E t \in Tags : SecRuleRemoveByTag(t)
  \/ \E id \in Ids, v \in Variables, neg \in BOOLEAN : SecRuleUpdateTargetById(id, v, neg)
  \/ \E a, b \in Ids, v \in Variables, neg \in BOOLEAN : SecRuleUpdateTargetByRange(a, b, v, neg)
  \/ \E t \in Tags, v \in Variables, neg \in BOOLEAN : SecRuleUpdateTargetByTag(t, v, neg)
  \/ \E id \in Ids, acts \in Actions, i \in Ids \cup {NoId}, p \in Phases \cup {NoPhase} :
       SecRuleUpdateActionById(id, acts, i, p)
  \/ \E t \in MimeTypes : SecResponseBodyMimeType(<<t>>)
  \/ SecResponseBodyMimeTypesClear
  \/ \E w \in DOMAIN limit, b \in Limits : SecBodyLimit(w, b)
  \/ NewWAF

Spec == Init /\ [][Next]_vars

----------------------------------------------------------------------------
\* Type invariant.
TypeOK ==
  /\ status \in {"loading", "loaded", "failed"} /\ n \in 0..MaxDirectives
  /\ Len(asked.declared) = Len(rules)
  /\ limit \in [{"req", "mem", "resp"} -> Limits \cup {NoLimit, 1, 2}]
  /\ \A i \in DOMAIN rules : rules[i].chain # <<>> => rules[i].hasChain

\* RuleGroup.Add: no two rules have one identifier, and every rule but a marker
\* has one, whatever is added and removed in between.
IdsUnique ==
  \A i, j \in DOMAIN rules :
    ~rules[i].mark => rules[i].id # 0 /\ (rules[i].id = rules[j].id => i = j)

\* A rule is compiled to at most one disruptive action; in a phase with default
\* actions to exactly one, and then "block" has been resolved.
OneDisruptive ==
  \A i \in DOMAIN rules :
    LET das == Das(rules[i].acts) IN
      /\ Len(das) <= 1
      /\ rules[i].phase = 2 => Len(das) = 1 /\ das # <<"block">>

\* NewWAF returns no WAF whose limits contradict each other, whether they come
\* from directives or from the configuration.
LimitsConsistent ==
  status = "loaded" =>
    /\ 0 < limit.req /\ limit.req <= Gib /\ 0 < limit.resp /\ limit.resp <= Gib
    /\ limit.mem = NoLimit \/ (0 < limit.mem /\ limit.mem <= limit.req)

\* Claims of the comments that the code does not keep.

\* SecRuleUpdateActionById changes neither the identifier nor the phase of a rule.
IdentityKept ==
  \A i \in DOMAIN rules : asked.declared[i] = <<rules[i].id, rules[i].phase>>

\* A variable a SecRuleUpdateTarget directive appends is a target of the rules it names.
TargetsApplied ==
  \A i \in DOMAIN rules : {t[2] : t \in {t \in asked.targets : t[1] = rules[i].id}} \subseteq rules[i].vars

\* Several SecResponseBodyMimeType directives add MIME types.
MimesAdded == asked.mimes \subseteq ToSet(mime)

\* Default actions are not inherited by the chained rules.
LinksInheritNothing ==
  \A i \in DOMAIN rules : \A l \in ToSet(rules[i].chain) : l.acts = ParseActions(l.own)
=============================================================================
